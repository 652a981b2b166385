--------------------------- MODULE ThumbnailCache ---------------------------
(***************************************************************************)
(* GET /assets/{id}/thumbnail: the gates of the route and cached_thumbnail *)
(* (service/portal/thumbnail.py) run by worker threads at the same time,   *)
(* over a cache directory that outlives the process, that an operator may  *)
(* empty at any time, and whose file system may refuse an operation.       *)
(*                                                                         *)
(* A key is an asset with a size.  The bytes of a thumbnail are abstracted *)
(* to the key and the version of the original they were made from.         *)
(***************************************************************************)
EXTENDS Naturals, FiniteSets

CONSTANTS
  Requests,    \* the requests, each sent at most once
  Keys,        \* the pairs of an asset and a size
  UnsafeKeys,  \* the keys whose asset id is not a safe file name
  MaxVersion,  \* a bound on the versions of an original
  MaxClears,   \* a bound on how often the operator removes a cache file
  MaxCrashes   \* a bound on the crashes of the process

ASSUME KeysAssumption == UnsafeKeys \subseteq Keys
ASSUME BoundsAssumption ==
  /\ MaxVersion \in Nat \ {0}
  /\ MaxClears \in Nat
  /\ MaxCrashes \in Nat

Thumbnails == [key : Keys, version : 1..MaxVersion]
Absent == [file |-> "absent"]      \* there is no file, or no bytes
Partial == [file |-> "partial"]    \* a file that is not fully written

PCs == {"new", "probe", "read", "generate", "mkstemp", "write", "replace",
        "done", "raised", "lost"}

VARIABLES
  pc,        \* pc[r]: the next step of r
  want,      \* want[r]: the key r asks for
  data,      \* data[r]: the bytes r has generated
  answer,    \* answer[r]: the body of the answer, Absent when it is an error
  cache,     \* cache[k]: the cache file of k
  tmp,       \* tmp[n]: the temporary file with the unique name n
  refused,   \* the names whose removal the file system refused
  version,   \* version[k]: the version of the original of k
  readable,  \* readable[k]: whether the original of k can be decoded
  warm,      \* the requests that arrived after their thumbnail was stored
  clears,    \* how many cache files were removed
  crashes    \* how often the process died

reqVars  == <<pc, want, data, answer>>
fileVars == <<cache, tmp, refused>>
srcVars  == <<version, readable>>
vars == <<reqVars, fileVars, srcVars, warm, clears, crashes>>

TypeOK ==
  /\ pc \in [Requests -> PCs]
  /\ want \in [Requests -> Keys]
  /\ data \in [Requests -> Thumbnails \cup {Absent}]
  /\ answer \in [Requests -> Thumbnails \cup {Absent, Partial}]
  /\ cache \in [Keys -> Thumbnails \cup {Absent, Partial}]
  /\ tmp \in [Requests -> Thumbnails \cup {Absent, Partial}]
  /\ refused \subseteq Requests
  /\ version \in [Keys -> 1..MaxVersion]
  /\ readable \in [Keys -> BOOLEAN]
  /\ warm \subseteq Requests
  /\ clears \in 0..MaxClears
  /\ crashes \in 0..MaxCrashes

Init ==
  /\ pc = [r \in Requests |-> "new"]
  /\ want \in [Requests -> Keys]
  /\ data = [r \in Requests |-> Absent]
  /\ answer = [r \in Requests |-> Absent]
  /\ cache = [k \in Keys |-> Absent]
  /\ tmp = [r \in Requests |-> Absent]
  /\ refused = {}
  /\ version = [k \in Keys |-> 1]
  /\ readable = [k \in Keys |-> TRUE]
  /\ warm = {}
  /\ clears = 0
  /\ crashes = 0

-----------------------------------------------------------------------------
(* Names of files.                                                         *)

\* Mutant: the size is not part of the file name, all keys share one file.
OneFile(k) == CHOOSE j \in Keys : TRUE

\* <asset_id>_<dim>.jpg: one file for each key.
CacheFile(k) == k

\* Mutant: a name made from the process id, the same for all threads.
ProcessName(r) == CHOOSE q \in Requests : TRUE

\* mkstemp: a name no other thread has.
TmpName(r) == r

Goto(r, from, to) == pc[r] = from /\ pc' = [pc EXCEPT ![r] = to]

Finish(r, from, body) ==
  /\ Goto(r, from, "done")
  /\ answer' = [answer EXCEPT ![r] = body]

-----------------------------------------------------------------------------
(* The request.                                                            *)

\* 404, 404 or 410: the asset is not exposed, is neither an image nor a
\* video, or its original is gone.
Refuse(r) ==
  /\ Finish(r, "new", Absent)
  /\ UNCHANGED <<want, data, fileVars, srcVars, warm, clears, crashes>>

\* The gates are passed.  An unsafe asset id never touches the cache.
Enter(r) ==
  /\ Goto(r, "new", IF want[r] \in UnsafeKeys THEN "generate" ELSE "probe")
  /\ warm' = IF want[r] \notin UnsafeKeys /\ cache[CacheFile(want[r])] # Absent
               THEN warm \cup {r} ELSE warm
  /\ UNCHANGED <<want, data, answer, fileVars, srcVars, clears, crashes>>

\* cpath.is_file()
Probe(r) ==
  /\ Goto(r, "probe", IF cache[CacheFile(want[r])] # Absent THEN "read" ELSE "generate")
  /\ UNCHANGED <<want, data, answer, fileVars, srcVars, warm, clears, crashes>>

\* cpath.read_bytes(): the file may have been removed since the probe, and
\* then the thumbnail is made again.
ReadCache(r) ==
  LET body == cache[CacheFile(want[r])] IN
    /\ IF body # Absent
         THEN Finish(r, "read", body)
         ELSE Goto(r, "read", "generate") /\ UNCHANGED answer
    /\ UNCHANGED <<want, data, fileVars, srcVars, warm, clears, crashes>>

\* Reading the file fails although it is there: made again, too.
ReadFails(r) ==
  /\ Goto(r, "read", "generate")
  /\ warm' = warm \ {r}
  /\ UNCHANGED <<want, data, answer, fileVars, srcVars, clears, crashes>>

\* generate_thumbnail reads the original.  A failure is an answer without a
\* body (404) and is not cached.
Generate(r) ==
  /\ \/ /\ readable[want[r]]
        /\ LET body == [key |-> want[r], version |-> version[want[r]]] IN
             /\ data' = [data EXCEPT ![r] = body]
             /\ IF want[r] \in UnsafeKeys
                  THEN Finish(r, "generate", body)
                  ELSE Goto(r, "generate", "mkstemp") /\ UNCHANGED answer
     \/ /\ ~readable[want[r]]
        /\ Finish(r, "generate", Absent)
        /\ UNCHANGED data
  /\ UNCHANGED <<want, fileVars, srcVars, warm, clears, crashes>>

\* An empty temporary file with a unique name, in the cache directory.
Mkstemp(r) ==
  /\ Goto(r, "mkstemp", "write")
  /\ tmp' = [tmp EXCEPT ![TmpName(r)] = Partial]
  /\ UNCHANGED <<want, data, answer, cache, refused, srcVars, warm, clears, crashes>>

Write(r) ==
  /\ Goto(r, "write", "replace")
  /\ tmp' = [tmp EXCEPT ![TmpName(r)] = IF @ = Absent THEN Absent ELSE data[r]]
  /\ UNCHANGED <<want, data, answer, cache, refused, srcVars, warm, clears, crashes>>

\* os.replace is atomic.
Replace(r) ==
  /\ tmp[TmpName(r)] # Absent
  /\ Finish(r, "replace", data[r])
  /\ cache' = [cache EXCEPT ![CacheFile(want[r])] = tmp[TmpName(r)]]
  /\ tmp' = [tmp EXCEPT ![TmpName(r)] = Absent]
  /\ UNCHANGED <<want, data, refused, srcVars, warm, clears, crashes>>

\* Mutant: a store that fails leaves its temporary file.
StoreFailsDirty(r) ==
  /\ pc[r] \in {"mkstemp", "write", "replace"}
  /\ Finish(r, pc[r], data[r])
  /\ UNCHANGED <<want, data, fileVars, srcVars, warm, clears, crashes>>

\* Mutant: the handler of the error unlinks the cache file.
StoreFailsUnlinksCache(r) ==
  /\ pc[r] \in {"mkstemp", "write", "replace"}
  /\ Finish(r, pc[r], data[r])
  /\ cache' = [cache EXCEPT ![CacheFile(want[r])] = Absent]
  /\ UNCHANGED <<want, data, tmp, refused, srcVars, warm, clears, crashes>>

\* Mutant: a thumbnail that cannot be stored is not answered either.
StoreFailsWithoutAnswer(r) ==
  /\ pc[r] \in {"mkstemp", "write", "replace"}
  /\ Finish(r, pc[r], Absent)
  /\ tmp' = IF pc[r] = "mkstemp" THEN tmp ELSE [tmp EXCEPT ![TmpName(r)] = Absent]
  /\ UNCHANGED <<want, data, cache, refused, srcVars, warm, clears, crashes>>

\* mkdir, mkstemp, the write or the replace raises OSError: the generated
\* bytes are the answer all the same.  The temporary file, once there is one,
\* is removed, unless that is refused, too: contextlib.suppress.
StoreFails(r) ==
  /\ pc[r] \in {"mkstemp", "write", "replace"}
  /\ Finish(r, pc[r], data[r])
  /\ \/ /\ tmp' = IF pc[r] = "mkstemp" THEN tmp ELSE [tmp EXCEPT ![TmpName(r)] = Absent]
        /\ UNCHANGED refused
     \/ /\ pc[r] # "mkstemp"
        /\ refused' = refused \cup {TmpName(r)}
        /\ UNCHANGED tmp
  /\ UNCHANGED <<want, data, cache, srcVars, warm, clears, crashes>>

\* The store raises what is no OSError (MemoryError): no handler runs, the
\* answer is 500 and the temporary file stays.
StoreRaises(r) ==
  /\ pc[r] \in {"mkstemp", "write", "replace"}
  /\ Goto(r, pc[r], "raised")
  /\ UNCHANGED <<want, data, answer, fileVars, srcVars, warm, clears, crashes>>

-----------------------------------------------------------------------------
(* The environment (external).                                             *)

\* The operator removes a cache file: it is derived and can be made again.
ClearCache(k) ==
  /\ clears < MaxClears
  /\ cache[k] # Absent
  /\ clears' = clears + 1
  /\ cache' = [cache EXCEPT ![k] = Absent]
  /\ warm' = {r \in warm : CacheFile(want[r]) # k}
  /\ UNCHANGED <<reqVars, tmp, refused, srcVars, crashes>>

\* A temporary file is removed under the thread that writes it.
ClearTmp(r) ==
  /\ clears < MaxClears
  /\ tmp[r] # Absent
  /\ clears' = clears + 1
  /\ tmp' = [tmp EXCEPT ![r] = Absent]
  /\ UNCHANGED <<reqVars, cache, refused, srcVars, warm, crashes>>

\* The original is replaced by another version, or becomes unreadable.
ChangeOriginal(k) ==
  \/ /\ version[k] < MaxVersion
     /\ version' = [version EXCEPT ![k] = @ + 1]
     /\ UNCHANGED <<readable, reqVars, fileVars, warm, clears, crashes>>
  \/ /\ readable[k]
     /\ readable' = [readable EXCEPT ![k] = FALSE]
     /\ UNCHANGED <<version, reqVars, fileVars, warm, clears, crashes>>

\* The process dies: its requests are lost, its files stay.
Crash ==
  /\ crashes < MaxCrashes
  /\ crashes' = crashes + 1
  /\ pc' = [r \in Requests |-> IF pc[r] \in {"new", "done", "raised"} THEN pc[r] ELSE "lost"]
  /\ UNCHANGED <<want, data, answer, fileVars, srcVars, warm, clears>>

-----------------------------------------------------------------------------
Step(r) ==
  \/ Refuse(r)
  \/ Enter(r)
  \/ Probe(r)
  \/ ReadCache(r)
  \/ ReadFails(r)
  \/ Generate(r)
  \/ Mkstemp(r)
  \/ Write(r)
  \/ Replace(r)
  \/ StoreFails(r)
  \/ StoreRaises(r)

Environment ==
  \/ \E k \in Keys : ClearCache(k) \/ ChangeOriginal(k)
  \/ \E r \in Requests : ClearTmp(r)
  \/ Crash

Next == (\E r \in Requests : Step(r)) \/ Environment

Spec == Init /\ [][Next]_vars

-----------------------------------------------------------------------------
(* Properties.                                                             *)

\* The thumbnails of key k made from a version its original has had.
ThumbnailsOf(k) == {b \in Thumbnails : b.key = k /\ b.version <= version[k]}

\* A cache file never holds part of a thumbnail or another key's, whatever
\* threads store at the same time and wherever a crash or an error hits.
CacheIsWhole == \A k \in Keys : cache[k] \in ThumbnailsOf(k) \cup {Absent}

\* A request is answered with a whole thumbnail of the asset and the size it
\* asked for, or with an error; never with a partial read.
AnswersAreWhole == \A r \in Requests : answer[r] \in ThumbnailsOf(want[r]) \cup {Absent}

\* generate-once: a request that arrives when its thumbnail is stored does
\* not read the original, unless the file is removed or cannot be read.
WarmRequestsHit == \A r \in warm : pc[r] \in {"probe", "read", "done", "lost"}

\* A store that fails costs the cached copy and nothing else: bytes that were
\* generated are the answer whatever the file system refuses afterwards, and
\* a temporary file that is not being written is one the error handler could
\* not remove, or of a thread that no handler served: it died with the
\* process or raised what is no OSError (thumbnail.py:166-182).
FailedStoresAreHarmless ==
  \A r \in Requests :
    /\ pc[r] = "done" /\ data[r] # Absent => answer[r] = data[r]
    /\ tmp[r] # Absent => pc[r] \in {"write", "replace", "lost", "raised"} \/ r \in refused
=============================================================================
