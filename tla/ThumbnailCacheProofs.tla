------------------------ MODULE ThumbnailCacheProofs ------------------------
(* Proofs about ThumbnailCache, for any requests, sizes and versions.      *)
EXTENDS ThumbnailCache, TLAPS

\* What a thread holds is a whole thumbnail of the key it serves, and so is
\* its temporary file once it is written.
StoreInv ==
  \A r \in Requests :
    /\ pc[r] \in {"mkstemp", "write", "replace"} => data[r] \in ThumbnailsOf(want[r])
    /\ pc[r] = "replace" => tmp[r] \in {data[r], Absent}

IInv == TypeOK /\ StoreInv /\ CacheIsWhole /\ AnswersAreWhole

-----------------------------------------------------------------------------
\* The two values that stand for files without a thumbnail are none.
LEMMA NotThumbnails == Absent \notin Thumbnails /\ Partial \notin Thumbnails
BY DEF Absent, Partial, Thumbnails

\* A step of a request keeps the types.
LEMMA TypeStep ==
  ASSUME TypeOK, [Next]_vars
  PROVE  TypeOK'
<1>. USE BoundsAssumption DEF TypeOK, PCs, Goto, Finish, TmpName, CacheFile, reqVars, fileVars, srcVars
<1>1. ASSUME NEW r \in Requests, Refuse(r) \/ Enter(r) \/ Probe(r)
      PROVE  TypeOK'
  BY <1>1 DEF Refuse, Enter, Probe
<1>2. ASSUME NEW r \in Requests, ReadCache(r) \/ ReadFails(r)
      PROVE  TypeOK'
  BY <1>2 DEF ReadCache, ReadFails
<1>3. ASSUME NEW r \in Requests, Generate(r)
      PROVE  TypeOK'
  <2>. [key |-> want[r], version |-> version[want[r]]] \in Thumbnails
    BY DEF Thumbnails
  <2>. QED
    BY <1>3 DEF Generate
<1>4. ASSUME NEW r \in Requests, Mkstemp(r) \/ Write(r)
      PROVE  TypeOK'
  BY <1>4 DEF Mkstemp, Write
<1>5. ASSUME NEW r \in Requests, Replace(r) \/ StoreFails(r) \/ StoreRaises(r)
      PROVE  TypeOK'
  BY <1>5 DEF Replace, StoreFails, StoreRaises
<1>6. ASSUME NEW k \in Keys, ClearCache(k) \/ ChangeOriginal(k)
      PROVE  TypeOK'
  <2>1. CASE ClearCache(k)
    BY <2>1 DEF ClearCache
  <2>2. CASE ChangeOriginal(k) /\ version' = version
    BY <2>2 DEF ChangeOriginal
  <2>3. CASE ChangeOriginal(k) /\ version' # version
    <3>1. version[k] < MaxVersion /\ version' = [version EXCEPT ![k] = @ + 1]
      BY <2>3 DEF ChangeOriginal
    <3>2. version[k] + 1 \in 1..MaxVersion
      BY <3>1
    <3>3. version' \in [Keys -> 1..MaxVersion]
      BY <3>1, <3>2
    <3>. QED
      BY <2>3, <3>3 DEF ChangeOriginal
  <2>. QED
    BY <1>6, <2>1, <2>2, <2>3
<1>7. ASSUME NEW r \in Requests, ClearTmp(r)
      PROVE  TypeOK'
  BY <1>7 DEF ClearTmp
<1>8. CASE Crash
  BY <1>8 DEF Crash
<1>9. CASE UNCHANGED vars
  BY <1>9 DEF vars
<1>. QED
  BY <1>1, <1>2, <1>3, <1>4, <1>5, <1>6, <1>7, <1>8, <1>9 DEF Next, Step, Environment

\* A version is never taken back, so a thumbnail stays one.
LEMMA ThumbnailsStay ==
  ASSUME TypeOK, [Next]_vars, NEW k \in Keys
  PROVE  ThumbnailsOf(k) \subseteq ThumbnailsOf(k)'
<1>1. \/ UNCHANGED version
      \/ \E j \in Keys : version' = [version EXCEPT ![j] = @ + 1]
  BY DEF Next, Step, Environment, Refuse, Enter, Probe, ReadCache, ReadFails, Generate,
         Mkstemp, Write, Replace, StoreFails, StoreRaises, ClearCache, ClearTmp, ChangeOriginal,
         Crash, vars, srcVars
<1>2. version[k] \in 1..MaxVersion
  BY DEF TypeOK
<1>3. version[k] <= version'[k]
  BY <1>1, <1>2, BoundsAssumption DEF TypeOK
<1>. QED
  <2> SUFFICES ASSUME NEW b \in ThumbnailsOf(k) PROVE b.version <= version'[k]
    BY DEF ThumbnailsOf
  <2>1. b.version \in Nat /\ b.version <= version[k]
    BY BoundsAssumption DEF ThumbnailsOf, Thumbnails
  <2>2. version'[k] \in Nat
    BY <1>1, <1>2, BoundsAssumption DEF TypeOK
  <2>. QED
    BY <1>2, <1>3, <2>1, <2>2, BoundsAssumption

\* Nobody changes what a request asks for.
LEMMA WantStays == [Next]_vars => UNCHANGED want
BY DEF Next, Step, Environment, Refuse, Enter, Probe, ReadCache, ReadFails, Generate,
       Mkstemp, Write, Replace, StoreFails, StoreRaises, ClearCache, ClearTmp, ChangeOriginal,
       Crash, vars, reqVars, Goto, Finish

\* Every step keeps whole what threads, files and answers hold.
LEMMA WholeStep ==
  ASSUME IInv, [Next]_vars
  PROVE  (StoreInv /\ CacheIsWhole /\ AnswersAreWhole)'
<1>. DEFINE T(k) == ThumbnailsOf(k)
<1>1. /\ \A k \in Keys : T(k) \subseteq T(k)'
      /\ want' = want
      /\ TypeOK
      /\ TypeOK'
  BY ThumbnailsStay, WantStays, TypeStep DEF IInv
<1>2. /\ \A r \in Requests : want[r] \in Keys
      /\ \A r \in Requests : pc[r] \in {"mkstemp", "write", "replace"} => data[r] \in T(want[r])
      /\ \A r \in Requests : pc[r] = "replace" => tmp[r] \in {data[r], Absent}
      /\ \A k \in Keys : cache[k] \in T(k) \cup {Absent}
      /\ \A r \in Requests : answer[r] \in T(want[r]) \cup {Absent}
  BY DEF IInv, TypeOK, StoreInv, CacheIsWhole, AnswersAreWhole
<1>. SUFFICES
       /\ \A r \in Requests : pc'[r] \in {"mkstemp", "write", "replace"} => data'[r] \in T(want[r])'
       /\ \A r \in Requests : pc'[r] = "replace" => tmp'[r] \in {data'[r], Absent}
       /\ \A k \in Keys : cache'[k] \in T(k)' \cup {Absent}
       /\ \A r \in Requests : answer'[r] \in T(want[r])' \cup {Absent}
  BY <1>1 DEF StoreInv, CacheIsWhole, AnswersAreWhole
<1>3. ASSUME NEW r \in Requests, Generate(r), readable[want[r]]
      PROVE  [key |-> want[r], version |-> version[want[r]]] \in T(want[r])
  BY <1>1, BoundsAssumption DEF ThumbnailsOf, Thumbnails, TypeOK
<1>. HIDE DEF T
<1>. USE DEF Goto, Finish, TmpName, CacheFile, reqVars, fileVars, srcVars
<1>4. CASE \E r \in Requests : Refuse(r) \/ Enter(r) \/ Probe(r) \/ ReadFails(r)
  BY <1>1, <1>2, <1>4 DEF Refuse, Enter, Probe, ReadFails, TypeOK
<1>5. CASE \E r \in Requests : ReadCache(r)
  BY <1>1, <1>2, <1>5 DEF ReadCache, TypeOK
<1>6. CASE \E r \in Requests : Generate(r)
  BY <1>1, <1>2, <1>3, <1>6 DEF Generate, TypeOK
<1>7. CASE \E r \in Requests : Mkstemp(r) \/ Write(r)
  BY <1>1, <1>2, <1>7 DEF Mkstemp, Write, TypeOK
<1>8. CASE \E r \in Requests : Replace(r) \/ StoreFails(r) \/ StoreRaises(r)
  BY <1>1, <1>2, <1>8 DEF Replace, StoreFails, StoreRaises, TypeOK
<1>9. CASE Environment
  BY <1>1, <1>2, <1>9 DEF Environment, ClearCache, ClearTmp, ChangeOriginal, Crash, TypeOK
<1>10. CASE UNCHANGED vars
  BY <1>1, <1>2, <1>10 DEF vars
<1>. QED
  BY <1>4, <1>5, <1>6, <1>7, <1>8, <1>9, <1>10 DEF Next, Step

-----------------------------------------------------------------------------
\* The inductive invariant holds in every reachable state.
THEOREM Invariance == Spec => []IInv
<1>1. Init => IInv
  BY BoundsAssumption DEF Init, IInv, TypeOK, PCs, StoreInv, CacheIsWhole, AnswersAreWhole
<1>2. IInv /\ [Next]_vars => IInv'
  BY TypeStep, WholeStep DEF IInv
<1>. QED
  BY <1>1, <1>2, PTL DEF Spec

\* No cache file ever holds part of a thumbnail or another key's.
THEOREM CacheIsWholeHolds == Spec => []CacheIsWhole
BY Invariance, PTL DEF IInv

\* No request is ever answered with part of a thumbnail or another key's.
THEOREM AnswersAreWholeHolds == Spec => []AnswersAreWhole
BY Invariance, PTL DEF IInv

-----------------------------------------------------------------------------
\* A warm request finds its thumbnail as long as it has not been answered.
WarmInv ==
  \A r \in warm :
    /\ pc[r] \in {"probe", "read", "done", "lost"}
    /\ pc[r] \in {"probe", "read"} => cache[want[r]] # Absent

\* Who has not generated yet has no bytes, and who has generated them and
\* ended has answered them.
BytesInv ==
  /\ \A r \in Requests : pc[r] \in {"new", "probe", "read", "generate"} => data[r] = Absent
  /\ FailedStoresAreHarmless

\* Every step keeps the bytes with their answers and the temporary files with
\* the threads that write them.
LEMMA BytesStep ==
  ASSUME TypeOK, BytesInv, [Next]_vars
  PROVE  BytesInv'
<1>. USE DEF TypeOK, BytesInv, FailedStoresAreHarmless, Goto, Finish, TmpName, reqVars, fileVars
<1>1. CASE \E r \in Requests : Refuse(r) \/ Enter(r) \/ Probe(r) \/ ReadCache(r) \/ ReadFails(r)
  BY <1>1 DEF Refuse, Enter, Probe, ReadCache, ReadFails
<1>2. CASE \E r \in Requests : Generate(r)
  BY <1>2 DEF Generate
<1>3. CASE \E r \in Requests : Mkstemp(r) \/ Write(r)
  BY <1>3 DEF Mkstemp, Write
<1>4. CASE \E r \in Requests : Replace(r) \/ StoreFails(r) \/ StoreRaises(r)
  BY <1>4 DEF Replace, StoreFails, StoreRaises
<1>5. CASE Environment
  BY <1>5 DEF Environment, ClearCache, ClearTmp, ChangeOriginal, Crash
<1>6. CASE UNCHANGED vars
  BY <1>6 DEF vars
<1>. QED
  BY <1>1, <1>2, <1>3, <1>4, <1>5, <1>6 DEF Next, Step

\* Every step keeps the thumbnails of warm requests in the cache.
LEMMA WarmStep ==
  ASSUME TypeOK, WarmInv, [Next]_vars
  PROVE  WarmInv'
<1>. USE DEF TypeOK, WarmInv, Goto, Finish, TmpName, CacheFile, reqVars, fileVars
<1>1. CASE \E r \in Requests : Refuse(r) \/ Enter(r)
  BY <1>1 DEF Refuse, Enter
<1>2. CASE \E r \in Requests : Probe(r) \/ ReadCache(r) \/ ReadFails(r)
  BY <1>2 DEF Probe, ReadCache, ReadFails
<1>3. CASE \E r \in Requests : Generate(r)
  BY <1>3 DEF Generate
<1>4. CASE \E r \in Requests : Mkstemp(r) \/ Write(r)
  BY <1>4 DEF Mkstemp, Write
<1>5. CASE \E r \in Requests : Replace(r) \/ StoreFails(r) \/ StoreRaises(r)
  BY <1>5 DEF Replace, StoreFails, StoreRaises
<1>6. CASE Environment
  BY <1>6 DEF Environment, ClearCache, ClearTmp, ChangeOriginal, Crash
<1>7. CASE UNCHANGED vars
  BY <1>7 DEF vars
<1>. QED
  BY <1>1, <1>2, <1>3, <1>4, <1>5, <1>6, <1>7 DEF Next, Step

\* Whatever the file system refuses while a thumbnail is stored, the request
\* is answered with the bytes it generated, and a temporary file stays only
\* where the handler could not remove it or no handler ran.
THEOREM FailedStoresAreHarmlessHolds == Spec => []FailedStoresAreHarmless
<1>1. Init => BytesInv
  BY DEF Init, BytesInv, FailedStoresAreHarmless
<1>2. IInv /\ BytesInv /\ [Next]_vars => BytesInv'
  BY BytesStep DEF IInv
<1>3. BytesInv => FailedStoresAreHarmless
  BY DEF BytesInv
<1>. QED
  BY <1>1, <1>2, <1>3, Invariance, PTL DEF Spec

\* generate-once: a request that finds its thumbnail stored does not read the
\* original, unless the file is removed or cannot be read.
THEOREM WarmRequestsHitHolds == Spec => []WarmRequestsHit
<1>1. Init => WarmInv
  BY DEF Init, WarmInv
<1>2. IInv /\ WarmInv /\ [Next]_vars => WarmInv'
  BY WarmStep DEF IInv
<1>3. WarmInv => WarmRequestsHit
  BY DEF WarmInv, WarmRequestsHit
<1>. QED
  BY <1>1, <1>2, <1>3, Invariance, PTL DEF Spec
=============================================================================
