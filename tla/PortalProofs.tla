---------------------------- MODULE PortalProofs ----------------------------
(* Proofs about Portal, for any clients, environments, tokens, domains and  *)
(* answers of the search engine.                                            *)
EXTENDS Portal, RankingProofs

-----------------------------------------------------------------------------
(* The inductive invariant.                                                *)

\* Every token that was issued is what its process issued.
MintedInv ==
  \A m \in minted : \E u \in Subjects : m.token = Issued(m.env, u, m.at)

\* The verifier of a process is that of its environment.
VerifierInv == verifier \in {NoVerifier, VerifierOf(env)}

RefusedAt(c) ==
  Refuses(checked[c].env, VerifierOf(checked[c].env), cred[c], checked[c].at)

Admitted(c) ==
  /\ Loads(checked[c].env)
  /\ ~RefusedAt(c)
  /\ principal[c] = PrincipalFor(cred[c])

\* What has become of the token of a request.
CheckInv ==
  \A c \in Clients :
    /\ checked[c].at <= clock
    /\ phase[c] \in {"admitted", "found", "reading", "answered"} => checked[c].env = env
    /\ phase[c] \in {"admitted", "found", "reading"} \/ status[c] = 200 => Admitted(c)
    /\ principal[c] # Anonymous => Admitted(c)
    /\ status[c] = 401 => RefusedAt(c)

\* When a request has a principal, a status and a row.
StageInv ==
  \A c \in Clients :
    /\ phase[c] \in {"idle", "arrived", "admitted", "found", "reading"} => status[c] = NoStatus
    /\ phase[c] = "answered" => status[c] # NoStatus
    /\ phase[c] # "done" => label[c] = None
    /\ phase[c] = "arrived" => principal[c] = Anonymous

\* The tiers a request goes by are ones its domains had since it arrived.
ReadsAreFresh ==
  \A c \in Clients :
    /\ phase[c] \in Running => \A d \in Domains : tiers[d] \in since[c].tiers[d]
    /\ phase[c] # "idle" => \A d \in DOMAIN read[c].tiers : read[c].tiers[d] \in since[c].tiers[d]

\* What a transaction has read is a record.
ReadInv ==
  /\ read = [c \in Clients |-> read[c]]
  /\ \A c \in Clients :
       read[c] = [tiers |-> read[c].tiers, edges |-> read[c].edges, row |-> read[c].row]

\* What a request that is running has been promised of the relations.
LiveInv ==
  \A c \in Clients : phase[c] \in Running =>
    /\ since[c].present \subseteq {e \in Edges : relation[e] # "gone"}
    /\ since[c].confirmed \subseteq {e \in Edges : relation[e] = "strong"}

\* A search is answered with what its transaction made of its hits.
SearchInv ==
  \A c \in Clients :
    /\ phase[c] # "idle" => asked[c] \in Asks
    /\ phase[c] = "found" => asked[c].op = "search" /\ hits[c] \in Hits
    /\ phase[c] = "reading" => asked[c].op = "detail"
    /\ Answered(c, "search") =>
         /\ hits[c] \in Hits /\ DomainsOf(c) \subseteq DOMAIN read[c].tiers
         /\ answer[c] = SearchAnswer(asked[c], GroupedRaw(c), read[c].tiers, principal[c].clearance)

\* The rows the core package makes of edges.
GradedEdges ==
  [edge : Nat, asset : Nat, kind : STRING, conf : Nat \cup {NoConfidence},
   tier : {"weak", "strong"}, folded : SUBSET STRING]

\* A row tells of an edge from the floor on: it is of its neighbour, and of its
\* kind or with its kind folded into it.
TellsOf(row, e) == row.asset = e.asset /\ e.kind \in {row.kind} \cup row.folded

\* The rows a request has read are of different edges, and they tell of the
\* edges it has been promised and of their confirmation.
EdgesRead(c) ==
  LET edges == read[c].edges[1] IN
  /\ edges \in Seq(GradedEdges)
  /\ \A i, j \in DOMAIN edges : edges[i].edge = edges[j].edge => i = j
  /\ \A e \in since[c].present : e.conf >= MinConf =>
       \E i \in DOMAIN edges : TellsOf(edges[i], e)
  /\ \A e \in since[c].confirmed : e.conf >= MinConf =>
       \E i \in DOMAIN edges : edges[i].asset = e.asset /\ edges[i].tier = "strong"

\* A detail is answered with the cards of what was read, and with the summary
\* that a tier of the domain lets the caller see.
DetailInv ==
  \A c \in Clients :
    /\ phase[c] \in {"arrived", "admitted"} => read[c].edges = <<>>
    /\ phase[c] = "reading" /\ read[c].edges # <<>> => EdgesRead(c)
    /\ Answered(c, "detail") =>
         /\ EdgesRead(c) /\ answer[c].relations = Merged(read[c].edges[1])
         /\ \E level \in since[c].tiers[AssetDomain] :
              answer[c].meta = IF MaySee(level, principal[c].clearance) THEN "text" ELSE Omitted

IInv == TypeOK /\ ReadInv /\ MintedInv /\ VerifierInv /\ CheckInv /\ StageInv /\ RowNamesCaller /\ ReadsAreFresh

-----------------------------------------------------------------------------
(* Lemmas.                                                                 *)

\* What a process issues is a token, with a lifetime of its own or longer.
LEMMA IssuedIsToken ==
  ASSUME NEW e \in Environments, NEW u \in Subjects, NEW t \in Nat
  PROVE  /\ Issued(e, u, t) \in Tokens
         /\ Ttl(e) \in Nat /\ Ttl(e) >= e.ttl /\ Ttl(e) >= MinTtl
BY TtlAssumption DEF Issued, Tokens, Environments, Secret, Ttl

\* A token is issued to the one it is asked for, if that is not blank.
LEMMA RequestedIsSubject ==
  ASSUME NEW b \in Bodies, Requested(b) # Blank
  PROVE  Requested(b) \in Subjects
BY BodiesAssumption DEF Requested, Subjects

\* The verifier of an environment is a verifier, or there is none.
LEMMA VerifierOfIsVerifier ==
  ASSUME NEW e \in Environments
  PROVE  VerifierOf(e) \in Verifiers /\ VerifierOf(e) # NoVerifier
BY NamesAssumption DEF VerifierOf, Verifiers, NoVerifier, Environments, Secret

\* A token that is not refused makes a principal.
LEMMA PrincipalForIsPrincipal ==
  ASSUME NEW token \in Tokens \cup {NoToken}, NEW e, NEW v, NEW t, ~Refuses(e, v, token, t)
  PROVE  PrincipalFor(token) \in Principals
BY DEF PrincipalFor, PrincipalOf, Principals, Anonymous, Refuses, Verifies, Tokens, NoToken, Subjects, Public, Member

\* The initial states.
LEMMA InitInvariant == Init => IInv
<1> SUFFICES ASSUME Init PROVE IInv
  OBVIOUS
<1>1. TypeOK
  BY EnvsAssumption, BoundsAssumption
     DEF Init, TypeOK, Nothing, Levels, Member, Principals, Anonymous, Subjects, Public, NoStatus, Phases
<1>2. ReadInv
  BY DEF Init, ReadInv, Nothing
<1>3. MintedInv /\ VerifierInv
  BY DEF Init, MintedInv, VerifierInv
<1>4. CheckInv
  BY EnvsAssumption DEF Init, CheckInv, NoStatus
<1>5. StageInv /\ RowNamesCaller
  BY DEF Init, StageInv, RowNamesCaller, NoStatus
<1>6. ReadsAreFresh
  BY DEF Init, ReadsAreFresh, Running
<1> QED
  BY <1>1, <1>2, <1>3, <1>4, <1>5, <1>6 DEF IInv

\* What clients send is a token.
LEMMA HeldAreTokens ==
  ASSUME TypeOK
  PROVE  TokensOfClients \subseteq Tokens
BY EnvsAssumption DEF TypeOK, TokensOfClients

\* The verifier that verifies a token is that of the environment.
LEMMA TokenVerifierIsOwn ==
  ASSUME TypeOK, VerifierInv
  PROVE  /\ TokenVerifier(verifier, env) = VerifierOf(env)
         /\ VerifierOf(env) \in Verifiers
<1>1. env \in Environments
  BY EnvsAssumption DEF TypeOK
<1>2. VerifierOf(env) \in Verifiers /\ VerifierOf(env) # NoVerifier
  BY <1>1, VerifierOfIsVerifier
<1> QED
  BY <1>2 DEF VerifierInv, TokenVerifier

\* A user of a row is a subject or anonymous.
LEMMA UserOfIsSubject ==
  ASSUME NEW e, NEW v, NEW token \in Tokens \cup {NoToken}, NEW t
  PROVE  UserOf(e, v, token, t) \in Subjects \cup {"anonymous"}
BY DEF UserOf, Verifies, Tokens

\* The actions of a client's request after its check, but for the row.
Answering(c) ==
  \/ RefuseParameters(c) \/ Query(c) \/ SearchFails(c)
  \/ \E d \in Domains : ReadTiers(c, d)
  \/ AnswerSearch(c)
  \/ ReadAsset(c) \/ ReadRelations(c) \/ ReadAssetTiers(c) \/ AnswerDetail(c)
  \/ Retry(c) \/ DatabaseFails(c)

\* What they leave as it is, and what they do to the stages of the request.
LEMMA AnsweringFrame ==
  ASSUME TypeOK, NEW c \in Clients, Answering(c)
  PROVE  /\ UNCHANGED <<process, clock, minted, external, asked, cred, principal, label, checked, since>>
         /\ phase[c] \in {"admitted", "found", "reading"}
         /\ phase' = [phase EXCEPT ![c] = phase'[c]]
         /\ phase'[c] \in {"admitted", "found", "reading", "answered"}
         /\ status' = [status EXCEPT ![c] = status'[c]]
         /\ \/ status'[c] = status[c] /\ phase'[c] # "answered"
            \/ status'[c] \in {200, 400, 404, 422, 500, 503} /\ phase'[c] = "answered"
         /\ retries' \in 0..MaxRetries
         /\ DOMAIN hits' = Clients /\ DOMAIN answer' = Clients
<1> USE DEF TypeOK, Respond
<1>1. CASE RefuseParameters(c)
  BY <1>1 DEF RefuseParameters, ParameterStatus
<1>2. CASE Query(c)
  BY <1>2 DEF Query
<1>3. CASE SearchFails(c)
  BY <1>3 DEF SearchFails
<1>4. CASE \E d \in Domains : ReadTiers(c, d)
  BY <1>4 DEF ReadTiers
<1>5. CASE AnswerSearch(c)
  BY <1>5 DEF AnswerSearch
<1>6. CASE ReadAsset(c)
  BY <1>6 DEF ReadAsset
<1>7. CASE ReadRelations(c)
  BY <1>7 DEF ReadRelations
<1>8. CASE AnswerDetail(c)
  BY <1>8 DEF AnswerDetail
<1>9. CASE Retry(c)
  BY <1>9, BoundsAssumption DEF Retry
<1>10. CASE DatabaseFails(c)
  BY <1>10 DEF DatabaseFails
<1>11. CASE ReadAssetTiers(c)
  BY <1>11 DEF ReadAssetTiers
<1> QED
  BY <1>1, <1>2, <1>3, <1>4, <1>5, <1>6, <1>7, <1>8, <1>9, <1>10, <1>11 DEF Answering

\* A decision of a reviewer changes one relation and nothing of a request.
LEMMA ChangeRelationFrame ==
  ASSUME NEW e \in Edges, NEW s, ChangeRelation(e, s)
  PROVE  /\ changes < MaxChanges /\ changes' = changes + 1
         /\ relation' = [relation EXCEPT ![e] = s]
         /\ UNCHANGED <<process, clock, minted, tiers, retries, request>>
BY DEF ChangeRelation

\* A record of the reads with other tiers is the same record but for the tiers.
LEMMA TiersReplaced ==
  ASSUME NEW S, NEW f, NEW g, NEW c \in S, NEW v, DOMAIN f = S, f = [x \in S |-> f[x]],
         f[c] = [tiers |-> f[c].tiers, edges |-> f[c].edges, row |-> f[c].row],
         g = [f EXCEPT ![c].tiers = v]
  PROVE  /\ g = [f EXCEPT ![c] = g[c]]
         /\ g[c] = [tiers |-> g[c].tiers, edges |-> g[c].edges, row |-> g[c].row]
         /\ g[c].tiers = v
<1>1. g[c] = [f[c] EXCEPT !.tiers = v]
  OBVIOUS
<1>2. g = [f EXCEPT ![c] = g[c]]
  BY <1>1
<1> DEFINE known == f[c]
<1>3. [known EXCEPT !.tiers = v] = [tiers |-> v, edges |-> known.edges, row |-> known.row]
  <2>1. known = [tiers |-> known.tiers, edges |-> known.edges, row |-> known.row]
    OBVIOUS
  <2> HIDE DEF known
  <2> QED
    BY <2>1
<1>4. g[c] = [tiers |-> v, edges |-> f[c].edges, row |-> f[c].row]
  BY <1>1, <1>3
<1> QED
  BY <1>2, <1>4

\* A record of the reads with another row is the same record but for the row.
LEMMA RowReplaced ==
  ASSUME NEW S, NEW f, NEW g, NEW c \in S, NEW v, DOMAIN f = S, f = [x \in S |-> f[x]],
         f[c] = [tiers |-> f[c].tiers, edges |-> f[c].edges, row |-> f[c].row],
         g = [f EXCEPT ![c].row = v]
  PROVE  /\ g = [f EXCEPT ![c] = g[c]]
         /\ g[c] = [tiers |-> g[c].tiers, edges |-> g[c].edges, row |-> g[c].row]
         /\ g[c].tiers = f[c].tiers
<1>1. g[c] = [f[c] EXCEPT !.row = v]
  OBVIOUS
<1>2. g = [f EXCEPT ![c] = g[c]]
  BY <1>1
<1> DEFINE known == f[c]
<1>3. [known EXCEPT !.row = v] = [tiers |-> known.tiers, edges |-> known.edges, row |-> v]
  <2>1. known = [tiers |-> known.tiers, edges |-> known.edges, row |-> known.row]
    OBVIOUS
  <2> HIDE DEF known
  <2> QED
    BY <2>1
<1>4. g[c] = [tiers |-> f[c].tiers, edges |-> f[c].edges, row |-> v]
  BY <1>1, <1>3
<1> QED
  BY <1>2, <1>4

\* What they read: nothing, a tier there is now, or the edges and the row.
LEMMA AnsweringReads ==
  ASSUME TypeOK, ReadInv, NEW c \in Clients, Answering(c)
  PROVE  /\ read' = [read EXCEPT ![c] = read'[c]]
         /\ read'[c] = [tiers |-> read'[c].tiers, edges |-> read'[c].edges, row |-> read'[c].row]
         /\ DOMAIN read'[c].tiers \subseteq Domains
         /\ \A d \in DOMAIN read'[c].tiers :
              \/ d \in DOMAIN read[c].tiers /\ read'[c].tiers[d] = read[c].tiers[d]
              \/ read'[c].tiers[d] = tiers[d]
<1>0. /\ DOMAIN read = Clients
      /\ read = [x \in Clients |-> read[x]]
      /\ read[c] = [tiers |-> read[c].tiers, edges |-> read[c].edges, row |-> read[c].row]
      /\ DOMAIN read[c].tiers \subseteq Domains
  BY DEF TypeOK, ReadInv
<1>1. CASE read' = read
  BY <1>0, <1>1
<1>3. ASSUME NEW d \in Domains, ReadTiers(c, d)
      PROVE  /\ read' = [read EXCEPT ![c] = read'[c]]
             /\ read'[c] = [tiers |-> read'[c].tiers, edges |-> read'[c].edges, row |-> read'[c].row]
             /\ read'[c].tiers = [x \in DOMAIN read[c].tiers \cup {d} |-> IF x = d THEN tiers[d] ELSE read[c].tiers[x]]
  <2> DEFINE f == [x \in DOMAIN read[c].tiers \cup {d} |-> IF x = d THEN tiers[d] ELSE read[c].tiers[x]]
  <2>1. read' = [read EXCEPT ![c].tiers = f]
    BY <1>3 DEF ReadTiers
  <2> HIDE DEF f
  <2>3. read' = [read EXCEPT ![c] = read'[c]] /\ read'[c].tiers = f
        /\ read'[c] = [tiers |-> read'[c].tiers, edges |-> read'[c].edges, row |-> read'[c].row]
    BY <1>0, <2>1, TiersReplaced
  <2> QED
    BY <2>3 DEF f
<1>4. CASE ReadAsset(c) /\ read' # read
  <2>1. PICK v : read' = [read EXCEPT ![c].row = v]
    BY <1>4 DEF ReadAsset
  <2> QED
    BY <1>0, <2>1, RowReplaced
<1>5. CASE ReadRelations(c)
  <2>1. PICK edges : read' = [read EXCEPT ![c].edges = edges]
    BY <1>5 DEF ReadRelations
  <2> QED
    BY <1>0, <2>1
<1>10. CASE ReadAssetTiers(c)
  <2> DEFINE f == [d \in {AssetDomain} |-> tiers[d]]
  <2>1. read' = [read EXCEPT ![c].tiers = f]
    BY <1>10 DEF ReadAssetTiers
  <2>2. DOMAIN f \subseteq Domains /\ \A d \in DOMAIN f : f[d] = tiers[d]
    BY DomainsAssumption
  <2> HIDE DEF f
  <2>3. read' = [read EXCEPT ![c] = read'[c]] /\ read'[c].tiers = f
        /\ read'[c] = [tiers |-> read'[c].tiers, edges |-> read'[c].edges, row |-> read'[c].row]
    BY <1>0, <2>1, TiersReplaced
  <2> QED
    BY <2>2, <2>3
<1>6. CASE Retry(c)
  BY <1>0, <1>6 DEF Retry, Nothing
<1>7. CASE read' # read /\ ~ReadAsset(c) /\ ~ReadRelations(c) /\ ~ReadAssetTiers(c) /\ ~Retry(c) /\ ~(\E d \in Domains : ReadTiers(c, d))
  BY <1>7 DEF Answering, RefuseParameters, Query, SearchFails, AnswerSearch, AnswerDetail, DatabaseFails
<1>8. ASSUME NEW d \in Domains, ReadTiers(c, d)
      PROVE  /\ DOMAIN read'[c].tiers \subseteq Domains
             /\ \A x \in DOMAIN read'[c].tiers :
                  \/ x \in DOMAIN read[c].tiers /\ read'[c].tiers[x] = read[c].tiers[x]
                  \/ read'[c].tiers[x] = tiers[x]
  <2> DEFINE known == read[c].tiers
             found == read'[c].tiers
  <2>1. found = [x \in DOMAIN known \cup {d} |-> IF x = d THEN tiers[d] ELSE known[x]]
    BY <1>3, <1>8
  <2>2. DOMAIN known \subseteq Domains
    BY <1>0
  <2> HIDE DEF known, found
  <2>3. /\ DOMAIN found \subseteq Domains
        /\ \A x \in DOMAIN found : (x \in DOMAIN known /\ found[x] = known[x]) \/ found[x] = tiers[x]
    BY <2>1, <2>2
  <2> QED
    BY <2>3 DEF known, found
<1>9. CASE \E d \in Domains : ReadTiers(c, d)
  <2>1. PICK d \in Domains : ReadTiers(c, d)
    BY <1>9
  <2>2. /\ read' = [read EXCEPT ![c] = read'[c]]
        /\ read'[c] = [tiers |-> read'[c].tiers, edges |-> read'[c].edges, row |-> read'[c].row]
    BY <1>3, <2>1
  <2>3. /\ DOMAIN read'[c].tiers \subseteq Domains
        /\ \A x \in DOMAIN read'[c].tiers :
             \/ x \in DOMAIN read[c].tiers /\ read'[c].tiers[x] = read[c].tiers[x]
             \/ read'[c].tiers[x] = tiers[x]
    BY <1>8, <2>1
  <2> QED
    BY <2>2, <2>3
<1> QED
  BY <1>1, <1>4, <1>5, <1>6, <1>7, <1>9, <1>10

-----------------------------------------------------------------------------
(* The steps, one part of the invariant after the other.                   *)

SinceType ==
  [tiers : [Domains -> SUBSET Levels], confirmed : SUBSET Edges, present : SUBSET Edges]

\* The types of what belongs to requests.
RequestTypes ==
  /\ phase \in [Clients -> Phases]
  /\ cred \in [Clients -> Tokens \cup {NoToken}]
  /\ principal \in [Clients -> Principals]
  /\ status \in [Clients -> {NoStatus, 200, 400, 401, 404, 422, 500, 503}]
  /\ label \in [Clients -> Subjects \cup {"anonymous", None}]
  /\ checked \in [Clients -> [at : 0..MaxClock, env : Envs]]
  /\ DOMAIN asked = Clients /\ DOMAIN hits = Clients /\ DOMAIN answer = Clients

\* The types of what transactions read.
ReadTypes ==
  /\ DOMAIN read = Clients
  /\ \A c \in Clients : DOMAIN read[c].tiers \subseteq Domains

\* The types of what all requests share.
SharedTypes ==
  /\ env \in Envs
  /\ verifier \in Verifiers \cup {NoVerifier}
  /\ clock \in 0..MaxClock
  /\ minted \subseteq [token : Tokens, env : Envs, at : 0..MaxClock]
  /\ tiers \in [Domains -> Levels]
  /\ relation \in [Edges -> {"weak", "strong", "gone"}]
  /\ changes \in 0..MaxChanges /\ retries \in 0..MaxRetries /\ restarts \in 0..MaxRestarts

\* The type invariant in parts.
LEMMA TypeParts ==
  TypeOK <=> SharedTypes /\ RequestTypes /\ ReadTypes /\ since \in [Clients -> SinceType]
BY DEF TypeOK, SharedTypes, RequestTypes, ReadTypes, SinceType

\* Types of what all requests share.
LEMMA SharedTypesStep ==
  ASSUME IInv, [Next]_vars
  PROVE  SharedTypes'
<1>0. SharedTypes /\ RequestTypes /\ ReadTypes /\ since \in [Clients -> SinceType] /\ TypeOK
  BY TypeParts DEF IInv
<1> USE DEF SharedTypes
<1>1. CASE \E b \in Bodies : IssueToken(b)
  <2>1. PICK b \in Bodies : IssueToken(b)
    BY <1>1
  <2>2. Issued(env, Requested(b), clock) \in Tokens
    BY <1>0, <2>1, RequestedIsSubject, IssuedIsToken, EnvsAssumption, BoundsAssumption DEF IssueToken
  <2> QED
    BY <1>0, <2>1, <2>2 DEF IssueToken, process, external
<1>2. CASE \E c \in Clients, ask \in Asks, t \in TokensOfClients \cup {NoToken} : Arrive(c, ask, t)
  BY <1>0, <1>2 DEF Arrive, process, external
<1>3. CASE \E c \in Clients : Authenticate(c)
  BY <1>0, <1>3, TokenVerifierIsOwn DEF Authenticate, external, IInv
<1>4. CASE \E c \in Clients : Answering(c)
  BY <1>0, <1>4, AnsweringFrame DEF process, external
<1>5. CASE \E c \in Clients : Label(c)
  BY <1>0, <1>5, TokenVerifierIsOwn DEF Label, external, IInv
<1>6. CASE Tick
  BY <1>0, <1>6, BoundsAssumption DEF Tick, process, external
<1>7. CASE \E d \in Domains, l \in Levels : ChangeTier(d, l)
  BY <1>0, <1>7, BoundsAssumption DEF ChangeTier, process
<1>8. CASE \E e \in Edges, s \in {"strong", "gone"} : ChangeRelation(e, s)
  BY <1>0, <1>8, ChangeRelationFrame, BoundsAssumption DEF process
<1>9. CASE \E e \in Envs : Restart(e)
  BY <1>0, <1>9, BoundsAssumption DEF Restart, external
<1>10. CASE UNCHANGED vars
  BY <1>0, <1>10 DEF vars, process, external
<1> QED
  BY <1>1, <1>2, <1>3, <1>4, <1>5, <1>6, <1>7, <1>8, <1>9, <1>10 DEF Next, Answering

\* Types of what belongs to requests.
LEMMA RequestTypesStep ==
  ASSUME IInv, [Next]_vars
  PROVE  RequestTypes'
<1>0. SharedTypes /\ RequestTypes /\ ReadTypes /\ since \in [Clients -> SinceType] /\ TypeOK
  BY TypeParts DEF IInv
<1> USE DEF RequestTypes
<1>1. CASE \E b \in Bodies : IssueToken(b)
  BY <1>0, <1>1 DEF IssueToken, request
<1>2. CASE \E c \in Clients, ask \in Asks, t \in TokensOfClients \cup {NoToken} : Arrive(c, ask, t)
  <2>1. PICK c \in Clients, ask \in Asks, t \in Tokens \cup {NoToken} : Arrive(c, ask, t)
    BY <1>0, <1>2, HeldAreTokens
  <2>2. Anonymous \in Principals /\ [at |-> clock, env |-> env] \in [at : 0..MaxClock, env : Envs]
    BY <1>0 DEF Anonymous, Principals, Public, SharedTypes
  <2>3. "arrived" \in Phases
    BY DEF Phases, Open, Running
  <2> QED
    BY <1>0, <2>1, <2>2, <2>3 DEF Arrive
<1>3. CASE \E c \in Clients : Authenticate(c)
  <2>1. PICK c \in Clients : Authenticate(c)
    BY <1>3
  <2>2. [at |-> clock, env |-> env] \in [at : 0..MaxClock, env : Envs] /\ {"answered", "admitted"} \subseteq Phases
    BY <1>0 DEF SharedTypes, Phases, Open, Running
  <2>3. principal' \in [Clients -> Principals]
    <3>1. CASE principal' = principal
      BY <1>0, <3>1
    <3>2. CASE principal' # principal
      <4>1. PICK v : ~Refuses(env, v, cred[c], clock) /\ principal' = [principal EXCEPT ![c] = PrincipalFor(cred[c])]
        BY <2>1, <3>2 DEF Authenticate
      <4>2. cred[c] \in Tokens \cup {NoToken}
        BY <1>0
      <4>3. PrincipalFor(cred[c]) \in Principals
        BY <4>1, <4>2, PrincipalForIsPrincipal
      <4> QED
        BY <1>0, <4>1, <4>3
    <3> QED
      BY <3>1, <3>2
  <2>4. \E code \in {500, 401} :
          \/ Respond(c, code, NoAnswer)
          \/ phase' = [phase EXCEPT ![c] = "admitted"] /\ UNCHANGED <<status, answer>>
    BY <2>1 DEF Authenticate
  <2>5. /\ phase' \in [Clients -> Phases]
        /\ status' \in [Clients -> {NoStatus, 200, 400, 401, 404, 422, 500, 503}]
        /\ DOMAIN answer' = Clients
    <3>1. CASE phase' = [phase EXCEPT ![c] = "admitted"] /\ UNCHANGED <<status, answer>>
      BY <1>0, <2>2, <3>1
    <3>2. ASSUME NEW code \in {500, 401}, Respond(c, code, NoAnswer)
          PROVE  /\ phase' \in [Clients -> Phases]
                 /\ status' \in [Clients -> {NoStatus, 200, 400, 401, 404, 422, 500, 503}]
                 /\ DOMAIN answer' = Clients
      BY <1>0, <2>2, <3>2 DEF Respond
    <3> QED
      BY <2>4, <3>1, <3>2
  <2>6. checked' \in [Clients -> [at : 0..MaxClock, env : Envs]]
    BY <1>0, <2>1, <2>2 DEF Authenticate
  <2> QED
    BY <1>0, <2>1, <2>3, <2>5, <2>6 DEF Authenticate
<1>4. CASE \E c \in Clients : Answering(c)
  <2>1. PICK c \in Clients : Answering(c)
    BY <1>4
  <2>2. /\ UNCHANGED <<asked, cred, principal, label, checked>>
        /\ DOMAIN hits' = Clients /\ DOMAIN answer' = Clients
    BY <1>0, <2>1, AnsweringFrame
  <2>3. PICK p, r :
          /\ p \in {"admitted", "found", "reading", "answered"} /\ phase' = [phase EXCEPT ![c] = p]
          /\ r \in {status[c], 200, 400, 404, 422, 500, 503} /\ status' = [status EXCEPT ![c] = r]
    BY <1>0, <2>1, AnsweringFrame
  <2>4. p \in Phases
    BY <2>3 DEF Phases, Open, Running
  <2> QED
    BY <1>0, <2>2, <2>3, <2>4
<1>5. CASE \E c \in Clients : Label(c)
  <2>1. PICK c \in Clients : Label(c)
    BY <1>5
  <2>2. \A v : UserOf(env, v, cred[c], clock) \in Subjects \cup {"anonymous"}
    BY <1>0, UserOfIsSubject
  <2>3. label' \in [Clients -> Subjects \cup {"anonymous", None}]
    BY <1>0, <2>1, <2>2 DEF Label
  <2>4. "done" \in Phases
    BY DEF Phases
  <2> QED
    BY <1>0, <2>1, <2>3, <2>4 DEF Label
<1>6. CASE Tick
  BY <1>0, <1>6 DEF Tick, request
<1>7. CASE \E d \in Domains, l \in Levels : ChangeTier(d, l)
  BY <1>0, <1>7 DEF ChangeTier, request
<1>8. CASE \E e \in Edges, s \in {"strong", "gone"} : ChangeRelation(e, s)
  BY <1>0, <1>8, ChangeRelationFrame DEF request
<1>9. CASE \E e \in Envs : Restart(e)
  BY <1>0, <1>9 DEF Restart, Phases
<1>10. CASE UNCHANGED vars
  BY <1>0, <1>10 DEF vars, request
<1> QED
  BY <1>1, <1>2, <1>3, <1>4, <1>5, <1>6, <1>7, <1>8, <1>9, <1>10 DEF Next, Answering

\* What changes of the tiers and the relations do to a request's record of them.
LEMMA SinceUpdates ==
  ASSUME NEW r \in SinceType, NEW d \in Domains, NEW l \in Levels, NEW e
  PROVE  /\ [r EXCEPT !.tiers[d] = @ \cup {l}] \in SinceType
         /\ [r EXCEPT !.tiers[d] = @ \cup {l}].tiers = [r.tiers EXCEPT ![d] = @ \cup {l}]
         /\ [r EXCEPT !.confirmed = @ \ {e}, !.present = @ \ {e}] \in SinceType
         /\ [r EXCEPT !.confirmed = @ \ {e}, !.present = @ \ {e}].tiers = r.tiers
BY DEF SinceType

\* Types of what is kept of the time since a request arrived.
LEMMA SinceTypesStep ==
  ASSUME IInv, [Next]_vars
  PROVE  since' \in [Clients -> SinceType]
<1>0. SharedTypes /\ RequestTypes /\ ReadTypes /\ since \in [Clients -> SinceType] /\ TypeOK
  BY TypeParts DEF IInv
<1>1. CASE \E b \in Bodies : IssueToken(b)
  BY <1>0, <1>1 DEF IssueToken
<1>2. CASE \E c \in Clients, ask \in Asks, t \in TokensOfClients \cup {NoToken} : Arrive(c, ask, t)
  <2>1. PICK c \in Clients, ask \in Asks, t \in Tokens \cup {NoToken} : Arrive(c, ask, t)
    BY <1>0, <1>2, HeldAreTokens
  <2> DEFINE new == [tiers |-> [d \in Domains |-> {tiers[d]}],
                     confirmed |-> {e \in Edges : relation[e] = "strong"},
                     present |-> {e \in Edges : relation[e] # "gone"}]
  <2>2. since' = [since EXCEPT ![c] = new]
    BY <2>1 DEF Arrive
  <2>3. new \in SinceType
    BY <1>0 DEF SharedTypes, SinceType
  <2> HIDE DEF new
  <2> QED
    BY <1>0, <2>2, <2>3
<1>3. CASE \E c \in Clients : Authenticate(c)
  BY <1>0, <1>3 DEF Authenticate
<1>4. CASE \E c \in Clients : Answering(c)
  BY <1>0, <1>4, AnsweringFrame
<1>5. CASE \E c \in Clients : Label(c)
  BY <1>0, <1>5 DEF Label
<1>6. CASE Tick
  BY <1>0, <1>6 DEF Tick
<1>7. CASE \E d \in Domains, l \in Levels : ChangeTier(d, l)
  <2>1. PICK d \in Domains, l \in Levels : ChangeTier(d, l)
    BY <1>7
  <2>2. ASSUME NEW c \in Clients
        PROVE  [since[c] EXCEPT !.tiers[d] = @ \cup {l}] \in SinceType
    BY <1>0, SinceUpdates
  <2> QED
    BY <1>0, <2>1, <2>2 DEF ChangeTier
<1>8. CASE \E e \in Edges, s \in {"strong", "gone"} : ChangeRelation(e, s)
  <2>1. PICK e \in Edges, s \in {"strong", "gone"} : ChangeRelation(e, s)
    BY <1>8
  <2>2. ASSUME NEW c \in Clients
        PROVE  [since[c] EXCEPT !.confirmed = @ \ {e}, !.present = @ \ {e}] \in SinceType
    BY <1>0 DEF SinceType
  <2> QED
    BY <1>0, <2>1, <2>2 DEF ChangeRelation
<1>9. CASE \E e \in Envs : Restart(e)
  BY <1>0, <1>9 DEF Restart
<1>10. CASE UNCHANGED vars
  BY <1>0, <1>10 DEF vars
<1> QED
  BY <1>1, <1>2, <1>3, <1>4, <1>5, <1>6, <1>7, <1>8, <1>9, <1>10 DEF Next, Answering

\* What transactions read is a record with the tiers of domains.
LEMMA ReadStep ==
  ASSUME IInv, [Next]_vars
  PROVE  ReadTypes' /\ ReadInv'
<1>0. SharedTypes /\ RequestTypes /\ ReadTypes /\ since \in [Clients -> SinceType] /\ TypeOK
  BY TypeParts DEF IInv
<1> USE DEF IInv, ReadInv, ReadTypes
<1>1. CASE \E b \in Bodies : IssueToken(b)
  BY <1>0, <1>1 DEF IssueToken, request
<1>2. CASE \E c \in Clients, ask \in Asks, t \in TokensOfClients \cup {NoToken} : Arrive(c, ask, t)
  <2>1. PICK c \in Clients : read' = [read EXCEPT ![c] = Nothing]
    BY <1>2 DEF Arrive
  <2>2. /\ DOMAIN Nothing.tiers = {}
        /\ Nothing = [tiers |-> Nothing.tiers, edges |-> Nothing.edges, row |-> Nothing.row]
    BY DEF Nothing
  <2> QED
    BY <1>0, <2>1, <2>2
<1>3. CASE \E c \in Clients : Authenticate(c)
  BY <1>0, <1>3 DEF Authenticate, request
<1>4. CASE \E c \in Clients : Answering(c)
  <2>1. PICK c \in Clients : Answering(c)
    BY <1>4
  <2>2. /\ read' = [read EXCEPT ![c] = read'[c]]
        /\ read'[c] = [tiers |-> read'[c].tiers, edges |-> read'[c].edges, row |-> read'[c].row]
        /\ DOMAIN read'[c].tiers \subseteq Domains
    <3>1. TypeOK /\ ReadInv
      BY DEF IInv
    <3> QED
      BY <2>1, <3>1, AnsweringReads
  <2>3. read = [x \in Clients |-> read[x]] /\ ReadTypes
    BY <1>0
  <2>4. read' = [x \in Clients |-> read'[x]]
    BY <2>2, <2>3
  <2>5. \A x \in Clients \ {c} : read'[x] = read[x]
    BY <2>2, <2>3
  <2> QED
    BY <1>0, <2>2, <2>4, <2>5
<1>5. CASE \E c \in Clients : Label(c)
  BY <1>0, <1>5 DEF Label, request
<1>6. CASE Tick
  BY <1>0, <1>6 DEF Tick, request
<1>7. CASE \E d \in Domains, l \in Levels : ChangeTier(d, l)
  BY <1>0, <1>7 DEF ChangeTier, request
<1>8. CASE \E e \in Edges, s \in {"strong", "gone"} : ChangeRelation(e, s)
  BY <1>0, <1>8, ChangeRelationFrame DEF request
<1>9. CASE \E e \in Envs : Restart(e)
  BY <1>0, <1>9 DEF Restart, request
<1>10. CASE UNCHANGED vars
  BY <1>0, <1>10 DEF vars, request
<1> QED
  BY <1>1, <1>2, <1>3, <1>4, <1>5, <1>6, <1>7, <1>8, <1>9, <1>10 DEF Next, Answering

\* Tokens are issued by processes.
LEMMA MintedStep ==
  ASSUME IInv, [Next]_vars
  PROVE  MintedInv'
<1>0. SharedTypes /\ RequestTypes /\ ReadTypes /\ since \in [Clients -> SinceType] /\ TypeOK
  BY TypeParts DEF IInv
<1> USE DEF IInv, MintedInv
<1>1. CASE \E b \in Bodies : IssueToken(b)
  BY <1>1, RequestedIsSubject DEF IssueToken
<1>2. CASE \E c \in Clients, ask \in Asks, t \in TokensOfClients \cup {NoToken} : Arrive(c, ask, t)
  BY <1>2 DEF Arrive
<1>3. CASE \E c \in Clients : Authenticate(c)
  BY <1>3 DEF Authenticate
<1>4. CASE \E c \in Clients : Answering(c)
  BY <1>0, <1>4, AnsweringFrame
<1>5. CASE \E c \in Clients : Label(c)
  BY <1>5 DEF Label
<1>6. CASE Tick
  BY <1>6 DEF Tick
<1>7. CASE \E d \in Domains, l \in Levels : ChangeTier(d, l)
  BY <1>7 DEF ChangeTier
<1>8. CASE \E e \in Edges, s \in {"strong", "gone"} : ChangeRelation(e, s)
  BY <1>8, ChangeRelationFrame
<1>9. CASE \E e \in Envs : Restart(e)
  BY <1>9 DEF Restart
<1>10. CASE UNCHANGED vars
  BY <1>10 DEF vars
<1> QED
  BY <1>1, <1>2, <1>3, <1>4, <1>5, <1>6, <1>7, <1>8, <1>9, <1>10 DEF Next, Answering

\* A process keeps its verifier.
LEMMA VerifierStep ==
  ASSUME IInv, [Next]_vars
  PROVE  VerifierInv'
<1>0. SharedTypes /\ RequestTypes /\ ReadTypes /\ since \in [Clients -> SinceType] /\ TypeOK
  BY TypeParts DEF IInv
<1> USE DEF IInv, VerifierInv
<1>1. CASE \E b \in Bodies : IssueToken(b)
  BY <1>1 DEF IssueToken, process
<1>2. CASE \E c \in Clients, ask \in Asks, t \in TokensOfClients \cup {NoToken} : Arrive(c, ask, t)
  BY <1>2 DEF Arrive, process
<1>3. CASE \E c \in Clients : Authenticate(c)
  BY <1>3 DEF Authenticate, TokenVerifier
<1>4. CASE \E c \in Clients : Answering(c)
  BY <1>0, <1>4, AnsweringFrame DEF process
<1>5. CASE \E c \in Clients : Label(c)
  BY <1>5 DEF Label, TokenVerifier
<1>6. CASE Tick
  BY <1>6 DEF Tick, process
<1>7. CASE \E d \in Domains, l \in Levels : ChangeTier(d, l)
  BY <1>7 DEF ChangeTier, process
<1>8. CASE \E e \in Edges, s \in {"strong", "gone"} : ChangeRelation(e, s)
  BY <1>8, ChangeRelationFrame DEF process
<1>9. CASE \E e \in Envs : Restart(e)
  BY <1>9 DEF Restart, process
<1>10. CASE UNCHANGED vars
  BY <1>10 DEF vars, process
<1> QED
  BY <1>1, <1>2, <1>3, <1>4, <1>5, <1>6, <1>7, <1>8, <1>9, <1>10 DEF Next, Answering

\* Status and row come at their stages.
LEMMA StageStep ==
  ASSUME IInv, [Next]_vars
  PROVE  StageInv'
<1>0. SharedTypes /\ RequestTypes /\ ReadTypes /\ since \in [Clients -> SinceType] /\ TypeOK
  BY TypeParts DEF IInv
<1> USE DEF IInv, StageInv, RequestTypes, NoStatus
<1>1. CASE \E b \in Bodies : IssueToken(b)
  BY <1>0, <1>1 DEF IssueToken, request
<1>2. CASE \E c \in Clients, ask \in Asks, t \in TokensOfClients \cup {NoToken} : Arrive(c, ask, t)
  BY <1>0, <1>2 DEF Arrive
<1>3. CASE \E c \in Clients : Authenticate(c)
  <2>1. PICK c \in Clients : Authenticate(c)
    BY <1>3
  <2>2. /\ \A x \in Clients \ {c} : phase'[x] = phase[x] /\ status'[x] = status[x]
        /\ \/ phase'[c] = "admitted" /\ status'[c] = status[c]
           \/ phase'[c] = "answered" /\ status'[c] \in {500, 401}
        /\ label' = label /\ phase[c] = "arrived"
        /\ \A x \in Clients \ {c} : principal'[x] = principal[x]
    BY <1>0, <2>1 DEF Authenticate, Respond
  <2> QED
    BY <2>2
<1>4. CASE \E c \in Clients : Answering(c)
  <2>1. PICK c \in Clients : Answering(c)
    BY <1>4
  <2>2. /\ \A x \in Clients \ {c} : phase'[x] = phase[x] /\ status'[x] = status[x]
        /\ \/ status'[c] = status[c] /\ phase'[c] \in {"admitted", "found", "reading"}
           \/ status'[c] \in {200, 400, 404, 422, 500, 503} /\ phase'[c] = "answered"
        /\ label' = label /\ principal' = principal /\ phase[c] \in {"admitted", "found", "reading"}
    BY <1>0, <2>1, AnsweringFrame
  <2> QED
    BY <2>2
<1>5. CASE \E c \in Clients : Label(c)
  BY <1>0, <1>5 DEF Label
<1>6. CASE Tick
  BY <1>0, <1>6 DEF Tick, request
<1>7. CASE \E d \in Domains, l \in Levels : ChangeTier(d, l)
  BY <1>0, <1>7 DEF ChangeTier, request
<1>8. CASE \E e \in Edges, s \in {"strong", "gone"} : ChangeRelation(e, s)
  BY <1>0, <1>8, ChangeRelationFrame DEF request
<1>9. CASE \E e \in Envs : Restart(e)
  BY <1>0, <1>9 DEF Restart, Open, Running
<1>10. CASE UNCHANGED vars
  BY <1>0, <1>10 DEF vars, request
<1> QED
  BY <1>1, <1>2, <1>3, <1>4, <1>5, <1>6, <1>7, <1>8, <1>9, <1>10 DEF Next, Answering

\* What has become of the token of a request.
LEMMA CheckStep ==
  ASSUME IInv, [Next]_vars
  PROVE  CheckInv'
<1>0. SharedTypes /\ RequestTypes /\ ReadTypes /\ since \in [Clients -> SinceType] /\ TypeOK
  BY TypeParts DEF IInv
<1> USE DEF IInv, CheckInv
<1>1. CASE \E b \in Bodies : IssueToken(b)
  BY <1>0, <1>1 DEF IssueToken, request, process, Admitted, RefusedAt
<1>2. CASE \E c \in Clients, ask \in Asks, t \in TokensOfClients \cup {NoToken} : Arrive(c, ask, t)
  <2>1. PICK c \in Clients, ask \in Asks, t \in Tokens \cup {NoToken} : Arrive(c, ask, t)
    BY <1>0, <1>2, HeldAreTokens
  <2>2. UNCHANGED <<clock, env>>
    BY <2>1 DEF Arrive, process
  <2>3. /\ checked'[c] = [at |-> clock, env |-> env]
        /\ phase'[c] = "arrived" /\ status'[c] = NoStatus /\ principal'[c] = Anonymous
    BY <1>0, <2>1 DEF Arrive, RequestTypes
  <2>4. \A x \in Clients \ {c} :
          /\ checked'[x] = checked[x] /\ phase'[x] = phase[x] /\ status'[x] = status[x]
          /\ principal'[x] = principal[x] /\ cred'[x] = cred[x]
    BY <1>0, <2>1 DEF Arrive, RequestTypes
  <2>5. clock <= clock
    BY <1>0 DEF SharedTypes
  <2> QED
    BY <2>2, <2>3, <2>4, <2>5 DEF NoStatus, Admitted, RefusedAt
<1>3. CASE \E c \in Clients : Authenticate(c)
  <2>1. PICK c \in Clients : Authenticate(c)
    BY <1>3
  <2>2. UNCHANGED <<clock, env, cred>>
    BY <2>1 DEF Authenticate
  <2>3. \A x \in Clients \ {c} :
          /\ checked'[x] = checked[x] /\ phase'[x] = phase[x] /\ status'[x] = status[x]
          /\ principal'[x] = principal[x]
    BY <1>0, <2>1 DEF Authenticate, Respond, RequestTypes
  <2>4. checked'[c] = [at |-> clock, env |-> env] /\ phase[c] = "arrived"
    BY <1>0, <2>1 DEF Authenticate, RequestTypes
  <2>5. clock <= clock
    BY <1>0 DEF SharedTypes
  <2>6. status[c] = NoStatus
    BY <2>4 DEF StageInv
  <2> DEFINE own == IF cred[c] = NoToken THEN verifier ELSE TokenVerifier(verifier, env)
  <2>7. Refuses(env, own, cred[c], clock) <=> Refuses(env, VerifierOf(env), cred[c], clock)
    BY TokenVerifierIsOwn, <1>0 DEF Refuses
  <2>8. RefusedAt(c)' <=> Refuses(env, own, cred[c], clock)
    BY <2>2, <2>4, <2>7 DEF RefusedAt
  <2> HIDE DEF own
  <2>9. CASE ~Loads(env)
    <3>1. phase'[c] = "answered" /\ status'[c] = 500 /\ principal' = principal
      BY <1>0, <2>1, <2>9 DEF Authenticate, Respond, RequestTypes
    <3>2. principal[c] = Anonymous
      BY <2>4 DEF StageInv
    <3> QED
      BY <2>2, <2>3, <2>4, <2>5, <3>1, <3>2 DEF Admitted, RefusedAt
  <2>10. CASE Loads(env) /\ Refuses(env, own, cred[c], clock)
    <3>1. phase'[c] = "answered" /\ status'[c] = 401 /\ principal' = principal
      BY <1>0, <2>1, <2>10 DEF Authenticate, Respond, RequestTypes, own
    <3>2. principal[c] = Anonymous
      BY <2>4 DEF StageInv
    <3> QED
      BY <2>2, <2>3, <2>4, <2>5, <2>8, <2>10, <3>1, <3>2 DEF Admitted, RefusedAt
  <2>11. CASE Loads(env) /\ ~Refuses(env, own, cred[c], clock)
    <3>1. phase'[c] = "admitted" /\ status' = status /\ principal'[c] = PrincipalFor(cred[c])
      BY <1>0, <2>1, <2>11 DEF Authenticate, Respond, RequestTypes, own
    <3>2. Admitted(c)'
      BY <2>2, <2>4, <2>8, <2>11, <3>1 DEF Admitted
    <3> QED
      BY <2>2, <2>3, <2>4, <2>5, <2>6, <3>1, <3>2 DEF Admitted, RefusedAt, NoStatus
  <2> QED
    BY <2>9, <2>10, <2>11
<1>4. CASE \E c \in Clients : Answering(c)
  <2>1. PICK c \in Clients : Answering(c)
    BY <1>4
  <2>2. /\ \A x \in Clients \ {c} : phase'[x] = phase[x] /\ status'[x] = status[x]
        /\ \/ status'[c] = status[c] /\ phase'[c] \in {"admitted", "found", "reading"}
           \/ status'[c] \in {200, 400, 404, 422, 500, 503} /\ phase'[c] = "answered"
        /\ phase[c] \in {"admitted", "found", "reading"}
        /\ UNCHANGED <<clock, env, cred, principal, checked>>
    BY <1>0, <2>1, AnsweringFrame DEF RequestTypes, process
  <2>3. status[c] = NoStatus
    BY <2>2 DEF StageInv
  <2> QED
    BY <2>2, <2>3 DEF Admitted, RefusedAt, NoStatus
<1>5. CASE \E c \in Clients : Label(c)
  <2>1. PICK c \in Clients : Label(c)
    BY <1>5
  <2>2. /\ \A x \in Clients \ {c} : phase'[x] = phase[x]
        /\ phase'[c] = "done"
        /\ UNCHANGED <<clock, env, cred, principal, checked, status>>
    BY <1>0, <2>1 DEF Label, RequestTypes
  <2> QED
    BY <2>2 DEF Admitted, RefusedAt
<1>6. CASE Tick
  BY <1>0, <1>6 DEF Tick, request, process, Admitted, RefusedAt, SharedTypes, RequestTypes
<1>7. CASE \E d \in Domains, l \in Levels : ChangeTier(d, l)
  BY <1>0, <1>7 DEF ChangeTier, request, process, Admitted, RefusedAt
<1>8. CASE \E e \in Edges, s \in {"strong", "gone"} : ChangeRelation(e, s)
  BY <1>0, <1>8, ChangeRelationFrame DEF request, process, Admitted, RefusedAt
<1>9. CASE \E e \in Envs : Restart(e)
  <2>1. PICK e \in Envs : Restart(e)
    BY <1>9
  <2>2. \A x \in Clients : phase'[x] = phase[x] \/ phase'[x] = "lost"
    BY <1>0, <2>1 DEF Restart, RequestTypes
  <2>3. \A x \in Clients : phase'[x] \notin {"admitted", "found", "reading", "answered"}
    BY <1>0, <2>1 DEF Restart, RequestTypes, Open, Running
  <2>4. UNCHANGED <<clock, checked, cred, principal, status>>
    BY <2>1 DEF Restart
  <2> QED
    BY <2>2, <2>3, <2>4 DEF Admitted, RefusedAt
<1>10. CASE UNCHANGED vars
  BY <1>0, <1>10 DEF vars, request, process, Admitted, RefusedAt
<1> QED
  BY <1>1, <1>2, <1>3, <1>4, <1>5, <1>6, <1>7, <1>8, <1>9, <1>10 DEF Next, Answering

\* Nobody is called as no name is.
LEMMA NoneIsNobody == None # "anonymous" /\ None \notin Subjects
BY NamesAssumption DEF None

\* The row names whom the handler served.
LEMMA RowStep ==
  ASSUME IInv, [Next]_vars
  PROVE  RowNamesCaller'
<1>0. SharedTypes /\ RequestTypes /\ ReadTypes /\ since \in [Clients -> SinceType] /\ TypeOK
  BY TypeParts DEF IInv
<1> USE DEF IInv, RowNamesCaller
<1>1. CASE \E b \in Bodies : IssueToken(b)
  BY <1>0, <1>1 DEF IssueToken, request
<1>2. CASE \E c \in Clients, ask \in Asks, t \in TokensOfClients \cup {NoToken} : Arrive(c, ask, t)
  <2>1. PICK c \in Clients, ask \in Asks, t \in Tokens \cup {NoToken} : Arrive(c, ask, t)
    BY <1>0, <1>2, HeldAreTokens
  <2>2. /\ phase'[c] = "arrived" /\ label'[c] = None /\ clock' = clock
        /\ \A x \in Clients \ {c} :
             /\ phase'[x] = phase[x] /\ status'[x] = status[x] /\ label'[x] = label[x]
             /\ principal'[x] = principal[x] /\ cred'[x] = cred[x]
    BY <1>0, <2>1 DEF Arrive, RequestTypes
  <2> QED
    BY <2>2
<1>3. CASE \E c \in Clients : Authenticate(c)
  <2>1. PICK c \in Clients : Authenticate(c)
    BY <1>3
  <2>2. /\ phase[c] = "arrived" /\ phase'[c] # "done" /\ UNCHANGED <<clock, cred, label>>
        /\ \A x \in Clients \ {c} :
             phase'[x] = phase[x] /\ status'[x] = status[x] /\ principal'[x] = principal[x]
    BY <1>0, <2>1 DEF Authenticate, Respond, RequestTypes
  <2>3. label[c] = None
    BY <2>2 DEF StageInv
  <2> QED
    BY <2>2, <2>3
<1>4. CASE \E c \in Clients : Answering(c)
  <2>1. PICK c \in Clients : Answering(c)
    BY <1>4
  <2>2. /\ phase[c] \in {"admitted", "found", "reading"} /\ phase'[c] # "done"
        /\ UNCHANGED <<clock, cred, principal, label>>
        /\ \A x \in Clients \ {c} : phase'[x] = phase[x] /\ status'[x] = status[x]
    BY <1>0, <2>1, AnsweringFrame DEF RequestTypes
  <2>3. label[c] = None
    BY <2>2 DEF StageInv
  <2> QED
    BY <2>2, <2>3
<1>5. CASE \E c \in Clients : Label(c)
  <2>1. PICK c \in Clients : Label(c)
    BY <1>5
  <2>2. /\ phase[c] = "answered" /\ UNCHANGED <<clock, cred, principal, status>>
        /\ \A x \in Clients \ {c} : phase'[x] = phase[x] /\ label'[x] = label[x]
    BY <1>0, <2>1 DEF Label, RequestTypes
  <2>3. label[c] = None /\ status[c] \in {200, 400, 401, 404, 422, 500, 503}
    BY <1>0, <2>2 DEF StageInv, RequestTypes
  <2>4. CASE status[c] >= 400
    <3>1. label' = label
      BY <2>1, <2>3, <2>4 DEF Label
    <3> QED
      BY <2>2, <2>3, <2>4, <3>1
  <2>5. CASE status[c] = 200
    <3> DEFINE own == IF cred[c] # NoToken /\ Loads(env) THEN TokenVerifier(verifier, env) ELSE verifier
    <3>1. label'[c] = UserOf(env, own, cred[c], clock)
      BY <1>0, <2>1, <2>5 DEF Label, RequestTypes
    <3>2. Admitted(c) /\ checked[c].env = env
      BY <2>2, <2>5 DEF CheckInv
    <3>3. CASE cred[c] = NoToken
      BY <2>2, <2>3, <2>5, <3>1, <3>2, <3>3, NoneIsNobody DEF UserOf, Admitted, PrincipalFor, Anonymous
    <3>4. CASE cred[c] # NoToken
      <4>1. Loads(env) /\ own = VerifierOf(env)
        BY <1>0, <3>2, <3>4, TokenVerifierIsOwn DEF Admitted
      <4> HIDE DEF own
      <4>2. Verifies(VerifierOf(env), cred[c], checked[c].at) /\ principal[c].user = cred[c].sub
        BY <3>2, <3>4 DEF Admitted, RefusedAt, Refuses, PrincipalFor, PrincipalOf
      <4>3. cred[c].exp \in Int /\ clock \in Int /\ cred[c].sub # None
        BY <1>0, <4>2, BoundsAssumption DEF RequestTypes, SharedTypes, Tokens, NoToken, Verifies
      <4>4. \/ label'[c] = cred[c].sub
            \/ label'[c] = "anonymous" /\ cred[c].exp <= clock
        BY <3>1, <3>4, <4>1, <4>2, <4>3 DEF UserOf, Verifies
      <4> QED
        BY <2>2, <2>5, <4>2, <4>3, <4>4, NoneIsNobody
    <3> QED
      BY <3>3, <3>4
  <2> QED
    BY <2>3, <2>4, <2>5
<1>6. CASE Tick
  <2>1. UNCHANGED <<label, principal, cred, phase, status>> /\ clock' = clock + 1
    BY <1>6 DEF Tick, request
  <2>2. \A x \in Clients : cred[x].exp \in Int
    BY <1>0 DEF RequestTypes, Tokens, NoToken
  <2>3. clock \in Int
    BY <1>0, BoundsAssumption DEF SharedTypes
  <2> QED
    BY <2>1, <2>2, <2>3
<1>7. CASE \E d \in Domains, l \in Levels : ChangeTier(d, l)
  BY <1>0, <1>7 DEF ChangeTier, request
<1>8. CASE \E e \in Edges, s \in {"strong", "gone"} : ChangeRelation(e, s)
  BY <1>0, <1>8, ChangeRelationFrame DEF request
<1>9. CASE \E e \in Envs : Restart(e)
  <2>1. PICK e \in Envs : Restart(e)
    BY <1>9
  <2>2. \A x \in Clients : phase'[x] = "done" => phase[x] = "done"
    BY <1>0, <2>1 DEF Restart, RequestTypes
  <2>3. UNCHANGED <<label, principal, cred, clock, status>>
    BY <2>1 DEF Restart
  <2> QED
    BY <2>2, <2>3
<1>10. CASE UNCHANGED vars
  BY <1>0, <1>10 DEF vars, request
<1> QED
  BY <1>1, <1>2, <1>3, <1>4, <1>5, <1>6, <1>7, <1>8, <1>9, <1>10 DEF Next, Answering

\* The tiers a request goes by are ones there have been since it arrived.
LEMMA FreshStep ==
  ASSUME IInv, [Next]_vars
  PROVE  ReadsAreFresh'
<1>0. SharedTypes /\ RequestTypes /\ ReadTypes /\ since \in [Clients -> SinceType] /\ TypeOK
  BY TypeParts DEF IInv
<1> USE DEF IInv, ReadsAreFresh
<1>1. CASE \E b \in Bodies : IssueToken(b)
  BY <1>1 DEF IssueToken, request, external
<1>2. CASE \E c \in Clients, ask \in Asks, t \in TokensOfClients \cup {NoToken} : Arrive(c, ask, t)
  <2>1. PICK c \in Clients, ask \in Asks, t \in Tokens \cup {NoToken} : Arrive(c, ask, t)
    BY <1>0, <1>2, HeldAreTokens
  <2>2. /\ tiers' = tiers /\ read'[c] = Nothing
        /\ \A x \in Clients \ {c} : phase'[x] = phase[x] /\ read'[x] = read[x] /\ since'[x] = since[x]
    BY <1>0, <2>1 DEF Arrive, RequestTypes, ReadTypes, external
  <2>3. since'[c].tiers = [d \in Domains |-> {tiers[d]}]
    BY <1>0, <2>1 DEF Arrive
  <2>4. DOMAIN Nothing.tiers = {}
    BY DEF Nothing
  <2> QED
    BY <2>2, <2>3, <2>4
<1>3. CASE \E c \in Clients : Authenticate(c)
  <2>1. PICK c \in Clients : Authenticate(c)
    BY <1>3
  <2>2. /\ phase[c] = "arrived" /\ UNCHANGED <<read, tiers, since>>
        /\ \A x \in Clients \ {c} : phase'[x] = phase[x]
    BY <1>0, <2>1 DEF Authenticate, Respond, RequestTypes, external
  <2> QED
    BY <2>2 DEF Running
<1>4. CASE \E c \in Clients : Answering(c)
  <2>1. PICK c \in Clients : Answering(c)
    BY <1>4
  <2>2. /\ phase[c] \in {"admitted", "found", "reading"} /\ UNCHANGED <<tiers, since>>
        /\ \A x \in Clients \ {c} : phase'[x] = phase[x]
    BY <1>0, <2>1, AnsweringFrame DEF RequestTypes, external
  <2>3. \A x \in Clients \ {c} : read'[x] = read[x]
    BY <1>0, <2>1, AnsweringReads DEF ReadTypes
  <2>4. /\ DOMAIN read'[c].tiers \subseteq Domains
        /\ \A d \in DOMAIN read'[c].tiers :
             \/ d \in DOMAIN read[c].tiers /\ read'[c].tiers[d] = read[c].tiers[d]
             \/ read'[c].tiers[d] = tiers[d]
    BY <1>0, <2>1, AnsweringReads
  <2> QED
    BY <2>2, <2>3, <2>4 DEF Running
<1>5. CASE \E c \in Clients : Label(c)
  <2>1. PICK c \in Clients : Label(c)
    BY <1>5
  <2>2. phase[c] = "answered" /\ phase' = [phase EXCEPT ![c] = "done"] /\ UNCHANGED <<read, tiers, since>>
    BY <2>1 DEF Label, external
  <2> QED
    BY <1>0, <2>2 DEF RequestTypes, Running
<1>6. CASE Tick
  BY <1>6 DEF Tick, request, external
<1>7. CASE \E d \in Domains, l \in Levels : ChangeTier(d, l)
  <2>1. PICK d \in Domains, l \in Levels : ChangeTier(d, l)
    BY <1>7
  <2>2. UNCHANGED <<phase, read>> /\ tiers' = [tiers EXCEPT ![d] = l]
    BY <2>1 DEF ChangeTier, request
  <2>3. ASSUME NEW c \in Clients
        PROVE  /\ phase[c] \in Running => since'[c].tiers = [since[c].tiers EXCEPT ![d] = @ \cup {l}]
               /\ phase[c] \notin Running => since'[c] = since[c]
    <3>1. [since[c] EXCEPT !.tiers[d] = @ \cup {l}].tiers = [since[c].tiers EXCEPT ![d] = @ \cup {l}]
      BY <1>0 DEF SinceType
    <3> QED
      BY <2>1, <3>1 DEF ChangeTier
  <2>4. ASSUME NEW c \in Clients
        PROVE  since[c].tiers \in [Domains -> SUBSET Levels] /\ DOMAIN read[c].tiers \subseteq Domains
    BY <1>0 DEF SinceType, ReadTypes
  <2>5. DOMAIN tiers = Domains
    BY <1>0 DEF SharedTypes
  <2>6. ASSUME NEW c \in Clients, NEW x \in Domains, phase[c] \in Running
        PROVE  tiers'[x] \in since'[c].tiers[x] /\ since[c].tiers[x] \subseteq since'[c].tiers[x]
    <3>1. since'[c].tiers = [since[c].tiers EXCEPT ![d] = @ \cup {l}] /\ DOMAIN since[c].tiers = Domains
      BY <2>3, <2>4, <2>6
    <3>2. tiers[x] \in since[c].tiers[x]
      BY <2>6
    <3>3. CASE x = d
      BY <2>2, <2>5, <3>1, <3>3
    <3>4. CASE x # d
      BY <2>2, <2>5, <3>1, <3>2, <3>4
    <3> QED
      BY <3>3, <3>4
  <2>7. ASSUME NEW c \in Clients, NEW x \in DOMAIN read[c].tiers
        PROVE  since[c].tiers[x] \subseteq since'[c].tiers[x]
    BY <2>3, <2>4, <2>6
  <2> QED
    BY <2>2, <2>6, <2>7
<1>8. CASE \E e \in Edges, s \in {"strong", "gone"} : ChangeRelation(e, s)
  <2>1. PICK e \in Edges, s \in {"strong", "gone"} : ChangeRelation(e, s)
    BY <1>8
  <2>2. UNCHANGED <<phase, read, tiers>>
    BY <2>1, ChangeRelationFrame DEF request
  <2>3. ASSUME NEW c \in Clients
        PROVE  since'[c].tiers = since[c].tiers
    <3>1. [since[c] EXCEPT !.confirmed = @ \ {e}, !.present = @ \ {e}].tiers = since[c].tiers
      BY <1>0 DEF SinceType
    <3> QED
      BY <2>1, <3>1 DEF ChangeRelation
  <2> QED
    BY <2>2, <2>3
<1>9. CASE \E e \in Envs : Restart(e)
  <2>1. PICK e \in Envs : Restart(e)
    BY <1>9
  <2>2. \A x \in Clients : phase'[x] = IF phase[x] \in Open THEN "lost" ELSE phase[x]
    BY <1>0, <2>1 DEF Restart, RequestTypes
  <2>3. UNCHANGED <<read, tiers, since>>
    BY <2>1 DEF Restart, external
  <2> QED
    BY <2>2, <2>3 DEF Running, Open
<1>10. CASE UNCHANGED vars
  BY <1>10 DEF vars, request, external
<1> QED
  BY <1>1, <1>2, <1>3, <1>4, <1>5, <1>6, <1>7, <1>8, <1>9, <1>10 DEF Next, Answering

-----------------------------------------------------------------------------
(* The theorems.                                                           *)

\* The inductive invariant of the portal: what is known of tokens, verifiers,
\* principals and reads in every state, for any number of clients
\* (_infra.py:148-234, deps.py:31-90, asset_detail.py:183-239).
THEOREM Invariance == Spec => []IInv
<1>1. IInv /\ [Next]_vars => IInv'
  <2> SUFFICES ASSUME IInv, [Next]_vars PROVE IInv'
    OBVIOUS
  <2>1. TypeOK'
    <3>1. SharedTypes' /\ RequestTypes' /\ ReadTypes' /\ since' \in [Clients -> SinceType]
      BY SharedTypesStep, RequestTypesStep, ReadStep, SinceTypesStep
    <3> QED
      BY <3>1 DEF TypeOK, SharedTypes, RequestTypes, ReadTypes, SinceType
  <2> QED
    BY <2>1, ReadStep, MintedStep, VerifierStep, CheckStep, StageStep, RowStep, FreshStep DEF IInv
<1> QED
  BY <1>1, InitInvariant, PTL DEF Spec

\* The variables keep their types (Portal).
THEOREM TypeCorrect == Spec => []TypeOK
<1>1. IInv => TypeOK
  BY DEF IInv
<1> QED
  BY <1>1, Invariance, PTL

\* The row of the access log names the caller the handler served, or nobody
\* once the token has expired, for any number of requests at a time, any
\* environments and however often the process is started
\* (_infra.py:148-161, 164-234).
THEOREM RowNamesCallerHolds == Spec => []RowNamesCaller
<1>1. IInv => RowNamesCaller
  BY DEF IInv
<1> QED
  BY <1>1, Invariance, PTL

\* Whatever tiers a request goes by, its domains had them at some time since
\* the request arrived, in whatever order transactions change them and
\* however often the projection is run again (routes_search.py:47-88,
\* _infra.py:82-117).
THEOREM ReadsAreFreshHolds == Spec => []ReadsAreFresh
<1>1. IInv => ReadsAreFresh
  BY DEF IInv
<1> QED
  BY <1>1, Invariance, PTL

\* Tokens serve as long as they live, and nobody is admitted as somebody
\* else (config.py:58-73, verifier.py:64-89, dev_issuer.py:24-36).
THEOREM TokensServeHolds == Spec => []TokensServe
<1>1. IInv => TokensServe
  <2> SUFFICES ASSUME IInv, NEW c \in Clients
               PROVE  /\ status[c] = 401 =>
                           \A m \in minted : m.token = cred[c] =>
                             \/ checked[c].at >= m.at + MinTtl /\ checked[c].at >= m.at + m.env.ttl
                             \/ Secret(checked[c].env) # Secret(m.env)
                             \/ checked[c].env.issuer \notin {None, m.env.issuer}
                      /\ principal[c] # Anonymous =>
                           /\ principal[c].user = cred[c].sub
                           /\ cred[c].secret = Secret(checked[c].env) /\ checked[c].at < cred[c].exp
                           /\ checked[c].env.issuer \in {None, cred[c].iss}
    BY DEF TokensServe
  <2>0. SharedTypes /\ RequestTypes
    BY TypeParts DEF IInv
  <2>1. ASSUME status[c] = 401, NEW m \in minted, m.token = cred[c]
        PROVE  \/ checked[c].at >= m.at + MinTtl /\ checked[c].at >= m.at + m.env.ttl
               \/ Secret(checked[c].env) # Secret(m.env)
               \/ checked[c].env.issuer \notin {None, m.env.issuer}
    <3>1. PICK u \in Subjects : m.token = Issued(m.env, u, m.at)
      BY DEF IInv, MintedInv
    <3>2. RefusedAt(c)
      BY <2>1 DEF IInv, CheckInv
    <3>3. m.env \in Environments /\ m.at \in Nat /\ checked[c].at \in Nat
      BY <2>0, EnvsAssumption, BoundsAssumption DEF SharedTypes, RequestTypes
    <3>4. Ttl(m.env) \in Nat /\ Ttl(m.env) >= m.env.ttl /\ Ttl(m.env) >= MinTtl
      BY <3>1, <3>3, IssuedIsToken
    <3>5. cred[c].sub # None /\ cred[c].secret = Secret(m.env) /\ cred[c].iss = m.env.issuer
          /\ cred[c].exp = m.at + Ttl(m.env)
      BY <2>1, <3>1, NoneIsNobody DEF Issued
    <3>6. cred[c] # NoToken
      BY <3>5 DEF NoToken
    <3>7. ~Verifies(VerifierOf(checked[c].env), cred[c], checked[c].at)
      BY <3>2, <3>6 DEF RefusedAt, Refuses
    <3>8. m.env.ttl \in Nat /\ MinTtl \in Nat
      BY <3>3, TtlAssumption DEF Environments
    <3>9. \/ checked[c].at >= m.at + Ttl(m.env)
          \/ Secret(checked[c].env) # Secret(m.env)
          \/ checked[c].env.issuer \notin {None, m.env.issuer}
      BY <3>3, <3>4, <3>5, <3>7 DEF Verifies, VerifierOf
    <3> QED
      BY <3>3, <3>4, <3>8, <3>9
  <2>2. ASSUME principal[c] # Anonymous
        PROVE  /\ principal[c].user = cred[c].sub
               /\ cred[c].secret = Secret(checked[c].env) /\ checked[c].at < cred[c].exp
               /\ checked[c].env.issuer \in {None, cred[c].iss}
    <3>1. Admitted(c) /\ cred[c] # NoToken
      BY <2>2 DEF IInv, CheckInv, Admitted, PrincipalFor
    <3>2. Verifies(VerifierOf(checked[c].env), cred[c], checked[c].at)
      BY <3>1 DEF Admitted, RefusedAt, Refuses
    <3>3. principal[c].user = cred[c].sub
      BY <3>1 DEF Admitted, PrincipalFor, PrincipalOf
    <3> QED
      BY <3>2, <3>3 DEF Verifies, VerifierOf
  <2> QED
    BY <2>1, <2>2
<1> QED
  BY <1>1, Invariance, PTL

-----------------------------------------------------------------------------
(* What is answered.                                                       *)

Keeps(c) == UNCHANGED <<asked[c], hits[c], read[c], status[c], answer[c], principal[c]>>

\* What a step does to a request: it arrives, its token is checked, it is
\* answered, or nothing but its phase changes.
LEMMA RequestStep ==
  ASSUME IInv, [Next]_vars, NEW c \in Clients
  PROVE  \/ phase'[c] = "arrived" /\ asked'[c] \in Asks /\ status'[c] = NoStatus /\ read'[c] = Nothing
         \/ /\ phase[c] = "arrived" /\ phase'[c] \in {"admitted", "answered"}
            /\ asked'[c] = asked[c] /\ status'[c] \in {NoStatus, 401, 500} /\ read'[c] = read[c]
         \/ Answering(c)
         \/ Keeps(c) /\ (phase'[c] = phase[c] \/ (phase[c] # "idle" /\ phase'[c] \in {"done", "lost"}))
<1>0. SharedTypes /\ RequestTypes /\ ReadTypes /\ since \in [Clients -> SinceType] /\ TypeOK /\ StageInv
  BY TypeParts DEF IInv
<1>1. CASE \E b \in Bodies : IssueToken(b)
  BY <1>1 DEF IssueToken, request, Keeps
<1>2. CASE \E x \in Clients, ask \in Asks, t \in TokensOfClients \cup {NoToken} : Arrive(x, ask, t)
  <2>1. PICK x \in Clients, ask \in Asks, t \in TokensOfClients \cup {NoToken} : Arrive(x, ask, t)
    BY <1>2
  <2>2. CASE x = c
    BY <1>0, <2>1, <2>2 DEF Arrive, RequestTypes, ReadTypes
  <2>3. CASE x # c
    BY <1>0, <2>1, <2>3 DEF Arrive, RequestTypes, ReadTypes, Keeps
  <2> QED
    BY <2>2, <2>3
<1>3. CASE \E x \in Clients : Authenticate(x)
  <2>1. PICK x \in Clients : Authenticate(x)
    BY <1>3
  <2>2. CASE x = c
    BY <1>0, <2>1, <2>2 DEF Authenticate, Respond, RequestTypes, StageInv
  <2>3. CASE x # c
    BY <1>0, <2>1, <2>3 DEF Authenticate, Respond, RequestTypes, ReadTypes, Keeps
  <2> QED
    BY <2>2, <2>3
<1>4. ASSUME NEW x \in Clients, x # c, Answering(x) PROVE Keeps(c) /\ phase'[c] = phase[c]
  <2>1. UNCHANGED <<asked, principal>> /\ phase'[c] = phase[c] /\ status'[c] = status[c]
    BY <1>0, <1>4, AnsweringFrame DEF RequestTypes
  <2>2. read'[c] = read[c]
    BY <1>0, <1>4, AnsweringReads DEF ReadTypes, IInv
  <2>3. hits'[c] = hits[c] /\ answer'[c] = answer[c]
    <3> USE DEF RequestTypes, Respond
    <3>1. CASE RefuseParameters(x) \/ SearchFails(x) \/ DatabaseFails(x)
      BY <1>0, <1>4, <3>1 DEF RefuseParameters, SearchFails, DatabaseFails
    <3>2. CASE Query(x)
      BY <1>0, <1>4, <3>2 DEF Query
    <3>3. CASE (\E d \in Domains : ReadTiers(x, d)) \/ Retry(x)
      BY <1>0, <1>4, <3>3 DEF ReadTiers, Retry
    <3>4. CASE ReadRelations(x) \/ ReadAssetTiers(x)
      BY <1>0, <1>4, <3>4 DEF ReadRelations, ReadAssetTiers
    <3>5. CASE AnswerSearch(x) \/ AnswerDetail(x)
      BY <1>0, <1>4, <3>5 DEF AnswerSearch, AnswerDetail
    <3>6. CASE ReadAsset(x)
      BY <1>0, <1>4, <3>6 DEF ReadAsset
    <3> QED
      BY <1>4, <3>1, <3>2, <3>3, <3>4, <3>5, <3>6 DEF Answering
  <2> QED
    BY <2>1, <2>2, <2>3 DEF Keeps
<1>5. CASE \E x \in Clients : Answering(x)
  BY <1>4, <1>5
<1>6. CASE \E x \in Clients : Label(x)
  BY <1>0, <1>6 DEF Label, RequestTypes, Keeps
<1>7. CASE Tick \/ (\E d \in Domains, l \in Levels : ChangeTier(d, l)) \/ UNCHANGED vars
  BY <1>7 DEF Tick, ChangeTier, vars, request, Keeps
<1>8. CASE \E e \in Edges, s \in {"strong", "gone"} : ChangeRelation(e, s)
  BY <1>8, ChangeRelationFrame DEF request, Keeps
<1>9. CASE \E e \in Envs : Restart(e)
  BY <1>0, <1>9 DEF Restart, RequestTypes, Keeps, Open, Running
<1> QED
  BY <1>1, <1>2, <1>3, <1>5, <1>6, <1>7, <1>8, <1>9 DEF Next, Answering

\* What a step does to the promises of a request.
LEMMA PromiseStep ==
  ASSUME IInv, [Next]_vars, NEW c \in Clients
  PROVE  \/ /\ phase'[c] = "arrived" /\ status'[c] = NoStatus /\ relation' = relation
            /\ since'[c].present = {e \in Edges : relation[e] # "gone"}
            /\ since'[c].confirmed = {e \in Edges : relation[e] = "strong"}
         \/ /\ \A d \in Domains : since[c].tiers[d] \subseteq since'[c].tiers[d]
            /\ phase'[c] \in Running => phase[c] \in Running
            /\ phase[c] \notin Running => since'[c] = since[c]
            /\ \/ relation' = relation /\ since'[c].present = since[c].present /\ since'[c].confirmed = since[c].confirmed
               \/ /\ phase' = phase
                  /\ \E e \in Edges, s \in {"strong", "gone"} :
                       /\ relation' = [relation EXCEPT ![e] = s]
                       /\ relation[e] = "weak" \/ (relation[e] = "strong" /\ s = "gone")
                       /\ IF phase[c] \in Running /\ s = "gone"
                            THEN since'[c].present = since[c].present \ {e} /\ since'[c].confirmed = since[c].confirmed \ {e}
                            ELSE since'[c].present = since[c].present /\ since'[c].confirmed = since[c].confirmed
<1>0. SharedTypes /\ RequestTypes /\ ReadTypes /\ since \in [Clients -> SinceType] /\ TypeOK /\ StageInv
  BY TypeParts DEF IInv
<1>1. CASE \E b \in Bodies : IssueToken(b)
  BY <1>1 DEF IssueToken, request, external
<1>2. CASE \E x \in Clients, ask \in Asks, t \in TokensOfClients \cup {NoToken} : Arrive(x, ask, t)
  <2>1. PICK x \in Clients, ask \in Asks, t \in TokensOfClients \cup {NoToken} : Arrive(x, ask, t)
    BY <1>2
  <2>2. CASE x = c
    BY <1>0, <2>1, <2>2 DEF Arrive, RequestTypes, external
  <2>3. CASE x # c
    <3>1. phase'[c] = phase[c] /\ since'[c] = since[c] /\ relation' = relation
      BY <1>0, <2>1, <2>3 DEF Arrive, RequestTypes, external
    <3> QED
      BY <3>1
  <2> QED
    BY <2>2, <2>3
<1>3. CASE \E x \in Clients : Authenticate(x)
  <2>1. PICK x \in Clients : Authenticate(x)
    BY <1>3
  <2>2. since' = since /\ relation' = relation
    BY <2>1 DEF Authenticate, external
  <2>3. phase'[c] \in Running => phase[c] \in Running
    BY <1>0, <2>1 DEF Authenticate, Respond, RequestTypes, Running
  <2> QED
    BY <2>2, <2>3
<1>4. CASE \E x \in Clients : Answering(x)
  <2>1. PICK x \in Clients : Answering(x)
    BY <1>4
  <2>2. since' = since /\ relation' = relation
    BY <1>0, <2>1, AnsweringFrame DEF external
  <2>3. phase'[c] \in Running => phase[c] \in Running
    BY <1>0, <2>1, AnsweringFrame DEF RequestTypes, Running
  <2> QED
    BY <2>2, <2>3
<1>5. CASE \E x \in Clients : Label(x)
  BY <1>0, <1>5 DEF Label, RequestTypes, Running, external
<1>6. CASE Tick \/ UNCHANGED vars
  BY <1>6 DEF Tick, vars, request, external
<1>7. CASE \E d \in Domains, l \in Levels : ChangeTier(d, l)
  <2>1. PICK d \in Domains, l \in Levels : ChangeTier(d, l)
    BY <1>7
  <2>2. phase' = phase /\ relation' = relation
    BY <2>1 DEF ChangeTier, request
  <2>3. since'[c] = IF phase[c] \in Running THEN [since[c] EXCEPT !.tiers[d] = @ \cup {l}] ELSE since[c]
    BY <2>1 DEF ChangeTier
  <2>4. since[c] \in SinceType
    BY <1>0
  <2> DEFINE was == since[c]
  <2>5. LET is == [was EXCEPT !.tiers[d] = @ \cup {l}] IN
          is.present = was.present /\ is.confirmed = was.confirmed /\ is.tiers = [was.tiers EXCEPT ![d] = @ \cup {l}]
    BY <2>4 DEF SinceType
  <2>6. \A x \in Domains : since[c].tiers[x] \subseteq since'[c].tiers[x]
    BY <2>3, <2>4, <2>5 DEF SinceType
  <2> QED
    BY <2>2, <2>3, <2>5, <2>6
<1>8. CASE \E e \in Edges, s \in {"strong", "gone"} : ChangeRelation(e, s)
  <2>1. PICK e \in Edges, s \in {"strong", "gone"} : ChangeRelation(e, s)
    BY <1>8
  <2>2. phase' = phase /\ relation' = [relation EXCEPT ![e] = s]
        /\ (relation[e] = "weak" \/ (relation[e] = "strong" /\ s = "gone"))
    BY <2>1 DEF ChangeRelation, request
  <2>3. since'[c] = IF phase[c] \in Running /\ s = "gone"
                      THEN [since[c] EXCEPT !.confirmed = @ \ {e}, !.present = @ \ {e}] ELSE since[c]
    BY <2>1 DEF ChangeRelation
  <2>4. since[c] \in SinceType
    BY <1>0
  <2> DEFINE was == since[c]
  <2>5. LET is == [was EXCEPT !.confirmed = @ \ {e}, !.present = @ \ {e}] IN
          is.present = was.present \ {e} /\ is.confirmed = was.confirmed \ {e} /\ is.tiers = was.tiers
    BY <2>4 DEF SinceType
  <2> QED
    BY <2>2, <2>3, <2>5
<1>9. CASE \E e \in Envs : Restart(e)
  BY <1>0, <1>9 DEF Restart, RequestTypes, Open, Running, external
<1> QED
  BY <1>1, <1>2, <1>3, <1>4, <1>5, <1>6, <1>7, <1>8, <1>9 DEF Next, Answering

\* The promises are kept until the request is answered.
LEMMA LiveStep ==
  ASSUME IInv, LiveInv, [Next]_vars
  PROVE  LiveInv'
<1> SUFFICES ASSUME NEW c \in Clients, phase'[c] \in Running
             PROVE  /\ since'[c].present \subseteq {e \in Edges : relation'[e] # "gone"}
                    /\ since'[c].confirmed \subseteq {e \in Edges : relation'[e] = "strong"}
  BY DEF LiveInv
<1>1. CASE /\ relation' = relation
           /\ since'[c].present = {e \in Edges : relation[e] # "gone"}
           /\ since'[c].confirmed = {e \in Edges : relation[e] = "strong"}
  BY <1>1
<1>2. CASE phase[c] \in Running /\ relation' = relation /\ since'[c].present = since[c].present /\ since'[c].confirmed = since[c].confirmed
  BY <1>2 DEF LiveInv
<1>3. ASSUME NEW e \in Edges, NEW s \in {"strong", "gone"}, phase[c] \in Running,
             relation' = [relation EXCEPT ![e] = s], relation[e] = "weak" \/ (relation[e] = "strong" /\ s = "gone"),
             IF s = "gone"
               THEN since'[c].present = since[c].present \ {e} /\ since'[c].confirmed = since[c].confirmed \ {e}
               ELSE since'[c].present = since[c].present /\ since'[c].confirmed = since[c].confirmed
      PROVE  /\ since'[c].present \subseteq {x \in Edges : relation'[x] # "gone"}
             /\ since'[c].confirmed \subseteq {x \in Edges : relation'[x] = "strong"}
  <2>1. DOMAIN relation = Edges
    BY DEF IInv, TypeOK
  <2> QED
    BY <1>3, <2>1 DEF LiveInv
<1> QED
  BY <1>1, <1>2, <1>3, PromiseStep

\* What a search does.
LEMMA SearchStep ==
  ASSUME IInv, SearchInv, [Next]_vars
  PROVE  SearchInv'
<1>0. SharedTypes /\ RequestTypes /\ ReadTypes /\ since \in [Clients -> SinceType] /\ TypeOK /\ StageInv
  BY TypeParts DEF IInv
<1> SUFFICES ASSUME NEW c \in Clients
             PROVE  /\ phase'[c] # "idle" => asked'[c] \in Asks
                    /\ phase'[c] = "found" => asked'[c].op = "search" /\ hits'[c] \in Hits
                    /\ phase'[c] = "reading" => asked'[c].op = "detail"
                    /\ Answered(c, "search")' =>
                         /\ hits'[c] \in Hits /\ DomainsOf(c)' \subseteq DOMAIN read'[c].tiers
                         /\ answer'[c] = SearchAnswer(asked'[c], GroupedRaw(c)', read'[c].tiers, principal'[c].clearance)
  BY DEF SearchInv
<1>1. CASE phase'[c] = "arrived" /\ asked'[c] \in Asks /\ status'[c] = NoStatus
  BY <1>1 DEF Answered, NoStatus
<1>2. CASE /\ phase[c] = "arrived" /\ phase'[c] \in {"admitted", "answered"}
           /\ asked'[c] = asked[c] /\ status'[c] \in {NoStatus, 401, 500}
  BY <1>2 DEF SearchInv, Answered, NoStatus
<1>3. CASE Keeps(c) /\ (phase'[c] = phase[c] \/ (phase[c] # "idle" /\ phase'[c] \in {"done", "lost"}))
  BY <1>3 DEF SearchInv, Keeps, Answered, DomainsOf, GroupedRaw, Found
<1>4. CASE Answering(c)
  <2>1. asked' = asked /\ principal' = principal /\ phase[c] # "idle" /\ asked[c] \in Asks
    BY <1>0, <1>4, AnsweringFrame DEF SearchInv
  <2>2. status[c] = NoStatus
    BY <1>0, <1>4, AnsweringFrame DEF StageInv
  <2>3. CASE AnswerSearch(c)
    <3>1. phase[c] = "found" /\ phase'[c] = "answered" /\ UNCHANGED <<hits, read>>
          /\ DomainsOf(c) \subseteq DOMAIN read[c].tiers
          /\ answer'[c] = SearchAnswer(asked[c], GroupedRaw(c), read[c].tiers, principal[c].clearance)
      BY <1>0, <2>3 DEF AnswerSearch, Respond, RequestTypes
    <3>2. DomainsOf(c)' = DomainsOf(c) /\ GroupedRaw(c)' = GroupedRaw(c)
      BY <2>1, <3>1 DEF DomainsOf, GroupedRaw, Found
    <3> QED
      BY <2>1, <3>1, <3>2 DEF SearchInv
  <2>4. CASE Query(c)
    <3>1. phase'[c] = "found" /\ status'[c] = NoStatus /\ asked[c].op = "search" /\ hits'[c] \in Hits
      BY <1>0, <2>2, <2>4 DEF Query, RequestTypes
    <3> QED
      BY <2>1, <3>1 DEF Answered, NoStatus
  <2>5. CASE RefuseParameters(c) \/ SearchFails(c) \/ DatabaseFails(c)
    <3>1. phase'[c] = "answered" /\ status'[c] # 200
      BY <1>0, <2>5 DEF RefuseParameters, SearchFails, DatabaseFails, Respond, RequestTypes, ParameterStatus
    <3> QED
      BY <2>1, <3>1 DEF Answered
  <2>6. CASE (\E d \in Domains : ReadTiers(c, d)) \/ ReadRelations(c) \/ ReadAssetTiers(c)
    <3>1. phase' = phase /\ hits' = hits /\ status' = status
      BY <2>6 DEF ReadTiers, ReadRelations, ReadAssetTiers
    <3> QED
      BY <2>1, <2>2, <3>1 DEF SearchInv, Answered, NoStatus
  <2>7. CASE Retry(c)
    <3>1. /\ hits' = hits /\ status' = status /\ phase[c] \in {"found", "reading"}
          /\ phase'[c] = IF asked[c].op = "search" THEN "found" ELSE "admitted"
      BY <1>0, <2>7 DEF Retry, RequestTypes
    <3> QED
      BY <2>1, <2>2, <3>1 DEF SearchInv, Answered, NoStatus
  <2>8. CASE ReadAsset(c)
    <3>1. phase'[c] \in {"reading", "answered"} /\ asked[c].op = "detail" /\ status'[c] # 200
      BY <1>0, <2>2, <2>8 DEF ReadAsset, Respond, RequestTypes, NoStatus
    <3> QED
      BY <2>1, <3>1 DEF Answered
  <2>9. CASE AnswerDetail(c)
    <3>1. phase'[c] = "answered" /\ asked[c].op = "detail"
      BY <1>0, <2>9 DEF AnswerDetail, Respond, RequestTypes, SearchInv
    <3> QED
      BY <2>1, <3>1 DEF Answered
  <2> QED
    BY <1>4, <2>3, <2>4, <2>5, <2>6, <2>7, <2>8, <2>9 DEF Answering
<1> QED
  BY <1>1, <1>2, <1>3, <1>4, RequestStep

\* An order of the edges there are has them all.
LEMMA OrderHasAll ==
  ASSUME NEW S, IsFiniteSet(S), NEW order \in SetToSeqs(S)
  PROVE  /\ Cardinality(S) \in Nat /\ order \in [1..Cardinality(S) -> S]
         /\ \A i, j \in 1..Cardinality(S) : order[i] = order[j] => i = j
         /\ \A e \in S : \E i \in 1..Cardinality(S) : order[i] = e
<1> DEFINE n == Cardinality(S)
           D == 1..n
<1>1. n \in Nat
  BY FS_CardinalityType
<1>2. order \in [D -> S] /\ \A i, j \in D : order[i] = order[j] => i = j
  BY DEF SetToSeqs
<1>3. IsFiniteSet(D) /\ Cardinality(D) = n
  BY <1>1, FS_Interval
<1> HIDE DEF D
<1>4. DOMAIN order = D /\ IsInjective(order)
  BY <1>2 DEF IsInjective
<1>5. order \in Injection(D, S)
  BY <1>2, <1>4 DEF Injection
<1>6. order \in Surjection(D, S)
  BY <1>3, <1>5, FS_Injection
<1>7. \A e \in S : \E i \in D : order[i] = e
  BY <1>6 DEF Surjection
<1> QED
  BY <1>1, <1>2, <1>7 DEF D

\* The neighbours' edges have an order: one of those of a neighbour is first.
LEMMA FirstEdge ==
  ASSUME relation \in [Edges -> {"weak", "strong", "gone"}],
         NEW S, S \subseteq Edges, NEW e \in S
  PROVE  \E g \in S : /\ g.asset = e.asset
                      /\ \A f \in S \ {g} : f.asset = g.asset => Outranks(g, f)
<1> DEFINE G == {f \in S : f.asset = e.asset}
           R == Order(G, Outranks)
           list == Ranked(G, R)
           n == Cardinality(G)
<1>1. IsFiniteSet(G) /\ G \subseteq Edges /\ e \in G
  BY EdgesAssumption, FS_Subset
<1>2. \A x, y \in G : <<x, y>> \in R <=> Outranks(x, y)
  BY DEF Order
<1>3. \A x \in G : TierRank(relation[x]) \in Int /\ x.conf \in Int /\ x.edge \in Int
  <2> SUFFICES ASSUME NEW x \in G PROVE TierRank(relation[x]) \in Int /\ x.conf \in Int /\ x.edge \in Int
    OBVIOUS
  <2>1. x \in [edge : Nat, asset : Nat, kind : STRING, conf : Nat \cup {NoConfidence}]
    BY <1>1, EdgesAssumption
  <2> QED
    BY <1>1, <2>1 DEF TierRank, NoConfidence
<1>4. \A x, y \in G : x.edge = y.edge => x = y
  BY <1>1, EdgesAssumption
<1>g. \A f \in S : f \in G <=> f.asset = e.asset
  OBVIOUS
<1> HIDE DEF G, R, n
<1>5. Orders(R, G)
  <2>1. ASSUME NEW x \in G PROVE <<x, x>> \notin R
    BY <1>2, <1>3 DEF Outranks, EdgePrecedes
  <2>2. ASSUME NEW x \in G, NEW y \in G PROVE x = y \/ <<x, y>> \in R \/ <<y, x>> \in R
    BY <1>2, <1>3, <1>4 DEF Outranks, EdgePrecedes
  <2>3. ASSUME NEW x \in G, NEW y \in G, NEW z \in G, <<x, y>> \in R, <<y, z>> \in R PROVE <<x, z>> \in R
    <3> DEFINE t == TierRank(relation[x])
               u == TierRank(relation[y])
               v == TierRank(relation[z])
    <3>1. t \in Int /\ u \in Int /\ v \in Int /\ x.conf \in Int /\ y.conf \in Int /\ z.conf \in Int
          /\ x.edge \in Int /\ y.edge \in Int /\ z.edge \in Int
      BY <1>3
    <3>2. /\ t < u \/ (t = u /\ (x.conf > y.conf \/ (x.conf = y.conf /\ x.edge < y.edge)))
          /\ u < v \/ (u = v /\ (y.conf > z.conf \/ (y.conf = z.conf /\ y.edge < z.edge)))
      BY <1>2, <2>3 DEF Outranks, EdgePrecedes
    <3> HIDE DEF t, u, v
    <3>3. t < v \/ (t = v /\ (x.conf > z.conf \/ (x.conf = z.conf /\ x.edge < z.edge)))
      BY <3>1, <3>2
    <3> QED
      BY <1>2, <3>3 DEF Outranks, EdgePrecedes, t, v
  <2> QED
    BY <2>1, <2>2, <2>3 DEF Orders
<1>6. Ranks(list, G, R) /\ n \in Nat
  BY <1>1, <1>5, RankedRanks DEF n
<1> HIDE DEF list
<1>7. /\ DOMAIN list = 1..n /\ \A i \in 1..n : list[i] \in G
      /\ \A x \in G : \E i \in 1..n : list[i] = x
      /\ \A i, j \in 1..n : i < j <=> <<list[i], list[j]>> \in R
  BY <1>6 DEF Ranks, n
<1>8. PICK k \in 1..n : list[k] = e
  BY <1>1, <1>7
<1>9. 1 \in 1..n
  BY <1>6, <1>8
<1>10. \A f \in G : f = list[1] \/ Outranks(list[1], f)
  <2> SUFFICES ASSUME NEW f \in G PROVE f = list[1] \/ Outranks(list[1], f)
    OBVIOUS
  <2>1. PICK i \in 1..n : list[i] = f
    BY <1>7
  <2>2. i = 1 \/ 1 < i
    BY <1>6
  <2> QED
    BY <1>2, <1>7, <1>9, <2>1, <2>2
<1>11. list[1] \in G
  BY <1>7, <1>9
<1> QED
  BY <1>10, <1>11, <1>g DEF G

\* The rows the core package makes tell of the edges from the floor on and of
\* their confirmation, folded or not.
LEMMA RowsTell ==
  ASSUME relation \in [Edges -> {"weak", "strong", "gone"}],
         NEW S \in SUBSET Edges, NEW folds \in Folds, Selected(S)
  PROVE  LET T == RowsFrom(S, folds) IN
         /\ IsFiniteSet(T) /\ T \subseteq GradedEdges
         /\ \A x, y \in T : x.edge = y.edge => x = y
         /\ \A e \in Edges : relation[e] # "gone" /\ e.conf >= MinConf =>
              /\ \E x \in T : TellsOf(x, e)
              /\ relation[e] = "strong" => \E x \in T : x.asset = e.asset /\ x.tier = "strong"
<1> DEFINE T == RowsFrom(S, folds)
           others(e) == {f \in S \ {e} : f.asset = e.asset}
           kinds(e) == IF folds THEN {f.kind : f \in others(e)} ELSE {}
           B == IF folds THEN {g \in S : \A f \in others(g) : Outranks(g, f)} ELSE S
           row(e) == Graded(e, relation[e], kinds(e))
<1>1. T = {row(e) : e \in B}
  BY DEF RowsFrom
<1>2. IsFiniteSet(B) /\ B \subseteq S
  BY EdgesAssumption, FS_Subset
<1>3. \A e \in S : /\ e \in [edge : Nat, asset : Nat, kind : STRING, conf : Nat \cup {NoConfidence}]
                   /\ relation[e] \in {"weak", "strong"}
  BY EdgesAssumption DEF Selected
<1>4. \A e \in S : kinds(e) \subseteq STRING
  BY <1>3
<1>5. \A e \in S : /\ row(e) \in GradedEdges /\ row(e).edge = e.edge /\ row(e).asset = e.asset
                   /\ row(e).kind = e.kind /\ row(e).tier = relation[e] /\ row(e).folded = kinds(e)
  <2> SUFFICES ASSUME NEW e \in S
               PROVE  /\ row(e) \in GradedEdges /\ row(e).edge = e.edge /\ row(e).asset = e.asset
                      /\ row(e).kind = e.kind /\ row(e).tier = relation[e] /\ row(e).folded = kinds(e)
    OBVIOUS
  <2> DEFINE K == kinds(e)
             t == relation[e]
             r == row(e)
  <2>1. /\ e \in [edge : Nat, asset : Nat, kind : STRING, conf : Nat \cup {NoConfidence}]
        /\ t \in {"weak", "strong"} /\ K \subseteq STRING
    BY <1>3, <1>4
  <2>2. r = [edge |-> e.edge, asset |-> e.asset, kind |-> e.kind, conf |-> e.conf, tier |-> t, folded |-> K]
    BY DEF Graded
  <2> HIDE DEF K, t, r
  <2>3. r \in GradedEdges /\ r.edge = e.edge /\ r.asset = e.asset /\ r.kind = e.kind /\ r.tier = t /\ r.folded = K
    BY <2>1, <2>2 DEF GradedEdges
  <2> QED
    BY <2>3 DEF K, t, r
<1>6. IsFiniteSet(T)
  <2> DEFINE f == [e \in B |-> row(e)]
  <2>1. DOMAIN f = B /\ T = {f[e] : e \in B}
    BY <1>1
  <2> HIDE DEF T, B, f
  <2> QED
    BY <1>2, <2>1, ImageIsFinite
<1>7. ASSUME NEW e \in Edges, relation[e] # "gone", e.conf >= MinConf
      PROVE  \E g \in B : /\ g.asset = e.asset /\ e.kind \in {g.kind} \cup kinds(g)
                          /\ relation[e] = "strong" => relation[g] = "strong"
  <2>1. e \in S
    BY <1>7 DEF Selected
  <2>2. CASE ~folds
    BY <2>1, <2>2
  <2>3. CASE folds
    <3>1. PICK g \in S : g.asset = e.asset /\ \A f \in S \ {g} : f.asset = g.asset => Outranks(g, f)
      BY <2>1, FirstEdge
    <3>2. g \in B
      BY <2>3, <3>1
    <3>3. e = g \/ (e \in others(g) /\ Outranks(g, e))
      BY <2>1, <3>1
    <3>4. e.kind \in {g.kind} \cup kinds(g)
      BY <2>3, <3>3
    <3>5. relation[e] = "strong" => relation[g] = "strong"
      BY <1>3, <3>1, <3>3 DEF Outranks, TierRank
    <3> QED
      BY <3>1, <3>2, <3>4, <3>5
  <2>4. folds \in BOOLEAN
    BY EdgesAssumption
  <2> QED
    BY <2>2, <2>3, <2>4
<1>8. \A x \in T : \E e \in B : x = row(e)
  BY <1>1
<1>9. \A e \in B : row(e) \in T
  BY <1>1
<1> HIDE DEF T, B, row, kinds
<1>10. T \subseteq GradedEdges
  BY <1>2, <1>5, <1>8
<1>11. ASSUME NEW x \in T, NEW y \in T, x.edge = y.edge PROVE x = y
  <2>1. PICK e \in B, f \in B : x = row(e) /\ y = row(f)
    BY <1>8
  <2>2. e \in Edges /\ f \in Edges /\ e.edge = f.edge
    BY <1>2, <1>5, <1>11, <2>1
  <2> QED
    BY <2>1, <2>2, EdgesAssumption
<1>12. ASSUME NEW e \in Edges, relation[e] # "gone", e.conf >= MinConf
       PROVE  /\ \E x \in T : TellsOf(x, e)
              /\ relation[e] = "strong" => \E x \in T : x.asset = e.asset /\ x.tier = "strong"
  <2>1. PICK g \in B : /\ g.asset = e.asset /\ e.kind \in {g.kind} \cup kinds(g)
                       /\ relation[e] = "strong" => relation[g] = "strong"
    BY <1>7, <1>12
  <2> QED
    BY <1>2, <1>5, <1>9, <2>1 DEF TellsOf
<1> QED
  BY <1>6, <1>10, <1>11, <1>12 DEF T

\* What is read of the relations.
LEMMA RelationsRead ==
  ASSUME IInv, LiveInv, NEW c \in Clients, ReadRelations(c)
  PROVE  EdgesRead(c)'
<1>0. /\ relation \in [Edges -> {"weak", "strong", "gone"}] /\ since \in [Clients -> SinceType]
      /\ DOMAIN read = Clients /\ read[c] = [tiers |-> read[c].tiers, edges |-> read[c].edges, row |-> read[c].row]
  BY TypeParts DEF IInv, SharedTypes, ReadTypes, ReadInv
<1>1. PICK S \in SUBSET Edges, folds \in Folds :
        /\ Selected(S)
        /\ \E rows \in SetToSeqs(RowsFrom(S, folds)) : read' = [read EXCEPT ![c].edges = <<rows>>]
  BY DEF ReadRelations
<1> DEFINE T == RowsFrom(S, folds)
           n == Cardinality(T)
<1>2. PICK q \in SetToSeqs(T) : read' = [read EXCEPT ![c].edges = <<q>>]
  BY <1>1
<1>3. /\ IsFiniteSet(T) /\ T \subseteq GradedEdges
      /\ \A x, y \in T : x.edge = y.edge => x = y
      /\ \A e \in Edges : relation[e] # "gone" /\ e.conf >= MinConf =>
           /\ \E x \in T : TellsOf(x, e)
           /\ relation[e] = "strong" => \E x \in T : x.asset = e.asset /\ x.tier = "strong"
  BY <1>0, <1>1, RowsTell
<1> HIDE DEF T
<1>4. /\ n \in Nat /\ q \in [1..n -> T]
      /\ \A i, j \in 1..n : q[i] = q[j] => i = j
      /\ \A x \in T : \E i \in 1..n : q[i] = x
  BY <1>2, <1>3, OrderHasAll
<1> HIDE DEF n
<1>5. read'[c].edges[1] = q
  <2>1. read'[c].edges = <<q>>
    BY <1>0, <1>2
  <2> QED
    BY <2>1
<1>6. since' = since /\ phase[c] \in Running
  BY DEF ReadRelations, Running
<1>7. DOMAIN q = 1..n /\ q \in Seq(GradedEdges)
  <2>1. q \in [1..n -> GradedEdges]
    BY <1>3, <1>4
  <2> QED
    BY <1>4, <2>1
<1>8. \A i, j \in DOMAIN q : q[i].edge = q[j].edge => i = j
  BY <1>3, <1>4, <1>7
<1>9. ASSUME NEW e \in since[c].present, e.conf >= MinConf
      PROVE  \E i \in DOMAIN q : TellsOf(q[i], e)
  <2>1. e \in Edges /\ relation[e] # "gone"
    BY <1>6, <1>9 DEF LiveInv
  <2>2. PICK x \in T : TellsOf(x, e)
    BY <1>3, <1>9, <2>1
  <2> QED
    BY <1>4, <1>7, <2>2
<1>10. ASSUME NEW e \in since[c].confirmed, e.conf >= MinConf
       PROVE  \E i \in DOMAIN q : q[i].asset = e.asset /\ q[i].tier = "strong"
  <2>1. e \in Edges /\ relation[e] = "strong"
    BY <1>6, <1>10 DEF LiveInv
  <2>2. PICK x \in T : x.asset = e.asset /\ x.tier = "strong"
    BY <1>3, <1>10, <2>1
  <2> QED
    BY <1>4, <1>7, <2>2
<1> QED
  BY <1>5, <1>6, <1>7, <1>8, <1>9, <1>10 DEF EdgesRead

\* What was read is kept as long as nothing else is read.
LEMMA EdgesKept ==
  ASSUME NEW c \in Clients, EdgesRead(c), read'[c].edges = read[c].edges,
         since'[c].present \subseteq since[c].present, since'[c].confirmed \subseteq since[c].confirmed
  PROVE  EdgesRead(c)'
<1>1. read'[c].edges[1] = read[c].edges[1]
  OBVIOUS
<1> DEFINE q == read[c].edges[1]
<1>2. q \in Seq(GradedEdges) /\ \A i, j \in DOMAIN q : q[i].edge = q[j].edge => i = j
  BY DEF EdgesRead
<1>3. \A e \in since'[c].present : e.conf >= MinConf => \E i \in DOMAIN q : TellsOf(q[i], e)
  BY DEF EdgesRead
<1>4. \A e \in since'[c].confirmed : e.conf >= MinConf =>
        \E i \in DOMAIN q : q[i].asset = e.asset /\ q[i].tier = "strong"
  BY DEF EdgesRead
<1> QED
  BY <1>1, <1>2, <1>3, <1>4 DEF EdgesRead

\* A step keeps what is known of the answers of details.
LEMMA DetailStep ==
  ASSUME IInv, LiveInv, SearchInv, DetailInv, [Next]_vars
  PROVE  DetailInv'
<1>0. SharedTypes /\ RequestTypes /\ ReadTypes /\ since \in [Clients -> SinceType] /\ TypeOK /\ StageInv
  BY TypeParts DEF IInv
<1> DEFINE Meta(level, clearance) == IF MaySee(level, clearance) THEN "text" ELSE Omitted
<1> SUFFICES ASSUME NEW c \in Clients
             PROVE  /\ phase'[c] \in {"arrived", "admitted"} => read'[c].edges = <<>>
                    /\ phase'[c] = "reading" /\ read'[c].edges # <<>> => EdgesRead(c)'
                    /\ Answered(c, "detail")' =>
                         /\ EdgesRead(c)' /\ answer'[c].relations = Merged(read'[c].edges[1])
                         /\ \E level \in since'[c].tiers[AssetDomain] : answer'[c].meta = Meta(level, principal'[c].clearance)
  BY DEF DetailInv
<1>1. CASE phase'[c] = "arrived" /\ status'[c] = NoStatus /\ read'[c] = Nothing
  BY <1>1 DEF Answered, NoStatus, Nothing
<1>2. CASE /\ phase[c] = "arrived" /\ phase'[c] \in {"admitted", "answered"}
           /\ status'[c] \in {NoStatus, 401, 500} /\ read'[c] = read[c]
  BY <1>2 DEF Answered, NoStatus, DetailInv
<1>a. CASE phase'[c] = "arrived" /\ status'[c] = NoStatus /\ Keeps(c) /\ phase[c] = "arrived"
  BY <1>a DEF Answered, NoStatus, DetailInv, Keeps
<1>3. ASSUME phase'[c] # "arrived" \/ status'[c] # NoStatus
      PROVE  /\ since'[c].present \subseteq since[c].present /\ since'[c].confirmed \subseteq since[c].confirmed
             /\ since[c].tiers[AssetDomain] \subseteq since'[c].tiers[AssetDomain]
  BY <1>3, PromiseStep, DomainsAssumption
<1>4. CASE /\ Keeps(c) /\ (phase'[c] = phase[c] \/ (phase[c] # "idle" /\ phase'[c] \in {"done", "lost"}))
           /\ (phase'[c] # "arrived" \/ status'[c] # NoStatus)
  <2>1. UNCHANGED <<asked[c], read[c], status[c], answer[c], principal[c]>>
    BY <1>4 DEF Keeps
  <2>2. EdgesRead(c) => EdgesRead(c)'
    BY <1>3, <1>4, <2>1, EdgesKept
  <2>3. /\ phase'[c] = "reading" => phase[c] = "reading"
        /\ phase'[c] \in {"arrived", "admitted"} => phase[c] \in {"arrived", "admitted"}
    BY <1>4
  <2>4. Answered(c, "detail")' => Answered(c, "detail")
    BY <2>1 DEF Answered
  <2>5. Answered(c, "detail") => \E level \in since'[c].tiers[AssetDomain] : answer'[c].meta = Meta(level, principal'[c].clearance)
    BY <1>3, <1>4, <2>1 DEF DetailInv
  <2> QED
    BY <2>1, <2>2, <2>3, <2>4, <2>5 DEF DetailInv
<1>5. CASE Answering(c)
  <2>1. UNCHANGED <<asked, principal, since, tiers>> /\ status[c] = NoStatus /\ phase[c] # "idle"
        /\ asked[c] \in Asks
    BY <1>0, <1>5, AnsweringFrame DEF StageInv, external, SearchInv
  <2>2. CASE AnswerDetail(c)
    <3> DEFINE known == read[c].tiers
    <3>1. /\ phase[c] = "reading" /\ phase'[c] = "answered" /\ read' = read /\ read[c].edges # <<>>
          /\ AssetDomain \in DOMAIN known
          /\ answer'[c] = DetailAnswer(known, principal[c].clearance, read[c].edges[1])
      BY <1>0, <2>2 DEF AnswerDetail, Respond, RequestTypes
    <3>2. EdgesRead(c)'
      BY <2>1, <3>1, EdgesKept DEF DetailInv
    <3>3. known[AssetDomain] \in since[c].tiers[AssetDomain]
      BY <3>1 DEF IInv, ReadsAreFresh
    <3> DEFINE row == [domain |-> AssetDomain, summary |-> "text"]
    <3> HIDE DEF known
    <3>4. Project(row, known, principal[c].clearance).summary = Meta(known[AssetDomain], principal[c].clearance)
      BY DEF Project
    <3>5. /\ answer'[c].meta = Project(row, known, principal[c].clearance).summary
          /\ answer'[c].relations = Merged(read[c].edges[1])
      BY <3>1 DEF DetailAnswer
    <3> HIDE DEF row, Meta
    <3> QED
      BY <2>1, <3>1, <3>2, <3>3, <3>4, <3>5
  <2>3. CASE ReadRelations(c)
    <3>1. status' = status /\ phase' = phase /\ phase[c] = "reading"
      BY <2>3 DEF ReadRelations
    <3> QED
      BY <2>1, <2>3, <3>1, RelationsRead DEF Answered, NoStatus
  <2>9. CASE ReadAssetTiers(c)
    <3>1. status' = status /\ phase' = phase /\ phase[c] = "reading" /\ read[c].edges # <<>>
      BY <2>9 DEF ReadAssetTiers
    <3>2. read'[c].edges = read[c].edges
      <4>1. /\ DOMAIN read = Clients
            /\ read[c] = [tiers |-> read[c].tiers, edges |-> read[c].edges, row |-> read[c].row]
        BY <1>0 DEF IInv, ReadInv, ReadTypes
      <4>2. PICK f : read' = [read EXCEPT ![c].tiers = f]
        BY <2>9 DEF ReadAssetTiers
      <4> QED
        BY <4>1, <4>2
    <3>3. EdgesRead(c)'
      BY <2>1, <3>1, <3>2, EdgesKept DEF DetailInv
    <3> QED
      BY <2>1, <3>1, <3>3 DEF Answered, NoStatus
  <2>4. CASE ReadAsset(c)
    <3>1. status'[c] # 200 /\ phase[c] = "admitted"
      BY <1>0, <2>1, <2>4 DEF ReadAsset, Respond, RequestTypes, NoStatus
    <3>2. read[c].edges = <<>>
      BY <3>1 DEF DetailInv
    <3>3. \/ read' = read /\ phase'[c] = "answered"
          \/ read' = [read EXCEPT ![c].row = TRUE] /\ phase'[c] = "reading"
      BY <1>0, <2>4 DEF ReadAsset, Respond, RequestTypes
    <3>4. read'[c].edges = <<>>
      <4>1. read[c] = [tiers |-> read[c].tiers, edges |-> read[c].edges, row |-> read[c].row] /\ DOMAIN read = Clients
        BY <1>0 DEF IInv, ReadInv, ReadTypes
      <4> QED
        BY <3>2, <3>3, <4>1
    <3> QED
      BY <3>1, <3>3, <3>4 DEF Answered
  <2>5. CASE RefuseParameters(c) \/ SearchFails(c) \/ DatabaseFails(c)
    <3>1. phase'[c] = "answered" /\ status'[c] # 200
      BY <1>0, <2>5 DEF RefuseParameters, SearchFails, DatabaseFails, Respond, RequestTypes, ParameterStatus
    <3> QED
      BY <3>1 DEF Answered
  <2>6. CASE Query(c) \/ (\E d \in Domains : ReadTiers(c, d))
    <3>1. phase[c] \in {"admitted", "found"} /\ phase'[c] = "found" /\ status' = status
      <4>1. CASE Query(c)
        BY <1>0, <4>1 DEF Query, RequestTypes
      <4>2. CASE \E d \in Domains : ReadTiers(c, d)
        BY <4>2 DEF ReadTiers
      <4> QED
        BY <2>6, <4>1, <4>2
    <3> QED
      BY <2>1, <3>1 DEF Answered, NoStatus
  <2>8. CASE Retry(c)
    <3>1. phase'[c] \in {"found", "admitted"} /\ status' = status /\ read'[c] = Nothing
      BY <1>0, <2>8 DEF Retry, RequestTypes, ReadTypes
    <3> QED
      BY <2>1, <3>1 DEF Answered, NoStatus, Nothing
  <2>7. CASE AnswerSearch(c)
    <3>1. phase'[c] = "answered" /\ asked'[c].op = "search"
      BY <1>0, <2>1, <2>7 DEF AnswerSearch, Respond, RequestTypes, SearchInv
    <3> QED
      BY <3>1 DEF Answered
  <2> QED
    BY <1>5, <2>2, <2>3, <2>4, <2>5, <2>6, <2>7, <2>8, <2>9 DEF Answering
<1> QED
  BY <1>1, <1>2, <1>a, <1>4, <1>5, RequestStep

\* What is known of answers.
AnswerInv == LiveInv /\ SearchInv /\ DetailInv

\* In every state an answer is what the handler made of what it has read, and
\* what it has read is complete.
LEMMA AnswersInvariant == Spec => []AnswerInv
<1>1. Init => AnswerInv
  BY DEF Init, AnswerInv, LiveInv, SearchInv, DetailInv, Running, Answered, Nothing, NoStatus
<1>2. IInv /\ AnswerInv /\ [Next]_vars => AnswerInv'
  BY LiveStep, SearchStep, DetailStep DEF AnswerInv
<1> QED
  BY <1>1, <1>2, Invariance, PTL DEF Spec

-----------------------------------------------------------------------------
(* Groups.                                                                 *)

\* Rows whose scores are numbers.
ShapedRow ==
  [id : Nat, score : Nat, domain : Domains, summary : {"text", ""},
   topics : SUBSET Seq(STRING), pairs : SUBSET Seq(STRING)]

OwnIds(rows) == \A i, j \in DOMAIN rows : rows[i].id = rows[j].id => i = j

\* Shaping a row replaces its score by a number and nothing else.
LEMMA ShapeOfRow ==
  ASSUME NEW row \in HitRows
  PROVE  /\ Shape(row) \in ShapedRow
         /\ Shape(row).id = row.id /\ Shape(row).score = Finite(row.score)
         /\ Shape(row).domain = row.domain /\ Shape(row).summary = row.summary
         /\ Shape(row).topics = row.topics /\ Shape(row).pairs = row.pairs
<1>1. Finite(row.score) \in Nat
  BY DEF HitRows, Finite
<1> DEFINE x == Finite(row.score)
<1> HIDE DEF x
<1>2. Shape(row) = [row EXCEPT !.score = x]
  BY DEF Shape, x
<1>3. Shape(row) \in ShapedRow /\ Shape(row).score = x
  BY <1>1, <1>2 DEF HitRows, ShapedRow, x
<1> QED
  BY <1>2, <1>3 DEF HitRows, x

\* Rounding a score gives a number.
LEMMA SixthIsNat == \A x \in Nat : Sixth(x) \in Nat
BY DEF Sixth, RoundTo

\* Rounding a score gives a number.
LEMMA FourthIsNat == \A x \in Nat : Fourth(x) \in Nat
BY DEF Fourth, RoundTo

\* Two rows are always in an order, if they are rows of two assets.
LEMMA CloserOrders ==
  ASSUME NEW x \in ShapedRow, NEW y \in ShapedRow
  PROVE  /\ Closer(x, y) => ~Closer(y, x)
         /\ x.id # y.id => Closer(x, y) \/ Closer(y, x)
         /\ x.id = y.id /\ x.score = y.score => ~Closer(x, y)
<1>1. Sixth(x.score) \in Nat /\ Sixth(y.score) \in Nat /\ x.id \in Nat /\ y.id \in Nat
  BY SixthIsNat DEF ShapedRow
<1> QED
  BY <1>1 DEF Closer

\* What is between two rows in order is in order with one of them.
LEMMA CloserIsNegativelyTransitive ==
  ASSUME NEW x \in ShapedRow, NEW y \in ShapedRow, NEW z \in ShapedRow, Closer(x, z)
  PROVE  Closer(x, y) \/ Closer(y, z)
<1>1. Sixth(x.score) \in Nat /\ Sixth(y.score) \in Nat /\ Sixth(z.score) \in Nat
      /\ x.id \in Nat /\ y.id \in Nat /\ z.id \in Nat
  BY SixthIsNat DEF ShapedRow
<1> QED
  BY <1>1 DEF Closer

\* No domain is excluded, so each row is shaped at its place.
LEMMA ShapedRowsAreShaped ==
  ASSUME NEW rows \in Seq(HitRows)
  PROVE  /\ ShapedRows(rows) = [i \in DOMAIN rows |-> Shape(rows[i])]
         /\ ShapedRows(rows) \in Seq(ShapedRow)
<1>1. {i \in DOMAIN rows : rows[i].domain \notin Excluded} = DOMAIN rows
  BY DEF Excluded
<1>2. Kept(rows, DOMAIN rows) = rows
  BY KeptAll
<1>3. ShapedRows(rows) = [i \in DOMAIN rows |-> Shape(rows[i])]
  BY <1>1, <1>2 DEF ShapedRows
<1>4. DOMAIN rows = 1..Len(rows) /\ Len(rows) \in Nat /\ \A i \in DOMAIN rows : rows[i] \in HitRows
  OBVIOUS
<1>5. \A i \in 1..Len(rows) : Shape(rows[i]) \in ShapedRow
  BY <1>4, ShapeOfRow
<1>6. [i \in 1..Len(rows) |-> Shape(rows[i])] \in Seq(ShapedRow)
  BY <1>4, <1>5
<1> QED
  BY <1>3, <1>4, <1>6

\* r says which of the rows comes at which place of their order.
Places(r, rows) ==
  /\ r \in [DOMAIN rows -> DOMAIN rows]
  /\ \A k \in DOMAIN rows : \E i \in DOMAIN rows : r[i] = k
  /\ \A i, j \in DOMAIN rows : i < j <=> Closer(Shape(rows[r[i]]), Shape(rows[r[j]]))
  /\ \A i \in DOMAIN rows :
       Cardinality({k \in DOMAIN rows : Closer(Shape(rows[k]), Shape(rows[r[i]]))}) = i - 1

\* g has the best of the rows, at most as many as the limit.
IsGroup(g, rows, limit) ==
  /\ g \in Seq(ShapedRow) /\ Len(g) = IF Len(rows) < limit THEN Len(rows) ELSE limit
  /\ \E r : Places(r, rows) /\ \A i \in DOMAIN g : g[i] = Shape(rows[r[i]])

\* A cut keeps the beginning.
LEMMA AtMostIsPrefix ==
  ASSUME NEW T, NEW s \in Seq(T), NEW n \in Nat
  PROVE  /\ AtMost(n, s) \in Seq(T) /\ Len(AtMost(n, s)) = IF Len(s) < n THEN Len(s) ELSE n
         /\ DOMAIN AtMost(n, s) = 1..Len(AtMost(n, s)) /\ DOMAIN AtMost(n, s) \subseteq DOMAIN s
         /\ \A i \in DOMAIN AtMost(n, s) : AtMost(n, s)[i] = s[i]
<1> DEFINE m == IF Len(s) < n THEN Len(s) ELSE n
<1>1. m \in Nat /\ m <= Len(s) /\ Len(s) \in Nat
  OBVIOUS
<1> HIDE DEF m
<1>2. AtMost(n, s) = SubSeq(s, 1, m)
  BY DEF AtMost, m
<1>3. /\ SubSeq(s, 1, m) \in Seq(T) /\ Len(SubSeq(s, 1, m)) = m
      /\ \A i \in 1..m : SubSeq(s, 1, m)[i] = s[i]
  BY <1>1
<1> QED
  BY <1>1, <1>2, <1>3 DEF m

\* A group is the best rows of its modality, in order.
LEMMA GroupIsBest ==
  ASSUME NEW rows \in Seq(HitRows), OwnIds(rows), NEW limit \in Nat
  PROVE  IsGroup(AtMost(limit, InOrder(ShapedRows(rows))), rows, limit)
<1> DEFINE list == ShapedRows(rows)
           R == Order(ToSet(list), Closer)
           D == DOMAIN rows
           s == InOrder(list)
<1>1. list = [i \in D |-> Shape(rows[i])] /\ list \in Seq(ShapedRow)
  BY ShapedRowsAreShaped
<1>2. /\ DOMAIN list = D /\ D = 1..Len(rows) /\ Len(rows) \in Nat /\ Len(list) = Len(rows)
      /\ \A i \in D : rows[i] \in HitRows /\ list[i] = Shape(rows[i]) /\ list[i] \in ShapedRow
      /\ \A i \in D : list[i].id = rows[i].id
  BY <1>1, ShapeOfRow
<1> HIDE DEF list
<1>3. /\ ToSet(list) \subseteq ShapedRow /\ list \in Seq(ToSet(list))
      /\ \A i \in D : list[i] \in ToSet(list)
  BY <1>1, <1>2 DEF ToSet
<1>4. \A x, y \in ToSet(list) : <<x, y>> \in R <=> Closer(x, y)
  BY DEF Order
<1> HIDE DEF R
<1>5. Sorts(R, ToSet(list))
  <2>1. ASSUME NEW x \in ToSet(list), NEW y \in ToSet(list), <<x, y>> \in R PROVE <<y, x>> \notin R
    BY <1>3, <1>4, <2>1, CloserOrders
  <2>2. ASSUME NEW x \in ToSet(list), NEW y \in ToSet(list), NEW z \in ToSet(list), <<x, z>> \in R
        PROVE <<x, y>> \in R \/ <<y, z>> \in R
    BY <1>3, <1>4, <2>2, CloserIsNegativelyTransitive
  <2> QED
    BY <2>1, <2>2 DEF Sorts
<1>6. PICK r : IsSortOf(SortedBy(list, R), list, R, r)
  <2> DEFINE T == ToSet(list)
  <2>1. list \in Seq(T) /\ Sorts(R, T)
    BY <1>3, <1>5
  <2> HIDE DEF T
  <2> QED
    BY <2>1, SortedIsSorted
<1>7. /\ s = [i \in D |-> list[r[i]]] /\ r \in [D -> D]
      /\ \A k \in D : \E i \in D : r[i] = k
      /\ \A i, j \in D : i < j <=> <<r[i], r[j]>> \in Stable(list, R)
      /\ \A i \in D : Cardinality(Before(r[i], D, Stable(list, R))) = i - 1
  BY <1>2, <1>6 DEF IsSortOf, InOrder, R
<1>8. \A i, j \in D : <<i, j>> \in Stable(list, R) <=> Closer(Shape(rows[i]), Shape(rows[j]))
  <2> SUFFICES ASSUME NEW i \in D, NEW j \in D
               PROVE  <<i, j>> \in Stable(list, R) <=> Closer(list[i], list[j])
    BY <1>2
  <2>1. <<i, j>> \in Stable(list, R) <=> Closer(list[i], list[j]) \/ (~Closer(list[j], list[i]) /\ i < j)
    BY <1>2, <1>3, <1>4 DEF Stable, Order
  <2>2. CASE i = j
    BY <1>2, <2>1, <2>2
  <2>3. CASE i # j
    <3>1. list[i].id # list[j].id
      BY <1>2, <2>3 DEF OwnIds
    <3> QED
      BY <1>2, <2>1, <3>1, CloserOrders
  <2> QED
    BY <2>2, <2>3
<1>9. Places(r, rows)
  <2>1. \A i \in D : Before(r[i], D, Stable(list, R)) = {k \in D : Closer(Shape(rows[k]), Shape(rows[r[i]]))}
    BY <1>7, <1>8 DEF Before
  <2>2. \A i, j \in D : i < j <=> Closer(Shape(rows[r[i]]), Shape(rows[r[j]]))
    BY <1>7, <1>8
  <2> QED
    BY <1>7, <2>1, <2>2 DEF Places
<1>10. s \in Seq(ShapedRow) /\ Len(s) = Len(rows)
  <2>1. s \in [1..Len(rows) -> ShapedRow]
    BY <1>2, <1>7
  <2> QED
    BY <1>2, <2>1
<1> DEFINE g == AtMost(limit, s)
<1> HIDE DEF s
<1>11. /\ g \in Seq(ShapedRow) /\ Len(g) = IF Len(rows) < limit THEN Len(rows) ELSE limit
       /\ DOMAIN g \subseteq DOMAIN s /\ \A i \in DOMAIN g : g[i] = s[i]
  BY <1>10, AtMostIsPrefix
<1>12. \A i \in DOMAIN g : g[i] = Shape(rows[r[i]])
  <2> SUFFICES ASSUME NEW i \in DOMAIN g PROVE g[i] = Shape(rows[r[i]])
    OBVIOUS
  <2>1. i \in D /\ g[i] = s[i] /\ r[i] \in D
    BY <1>7, <1>11
  <2> QED
    BY <1>2, <1>7, <2>1
<1>13. IsGroup(g, rows, limit)
  BY <1>9, <1>11, <1>12 DEF IsGroup
<1> QED
  BY <1>13 DEF s, list

-----------------------------------------------------------------------------
(* Answers to searches.                                                    *)

\* What a search goes by: its request, and the candidates of each modality,
\* each asset among them once.
Search(c) ==
  /\ asked[c].size \in Nat \ {0} /\ Pool(asked[c]) \in Nat \ {0} /\ asked[c].size <= Pool(asked[c])
  /\ hits[c] \in Hits
  /\ DOMAIN Found(c) = DOMAIN hits[c] /\ DOMAIN GroupedRaw(c) = DOMAIN hits[c] /\ IsFiniteSet(DOMAIN hits[c])
  /\ \A m \in DOMAIN hits[c] :
       /\ Found(c)[m] \in Seq(HitRows)
       /\ Len(Found(c)[m]) = IF Len(hits[c][m]) < Pool(asked[c]) THEN Len(hits[c][m]) ELSE Pool(asked[c])
       /\ \A i \in DOMAIN Found(c)[m] : i \in DOMAIN hits[c][m] /\ Found(c)[m][i] = hits[c][m][i]
       /\ IsGroup(GroupedRaw(c)[m], Found(c)[m], asked[c].size)
  /\ \A m, n \in DOMAIN hits[c] : \A i \in DOMAIN Found(c)[m], j \in DOMAIN Found(c)[n] :
       Found(c)[m][i].id = Found(c)[n][j].id => m = n /\ i = j

\* A search that was answered has asked, found and read before.
LEMMA SearchIsOne ==
  ASSUME SearchInv, NEW c \in Clients, phase[c] # "idle", Answered(c, "search")
  PROVE  Search(c)
<1> DEFINE ask == asked[c]
           h == hits[c]
           k == Pool(ask)
<1>1. ask.size \in Nat \ {0} /\ k \in Nat \ {0} /\ ask.size <= k
  <2>1. ask \in Asks /\ ask.op = "search"
    BY DEF SearchInv, Answered
  <2> HIDE DEF ask
  <2>2. ask.size \in Nat \ {0} /\ ask.pool \in Nat \ {0}
    BY <2>1, AsksAssumption
  <2> QED
    BY <2>2 DEF Pool
<1>2. /\ h \in Hits /\ IsFiniteSet(DOMAIN h)
      /\ \A m \in DOMAIN h : h[m] \in Seq(HitRows)
      /\ \A m, n \in DOMAIN h : \A i \in DOMAIN h[m], j \in DOMAIN h[n] :
           h[m][i].id = h[n][j].id => m = n /\ i = j
  BY HitsAssumption DEF SearchInv
<1>3. Found(c) = [m \in DOMAIN h |-> AtMost(k, h[m])]
  BY DEF Found
<1>4. GroupedRaw(c) = [m \in DOMAIN Found(c) |-> AtMost(ask.size, InOrder(ShapedRows(Found(c)[m])))]
  BY DEF GroupedRaw, Grouped
<1> DEFINE found == Found(c)
           raw == GroupedRaw(c)
<1>d. DOMAIN found = DOMAIN h /\ DOMAIN raw = DOMAIN h
  BY <1>3, <1>4
<1> HIDE DEF ask, h, k, found, raw
<1>5. ASSUME NEW m \in DOMAIN h
      PROVE  /\ found[m] \in Seq(HitRows)
             /\ Len(found[m]) = IF Len(h[m]) < k THEN Len(h[m]) ELSE k
             /\ \A i \in DOMAIN found[m] : i \in DOMAIN h[m] /\ found[m][i] = h[m][i]
  <2>1. h[m] \in Seq(HitRows) /\ found[m] = AtMost(k, h[m])
    BY <1>2, <1>3 DEF found
  <2> QED
    BY <1>1, <2>1, AtMostIsPrefix
<1>6. \A m, n \in DOMAIN h : \A i \in DOMAIN found[m], j \in DOMAIN found[n] :
        found[m][i].id = found[n][j].id => m = n /\ i = j
  <2> SUFFICES ASSUME NEW m \in DOMAIN h, NEW n \in DOMAIN h, NEW i \in DOMAIN found[m], NEW j \in DOMAIN found[n],
                      found[m][i].id = found[n][j].id
               PROVE  m = n /\ i = j
    OBVIOUS
  <2>1. i \in DOMAIN h[m] /\ found[m][i] = h[m][i] /\ j \in DOMAIN h[n] /\ found[n][j] = h[n][j]
    BY <1>5
  <2> QED
    BY <1>2, <2>1
<1>7. ASSUME NEW m \in DOMAIN h PROVE IsGroup(raw[m], found[m], ask.size)
  <2>1. OwnIds(found[m]) /\ found[m] \in Seq(HitRows)
    BY <1>5, <1>6 DEF OwnIds
  <2>2. raw[m] = AtMost(ask.size, InOrder(ShapedRows(found[m])))
    BY <1>4, <1>d DEF found, raw
  <2>3. ask.size \in Nat
    BY <1>1
  <2> QED
    BY <2>1, <2>2, <2>3, GroupIsBest
<1>8. found = Found(c) /\ raw = GroupedRaw(c) /\ h = hits[c] /\ k = Pool(asked[c]) /\ ask = asked[c]
  BY DEF found, raw, h, k, ask
<1> QED
  BY <1>1, <1>2, <1>d, <1>5, <1>6, <1>7, <1>8 DEF Search

\* The rows of groups are the elements of their lists.
LEMMA RowsOfGroups ==
  ASSUME NEW groups, NEW x
  PROVE  x \in RowsOf(groups) <=> \E m \in DOMAIN groups : \E i \in DOMAIN groups[m] : x = groups[m][i]
BY DEF RowsOf, ToSet

\* A hit is told by its id.
LEMMA HitOfIsHit ==
  ASSUME NEW c \in Clients, Search(c), NEW h \in RowsOf(Found(c))
  PROVE  HitOf(c, h.id) = h /\ h \in HitRows
<1>1. ASSUME NEW x \in RowsOf(Found(c)), NEW y \in RowsOf(Found(c)), x.id = y.id PROVE x = y
  <2>1. DOMAIN Found(c) = DOMAIN hits[c]
    BY DEF Search
  <2>2. PICK m \in DOMAIN hits[c] : \E i \in DOMAIN Found(c)[m] : x = Found(c)[m][i]
    BY <2>1, RowsOfGroups
  <2>3. PICK n \in DOMAIN hits[c] : \E j \in DOMAIN Found(c)[n] : y = Found(c)[n][j]
    BY <2>1, RowsOfGroups
  <2>4. PICK i \in DOMAIN Found(c)[m] : x = Found(c)[m][i]
    BY <2>2
  <2>5. PICK j \in DOMAIN Found(c)[n] : y = Found(c)[n][j]
    BY <2>3
  <2>6. m = n /\ i = j
    BY <1>1, <2>4, <2>5 DEF Search
  <2> QED
    BY <2>4, <2>5, <2>6
<1>2. HitOf(c, h.id) \in RowsOf(Found(c)) /\ HitOf(c, h.id).id = h.id
  BY DEF HitOf
<1>3. h \in HitRows
  BY RowsOfGroups DEF Search
<1> QED
  BY <1>1, <1>2, <1>3

\* A row of a group is a hit with its score.
LEMMA RawRow ==
  ASSUME NEW c \in Clients, Search(c), NEW g \in RowsOf(GroupedRaw(c))
  PROVE  \E h \in RowsOf(Found(c)) : h \in HitRows /\ g = Shape(h) /\ g.id = h.id
<1>1. PICK m \in DOMAIN hits[c] : \E i \in DOMAIN GroupedRaw(c)[m] : g = GroupedRaw(c)[m][i]
  BY RowsOfGroups DEF Search
<1>2. PICK i \in DOMAIN GroupedRaw(c)[m] : g = GroupedRaw(c)[m][i]
  BY <1>1
<1>3. IsGroup(GroupedRaw(c)[m], Found(c)[m], asked[c].size) /\ Found(c)[m] \in Seq(HitRows)
      /\ m \in DOMAIN Found(c)
  BY DEF Search
<1> DEFINE rows == Found(c)[m]
           group == GroupedRaw(c)[m]
<1> HIDE DEF rows, group
<1>4. PICK r : Places(r, rows) /\ \A k \in DOMAIN group : group[k] = Shape(rows[r[k]])
  BY <1>3 DEF IsGroup, rows, group
<1>5. i \in DOMAIN rows
  <2>1. group \in Seq(ShapedRow) /\ Len(group) = IF Len(rows) < asked[c].size THEN Len(rows) ELSE asked[c].size
    BY <1>3 DEF IsGroup, rows, group
  <2>2. i \in 1..Len(group) /\ rows \in Seq(HitRows) /\ asked[c].size \in Nat
    BY <1>3, <2>1 DEF rows, group, Search
  <2> QED
    BY <2>1, <2>2
<1>6. r[i] \in DOMAIN rows /\ g = Shape(rows[r[i]])
  BY <1>2, <1>4, <1>5 DEF Places, group
<1>7. rows[r[i]] \in RowsOf(Found(c)) /\ rows[r[i]] \in HitRows
  BY <1>3, <1>6, RowsOfGroups DEF rows
<1> QED
  BY <1>6, <1>7, ShapeOfRow

Summaries == {"text", "", Omitted}

\* What is shown of a summary to a caller.
Cleared(h, known, clearance) ==
  h.summary = "text" /\ MaySee(known[h.domain], clearance)

\* A shown row is a hit, and shows its summary if the caller may see it.
IsShown(s, h, c) ==
  /\ h \in RowsOf(Found(c)) /\ HitOf(c, s.id) = h /\ s.id = h.id
  /\ h.domain \in DOMAIN read[c].tiers
  /\ s.summary = "text" <=> Cleared(h, read[c].tiers, principal[c].clearance)

\* The groups of an answer, before the compact view.
GroupsOf(c) == Projected(GroupedRaw(c), read[c].tiers, principal[c].clearance)

\* The projection of a row takes its summary out, by the tier of its domain,
\* and keeps the rest.
LEMMA ProjectOfRow ==
  ASSUME NEW row \in ShapedRow, NEW known, NEW clearance, NEW p, p = Project(row, known, clearance)
  PROVE  /\ p.id = row.id /\ p.score = row.score /\ p.domain = row.domain
         /\ p.topics = row.topics /\ p.pairs = row.pairs
         /\ p.summary = "text" <=> Cleared(row, known, clearance)
         /\ p.summary \in Summaries
<1>1. row.summary \in {"text", ""}
  BY DEF ShapedRow
<1>2. CASE row.summary # "" /\ ~MaySee(known[row.domain], clearance)
  <2>1. Project(row, known, clearance) = [row EXCEPT !.summary = Omitted]
    BY <1>2 DEF Project
  <2> QED
    BY <1>1, <1>2, <2>1 DEF ShapedRow, Cleared, Omitted, Summaries
<1>3. CASE ~(row.summary # "" /\ ~MaySee(known[row.domain], clearance))
  <2>1. Project(row, known, clearance) = row
    BY <1>3 DEF Project
  <2> QED
    BY <1>1, <1>3, <2>1 DEF Cleared, Summaries
<1> QED
  BY <1>2, <1>3

\* A row of the groups of an answer is a projected row of the raw ones.
LEMMA GroupsRow ==
  ASSUME NEW c \in Clients, NEW x
  PROVE  /\ DOMAIN GroupsOf(c) = DOMAIN GroupedRaw(c)
         /\ \A m \in DOMAIN GroupedRaw(c) :
              GroupsOf(c)[m] = [i \in DOMAIN GroupedRaw(c)[m] |-> Project(GroupedRaw(c)[m][i], read[c].tiers, principal[c].clearance)]
         /\ x \in RowsOf(GroupsOf(c)) <=>
              \E g \in RowsOf(GroupedRaw(c)) : x = Project(g, read[c].tiers, principal[c].clearance)
<1> DEFINE known == read[c].tiers
           clearance == principal[c].clearance
           raw == GroupedRaw(c)
           groups == GroupsOf(c)
<1>1. groups = [m \in DOMAIN raw |-> [i \in DOMAIN raw[m] |-> Project(raw[m][i], known, clearance)]]
  BY DEF GroupsOf, Projected
<1> HIDE DEF known, clearance, raw, groups
<1>2. x \in RowsOf(groups) <=> \E m \in DOMAIN raw : \E i \in DOMAIN raw[m] : x = Project(raw[m][i], known, clearance)
  BY <1>1, RowsOfGroups
<1>3. x \in RowsOf(groups) <=> \E g \in RowsOf(raw) : x = Project(g, known, clearance)
  BY <1>2, RowsOfGroups
<1> QED
  BY <1>1, <1>3 DEF known, clearance, raw, groups

\* The groups show hits.
LEMMA GroupsShowHits ==
  ASSUME NEW c \in Clients, Search(c), DomainsOf(c) \subseteq DOMAIN read[c].tiers, NEW s \in RowsOf(GroupsOf(c))
  PROVE  \E h : IsShown(s, h, c) /\ s.score = Finite(h.score) /\ s.topics = h.topics /\ s.pairs = h.pairs
               /\ h \in HitRows /\ s.summary \in Summaries
<1>1. PICK g \in RowsOf(GroupedRaw(c)) : s = Project(g, read[c].tiers, principal[c].clearance)
  BY GroupsRow
<1>2. PICK h \in RowsOf(Found(c)) : h \in HitRows /\ g = Shape(h) /\ g.id = h.id
  BY RawRow
<1>3. /\ g \in ShapedRow /\ g.score = Finite(h.score) /\ g.domain = h.domain /\ g.summary = h.summary
      /\ g.topics = h.topics /\ g.pairs = h.pairs
  BY <1>2, ShapeOfRow
<1>4. /\ s.id = g.id /\ s.score = g.score /\ s.topics = g.topics /\ s.pairs = g.pairs
      /\ s.summary = "text" <=> Cleared(g, read[c].tiers, principal[c].clearance)
      /\ s.summary \in Summaries
  <2> DEFINE known == read[c].tiers
             clearance == principal[c].clearance
  <2>1. s = Project(g, known, clearance) /\ g \in ShapedRow
    BY <1>1, <1>3
  <2> HIDE DEF known, clearance
  <2>2. /\ s.id = g.id /\ s.score = g.score /\ s.topics = g.topics /\ s.pairs = g.pairs
        /\ s.summary = "text" <=> Cleared(g, known, clearance)
        /\ s.summary \in Summaries
    BY <2>1, ProjectOfRow
  <2> QED
    BY <2>2 DEF known, clearance
<1>5. g.domain \in DomainsOf(c)
  BY DEF DomainsOf
<1>6. HitOf(c, s.id) = h
  BY <1>2, <1>4, HitOfIsHit
<1>7. Cleared(g, read[c].tiers, principal[c].clearance) <=> Cleared(h, read[c].tiers, principal[c].clearance)
  BY <1>3 DEF Cleared
<1>8. IsShown(s, h, c)
  BY <1>2, <1>3, <1>4, <1>5, <1>6, <1>7 DEF IsShown
<1> QED
  BY <1>2, <1>3, <1>4, <1>8

\* The groups of an answer are rows of different assets.
LEMMA GroupsHaveOwnIds ==
  ASSUME NEW c \in Clients, Search(c), DomainsOf(c) \subseteq DOMAIN read[c].tiers,
         NEW s \in RowsOf(GroupsOf(c)), NEW u \in RowsOf(GroupsOf(c)), s.id = u.id
  PROVE  s = u
<1> DEFINE known == read[c].tiers
           clearance == principal[c].clearance
<1>1. PICK g \in RowsOf(GroupedRaw(c)) : s = Project(g, known, clearance)
  BY GroupsRow
<1>2. PICK f \in RowsOf(GroupedRaw(c)) : u = Project(f, known, clearance)
  BY GroupsRow
<1>3. PICK h \in RowsOf(Found(c)) : h \in HitRows /\ g = Shape(h) /\ g.id = h.id
  BY RawRow
<1>4. PICK k \in RowsOf(Found(c)) : k \in HitRows /\ f = Shape(k) /\ f.id = k.id
  BY RawRow
<1>5. s.id = h.id /\ u.id = k.id
  <2>1. g \in ShapedRow /\ f \in ShapedRow
    BY <1>3, <1>4, ShapeOfRow
  <2> HIDE DEF known, clearance
  <2> QED
    BY <1>1, <1>2, <1>3, <1>4, <2>1, ProjectOfRow
<1>6. h = k
  BY <1>5, HitOfIsHit
<1> QED
  BY <1>1, <1>2, <1>3, <1>4, <1>6

\* A search has finitely many hits.
LEMMA HitsAreFinite ==
  ASSUME NEW c \in Clients, Search(c)
  PROVE  IsFiniteSet(RowsOf(Found(c)))
<1> DEFINE found == Found(c)
           M == DOMAIN hits[c]
           Sets == {ToSet(found[m]) : m \in M}
<1>1. IsFiniteSet(M) /\ DOMAIN found = M /\ \A m \in M : found[m] \in Seq(HitRows)
  BY DEF Search
<1> HIDE DEF found, M
<1>2. ASSUME NEW m \in M PROVE IsFiniteSet(ToSet(found[m]))
  <2> DEFINE f == found[m]
  <2>1. IsFiniteSet(DOMAIN f)
    <3>1. DOMAIN f = 1..Len(f) /\ Len(f) \in Nat
      BY <1>1
    <3> QED
      BY <3>1, FS_Interval
  <2> HIDE DEF f
  <2>2. IsFiniteSet({f[i] : i \in DOMAIN f})
    BY <2>1, ImageIsFinite
  <2> QED
    BY <2>2 DEF ToSet, f
<1>3. IsFiniteSet(Sets)
  <2> DEFINE f == [m \in M |-> ToSet(found[m])]
  <2>1. DOMAIN f = M /\ Sets = {f[m] : m \in M}
    OBVIOUS
  <2> HIDE DEF f
  <2> QED
    BY <1>1, <2>1, ImageIsFinite
<1>4. \A T \in Sets : IsFiniteSet(T)
  BY <1>2
<1> HIDE DEF Sets
<1>5. IsFiniteSet(UNION Sets)
  BY <1>3, <1>4, FS_UNION
<1> QED
  BY <1>1, <1>5 DEF RowsOf, Sets, found

\* A search has finitely many rows.
LEMMA GroupsAreFinite ==
  ASSUME NEW c \in Clients, Search(c)
  PROVE  IsFiniteSet(RowsOf(GroupsOf(c)))
<1> DEFINE groups == GroupsOf(c)
           M == DOMAIN hits[c]
           Sets == {ToSet(groups[m]) : m \in M}
<1>1. IsFiniteSet(M) /\ DOMAIN groups = M /\ DOMAIN GroupedRaw(c) = M
  BY GroupsRow DEF Search
<1>2. ASSUME NEW m \in M PROVE IsFiniteSet(ToSet(groups[m]))
  <2>1. GroupedRaw(c)[m] \in Seq(ShapedRow)
    BY DEF Search, IsGroup
  <2> DEFINE D == DOMAIN GroupedRaw(c)[m]
             f == groups[m]
  <2>2. DOMAIN f = D
    <3>1. f = [i \in D |-> Project(GroupedRaw(c)[m][i], read[c].tiers, principal[c].clearance)]
      BY <1>1, GroupsRow
    <3> QED
      BY <3>1
  <2>3. D = 1..Len(GroupedRaw(c)[m]) /\ Len(GroupedRaw(c)[m]) \in Nat
    BY <2>1
  <2>4. IsFiniteSet(D)
    BY <2>3, FS_Interval
  <2> HIDE DEF D, f
  <2>5. ToSet(f) = {f[i] : i \in D}
    BY <2>2 DEF ToSet
  <2>6. IsFiniteSet({f[i] : i \in D})
    BY <2>2, <2>4, ImageIsFinite
  <2> QED
    BY <2>5, <2>6 DEF f
<1> HIDE DEF groups, M
<1>3. IsFiniteSet(Sets)
  <2> DEFINE f == [m \in M |-> ToSet(groups[m])]
  <2>1. DOMAIN f = M /\ Sets = {f[m] : m \in M}
    OBVIOUS
  <2> HIDE DEF f
  <2> QED
    BY <1>1, <2>1, ImageIsFinite
<1>4. \A T \in Sets : IsFiniteSet(T)
  BY <1>2
<1> HIDE DEF Sets
<1>5. IsFiniteSet(UNION Sets)
  BY <1>3, <1>4, FS_UNION
<1> QED
  BY <1>1, <1>5 DEF RowsOf, Sets, groups

\* The rows of the compact view, and their order.
CompactRows(c) == {CompactRow(row) : row \in RowsOf(GroupsOf(c))}
ByScore(rows) == Order(rows, LAMBDA r, s : r.score > s.score \/ (r.score = s.score /\ r.id < s.id))

\* A compact row has the id, the rounded score and the summary of its row.
LEMMA CompactRowOfRow ==
  ASSUME NEW row, row.summary \in Summaries, NEW s, s = CompactRow(row)
  PROVE  /\ s.id = row.id /\ s.score = Fourth(row.score)
         /\ s.summary = "text" <=> row.summary = "text"
BY DEF CompactRow, Omitted, Summaries

\* The compact view is the beginning of a ranking of all rows.
LEMMA CompactIsRanked ==
  ASSUME NEW c \in Clients, Search(c), DomainsOf(c) \subseteq DOMAIN read[c].tiers
  PROVE  /\ Compact(GroupsOf(c), asked[c].size) = AtMost(asked[c].size, Ranked(CompactRows(c), ByScore(CompactRows(c))))
         /\ IsFiniteSet(CompactRows(c))
         /\ Orders(ByScore(CompactRows(c)), CompactRows(c))
         /\ \A s \in CompactRows(c) : s.id \in Nat /\ s.score \in Nat
         /\ \A s, u \in CompactRows(c) : s.id = u.id => s = u
<1> DEFINE rows == CompactRows(c)
           R == ByScore(rows)
<1>1. Compact(GroupsOf(c), asked[c].size) = AtMost(asked[c].size, Ranked(rows, R))
  BY DEF Compact, CompactRows, ByScore
<1>2. IsFiniteSet(rows)
  <2> DEFINE T == RowsOf(GroupsOf(c))
  <2>1. IsFiniteSet(T)
    BY GroupsAreFinite
  <2> DEFINE f == [row \in T |-> CompactRow(row)]
  <2> HIDE DEF T
  <2>2. IsFiniteSet({CompactRow(row) : row \in T})
    <3>1. DOMAIN f = T /\ {f[row] : row \in T} = {CompactRow(row) : row \in T}
      OBVIOUS
    <3> HIDE DEF f
    <3>2. IsFiniteSet({f[row] : row \in T})
      BY <2>1, <3>1, ImageIsFinite
    <3> QED
      BY <3>1, <3>2
  <2> QED
    BY <2>2 DEF CompactRows, T
<1>3. ASSUME NEW row \in RowsOf(GroupsOf(c)), NEW s, s = CompactRow(row)
      PROVE  s.id = row.id /\ s.id \in Nat /\ s.score \in Nat
  <2>1. PICK h : IsShown(row, h, c) /\ row.score = Finite(h.score) /\ h \in HitRows /\ row.summary \in Summaries
    BY GroupsShowHits
  <2>2. row.score \in Nat /\ row.id \in Nat
    <3>1. h.id \in Nat /\ Finite(h.score) \in Nat
      BY <2>1, ShapeOfRow DEF ShapedRow
    <3> QED
      BY <2>1, <3>1 DEF IsShown
  <2> QED
    BY <1>3, <2>1, <2>2, CompactRowOfRow, FourthIsNat
<1>4. ASSUME NEW s \in rows, NEW u \in rows, s.id = u.id PROVE s = u
  <2>1. PICK row \in RowsOf(GroupsOf(c)) : s = CompactRow(row)
    BY DEF CompactRows
  <2>2. PICK other \in RowsOf(GroupsOf(c)) : u = CompactRow(other)
    BY DEF CompactRows
  <2>3. row.id = other.id
    BY <1>3, <1>4, <2>1, <2>2
  <2> QED
    BY <2>1, <2>2, <2>3, GroupsHaveOwnIds
<1>5. \A s \in rows : s.id \in Nat /\ s.score \in Nat
  BY <1>3 DEF CompactRows
<1> HIDE DEF rows
<1>6. \A s, u \in rows : <<s, u>> \in R <=> s.score > u.score \/ (s.score = u.score /\ s.id < u.id)
  BY DEF ByScore, Order
<1> HIDE DEF R
<1>7. Orders(R, rows)
  BY <1>4, <1>5, <1>6 DEF Orders
<1> QED
  BY <1>1, <1>2, <1>4, <1>5, <1>7 DEF rows, R

\* So do the rows of the compact view.
LEMMA CompactRowsShowHits ==
  ASSUME NEW c \in Clients, Search(c), DomainsOf(c) \subseteq DOMAIN read[c].tiers, NEW s \in CompactRows(c)
  PROVE  \E h : IsShown(s, h, c) /\ s.score = Fourth(Finite(h.score))
<1>1. PICK row \in RowsOf(GroupsOf(c)) : s = CompactRow(row)
  BY DEF CompactRows
<1>2. PICK h : IsShown(row, h, c) /\ row.score = Finite(h.score) /\ row.summary \in Summaries
  BY GroupsShowHits
<1>3. s.id = row.id /\ s.score = Fourth(row.score) /\ (s.summary = "text" <=> row.summary = "text")
  BY <1>1, <1>2, CompactRowOfRow
<1> QED
  BY <1>2, <1>3 DEF IsShown

\* The compact view has the first of them.
LEMMA CompactIsPrefix ==
  ASSUME NEW c \in Clients, Search(c), DomainsOf(c) \subseteq DOMAIN read[c].tiers,
         NEW list, list = Ranked(CompactRows(c), ByScore(CompactRows(c))),
         NEW rows, rows = Compact(GroupsOf(c), asked[c].size)
  PROVE  /\ Ranks(list, CompactRows(c), ByScore(CompactRows(c))) /\ Cardinality(CompactRows(c)) \in Nat
         /\ rows \in Seq(CompactRows(c)) /\ DOMAIN rows = 1..Len(rows)
         /\ Len(rows) = IF Cardinality(CompactRows(c)) < asked[c].size THEN Cardinality(CompactRows(c)) ELSE asked[c].size
         /\ \A i \in DOMAIN rows : i \in 1..Cardinality(CompactRows(c)) /\ i <= asked[c].size /\ rows[i] = list[i]
<1> DEFINE all == CompactRows(c)
           n == Cardinality(all)
           size == asked[c].size
<1>1. Ranks(list, all, ByScore(all)) /\ n \in Nat
  BY CompactIsRanked, RankedRanks
<1>2. list \in [1..n -> all]
  BY <1>1 DEF Ranks
<1>3. rows = AtMost(size, list) /\ size \in Nat
  BY CompactIsRanked DEF Search
<1> HIDE DEF all, n, size
<1>4. list \in Seq(all) /\ Len(list) = n /\ DOMAIN list = 1..n
  BY <1>1, <1>2
<1>5. /\ rows \in Seq(all) /\ Len(rows) = (IF n < size THEN n ELSE size) /\ DOMAIN rows = 1..Len(rows)
      /\ DOMAIN rows \subseteq DOMAIN list /\ \A i \in DOMAIN rows : rows[i] = list[i]
  BY <1>3, <1>4, AtMostIsPrefix
<1>6. \A i \in DOMAIN rows : i <= size
  BY <1>1, <1>3, <1>5
<1> QED
  BY <1>1, <1>4, <1>5, <1>6 DEF all, n, size

\* Whatever the view, a shown row is a hit, projected.
LEMMA ShownIsHit ==
  ASSUME SearchInv, NEW c \in Clients, Search(c), Answered(c, "search"), NEW s \in Shown(c)
  PROVE  \E h : IsShown(s, h, c)
<1>1. /\ DomainsOf(c) \subseteq DOMAIN read[c].tiers
      /\ answer[c] = SearchAnswer(asked[c], GroupedRaw(c), read[c].tiers, principal[c].clearance)
  BY DEF SearchInv
<1>2. CASE asked[c].compact
  <2>1. answer[c].results = Compact(GroupsOf(c), asked[c].size)
    BY <1>1, <1>2 DEF SearchAnswer, GroupsOf
  <2>2. s \in ToSet(Compact(GroupsOf(c), asked[c].size))
    BY <1>2, <2>1 DEF Shown
  <2>3. s \in CompactRows(c)
    <3> DEFINE rows == Compact(GroupsOf(c), asked[c].size)
    <3>1. rows \in Seq(CompactRows(c))
      BY <1>1, CompactIsPrefix
    <3>2. PICK i \in DOMAIN rows : s = rows[i]
      BY <2>2 DEF ToSet
    <3> HIDE DEF rows
    <3> QED
      BY <3>1, <3>2
  <2> QED
    BY <1>1, <2>3, CompactRowsShowHits
<1>3. CASE ~asked[c].compact
  <2>1. answer[c].results = GroupsOf(c)
    BY <1>1, <1>3 DEF SearchAnswer, GroupsOf
  <2>2. s \in RowsOf(GroupsOf(c))
    BY <1>3, <2>1 DEF Shown
  <2> QED
    BY <1>1, <2>2, GroupsShowHits
<1> QED
  BY <1>2, <1>3

\* A description is shown only if some tier the field had since the request
\* arrived lets the caller see it, and left out only if some tier does not,
\* for any domains, hits, clients and changes of tiers
\* (routes_search.py:47-88, 226-263, asset_detail.py:215-225).
THEOREM AnswersFollowTiersHolds == Spec => []AnswersFollowTiers
<1>1. IInv /\ AnswerInv => AnswersFollowTiers
  <2> SUFFICES ASSUME IInv, AnswerInv, NEW c \in Clients
               PROVE  LET allowed(d) == \E t \in since[c].tiers[d] : MaySee(t, principal[c].clearance)
                          denied(d)  == \E t \in since[c].tiers[d] : ~MaySee(t, principal[c].clearance)
                      IN
                      /\ Answered(c, "search") =>
                           \A s \in Shown(c) :
                             LET h == HitOf(c, s.id) IN
                             /\ s.summary = "text" => h.summary = "text" /\ allowed(h.domain)
                             /\ s.summary # "text" /\ h.summary = "text" =>
                                  /\ denied(h.domain)
                                  /\ \A u \in Shown(c) : HitOf(c, u.id).domain = h.domain => u.summary # "text"
                      /\ Answered(c, "detail") =>
                           IF answer[c].meta = "text" THEN allowed(AssetDomain) ELSE denied(AssetDomain)
    BY DEF AnswersFollowTiers
  <2> DEFINE allowed(d) == \E t \in since[c].tiers[d] : MaySee(t, principal[c].clearance)
             denied(d)  == \E t \in since[c].tiers[d] : ~MaySee(t, principal[c].clearance)
             known == read[c].tiers
             clearance == principal[c].clearance
  <2>1. ASSUME Answered(c, "search"), NEW s \in Shown(c), NEW h, h = HitOf(c, s.id)
        PROVE  /\ s.summary = "text" => h.summary = "text" /\ allowed(h.domain)
               /\ s.summary # "text" /\ h.summary = "text" =>
                    /\ denied(h.domain)
                    /\ \A u \in Shown(c) : HitOf(c, u.id).domain = h.domain => u.summary # "text"
    <3>1. phase[c] # "idle"
      BY <2>1 DEF IInv, StageInv, Answered, NoStatus
    <3>2. Search(c) /\ SearchInv
      BY <2>1, <3>1, SearchIsOne DEF AnswerInv
    <3>3. IsShown(s, h, c)
      BY <2>1, <3>2, ShownIsHit DEF IsShown
    <3>4. \A d \in DOMAIN known : known[d] \in since[c].tiers[d]
      BY <3>1 DEF IInv, ReadsAreFresh
    <3>5. ASSUME NEW u \in Shown(c) PROVE u.summary = "text" => Cleared(HitOf(c, u.id), known, clearance)
      BY <2>1, <3>2, ShownIsHit DEF IsShown
    <3>6. h.domain \in DOMAIN known /\ (s.summary = "text" <=> Cleared(h, known, clearance))
      BY <3>3 DEF IsShown
    <3> HIDE DEF known, clearance
    <3>7. s.summary = "text" => h.summary = "text" /\ \E t \in since[c].tiers[h.domain] : MaySee(t, clearance)
      BY <3>4, <3>6 DEF Cleared
    <3>8. s.summary # "text" /\ h.summary = "text" => \E t \in since[c].tiers[h.domain] : ~MaySee(t, clearance)
      BY <3>4, <3>6 DEF Cleared
    <3>9. s.summary # "text" /\ h.summary = "text" =>
            \A u \in Shown(c) : HitOf(c, u.id).domain = h.domain => u.summary # "text"
      BY <3>5, <3>6 DEF Cleared
    <3> QED
      BY <3>7, <3>8, <3>9 DEF clearance
  <2>2. ASSUME Answered(c, "detail")
        PROVE  IF answer[c].meta = "text" THEN allowed(AssetDomain) ELSE denied(AssetDomain)
    <3>1. PICK level \in since[c].tiers[AssetDomain] :
            answer[c].meta = IF MaySee(level, principal[c].clearance) THEN "text" ELSE Omitted
      BY <2>2 DEF AnswerInv, DetailInv
    <3> QED
      BY <3>1 DEF Omitted
  <2> QED
    BY <2>1, <2>2
<1> QED
  BY <1>1, Invariance, AnswersInvariant, PTL

-----------------------------------------------------------------------------
(* The cards of a detail.                                                  *)

OwnEdges(q) == \A i, j \in DOMAIN q : q[i].edge = q[j].edge => i = j

\* The order of the edges of a card is one a sort can go by.
LEMMA EdgePrecedesSorts ==
  ASSUME NEW T, T \subseteq GradedEdges
  PROVE  /\ Sorts(Order(T, EdgePrecedes), T)
         /\ \A x, y \in T : <<x, y>> \in Order(T, EdgePrecedes) <=> EdgePrecedes(x, y)
<1>1. \A x, y \in T : <<x, y>> \in Order(T, EdgePrecedes) <=> EdgePrecedes(x, y)
  BY DEF Order
<1>2. \A x \in T : x.conf \in Int /\ x.edge \in Int
  BY DEF GradedEdges, NoConfidence
<1> DEFINE R == Order(T, EdgePrecedes)
<1> HIDE DEF R
<1>e. \A x, y \in T : <<x, y>> \in R <=> EdgePrecedes(x, y)
  BY <1>1 DEF R
<1>3. ASSUME NEW x \in T, NEW y \in T, <<x, y>> \in R PROVE <<y, x>> \notin R
  BY <1>2, <1>3, <1>e DEF EdgePrecedes
<1>4. ASSUME NEW x \in T, NEW y \in T, NEW z \in T, <<x, z>> \in R PROVE <<x, y>> \in R \/ <<y, z>> \in R
  BY <1>2, <1>4, <1>e DEF EdgePrecedes
<1> QED
  BY <1>1, <1>3, <1>4 DEF Sorts, R

\* The edges of a card are the edges of the neighbour, each once, and none is
\* stronger than the first.
EdgesOf(list, q, a) ==
  /\ list \in Seq(GradedEdges) /\ DOMAIN list = 1..Len(list) /\ Len(list) \in Nat
  /\ \A k \in DOMAIN q : q[k].asset = a => \E i \in DOMAIN list : list[i] = q[k]
  /\ \A i \in DOMAIN list : \E k \in DOMAIN q : list[i] = q[k] /\ q[k].asset = a
  /\ OwnEdges(list)
  /\ \A i \in DOMAIN list : list[i].conf <= list[1].conf

\* The sorted edges of a card are the edges of its neighbour, each once.
LEMMA SortedEdges ==
  ASSUME NEW q \in Seq(GradedEdges), OwnEdges(q), NEW a, NEW own,
         own = Kept(q, {i \in DOMAIN q : q[i].asset = a})
  PROVE  EdgesOf(SortedBy(own, Order(ToSet(own), EdgePrecedes)), q, a)
<1> DEFINE I == {i \in DOMAIN q : q[i].asset = a}
           R == Order(ToSet(own), EdgePrecedes)
           list == SortedBy(own, R)
           D == DOMAIN own
<1>1. own \in Seq(GradedEdges) /\ Picks(own, q, I)
  <2>1. I \subseteq DOMAIN q /\ own = Kept(q, I)
    OBVIOUS
  <2> HIDE DEF I
  <2> QED
    BY <2>1, PickedInOrder
<1>2. /\ \A i \in D : \E k \in DOMAIN q : own[i] = q[k] /\ q[k].asset = a
      /\ \A k \in DOMAIN q : q[k].asset = a => \E i \in D : own[i] = q[k]
  BY <1>1 DEF Picks
<1>3. OwnEdges(own)
  <2> SUFFICES ASSUME NEW i \in D, NEW j \in D, own[i].edge = own[j].edge, i # j PROVE FALSE
    BY DEF OwnEdges
  <2>1. \A x, y \in D : x < y => own[x].edge # own[y].edge
    <3> SUFFICES ASSUME NEW x \in D, NEW y \in D, x < y PROVE own[x].edge # own[y].edge
      OBVIOUS
    <3>1. PICK k \in I, l \in I : k < l /\ own[x] = q[k] /\ own[y] = q[l]
      BY <1>1 DEF Picks
    <3>2. k \in DOMAIN q /\ l \in DOMAIN q /\ k # l
      BY <3>1
    <3> QED
      BY <3>1, <3>2 DEF OwnEdges
  <2>2. i < j \/ j < i
    BY <1>1
  <2> QED
    BY <2>1, <2>2
<1>s. own \in Seq(GradedEdges)
  BY <1>1
<1>t. D = 1..Len(own) /\ Len(own) \in Nat /\ \A i \in D : own[i] \in GradedEdges
  BY ONLY <1>s
<1>u. ToSet(own) = {own[i] : i \in D}
  BY DEF ToSet
<1>4. D = 1..Len(own) /\ Len(own) \in Nat /\ \A i \in D : own[i] \in GradedEdges /\ own[i] \in ToSet(own)
  BY <1>t, <1>u
<1>5. ToSet(own) \subseteq GradedEdges /\ own \in Seq(ToSet(own))
  <2>1. ToSet(own) \subseteq GradedEdges
    BY <1>t, <1>u
  <2>2. own \in [1..Len(own) -> ToSet(own)]
    BY <1>1, <1>4
  <2> QED
    BY <1>4, <2>1, <2>2
<1> HIDE DEF R, D, I
<1>6. /\ Sorts(R, ToSet(own))
      /\ \A x, y \in ToSet(own) : <<x, y>> \in R <=> EdgePrecedes(x, y)
  BY <1>5, EdgePrecedesSorts DEF R
<1>7. PICK r : IsSortOf(list, own, R, r)
  <2> DEFINE T == ToSet(own)
  <2>1. own \in Seq(T) /\ Sorts(R, T)
    BY <1>5, <1>6
  <2> HIDE DEF T
  <2> QED
    BY <2>1, SortedIsSorted
<1> HIDE DEF list
<1>8. /\ list = [i \in D |-> own[r[i]]] /\ r \in [D -> D]
      /\ \A k \in D : \E i \in D : r[i] = k
      /\ \A i, j \in D : i < j <=> <<r[i], r[j]>> \in Stable(own, R)
  BY <1>7 DEF IsSortOf, D
<1>9. \A i \in D : r[i] \in D /\ list[i] = own[r[i]] /\ list[i] \in GradedEdges
  BY <1>4, <1>8
<1>10. list \in Seq(GradedEdges) /\ DOMAIN list = D /\ Len(list) = Len(own)
  <2>1. list \in [1..Len(own) -> GradedEdges]
    BY <1>4, <1>8, <1>9
  <2> QED
    BY <1>4, <2>1
<1>11. \A k \in DOMAIN q : q[k].asset = a => \E i \in DOMAIN list : list[i] = q[k]
  <2> SUFFICES ASSUME NEW k \in DOMAIN q, q[k].asset = a PROVE \E i \in D : list[i] = q[k]
    BY <1>10
  <2>1. PICK j \in D : own[j] = q[k]
    BY <1>2 DEF D
  <2>2. PICK i \in D : r[i] = j
    BY <1>8
  <2> QED
    BY <1>9, <2>1, <2>2
<1>12. ASSUME NEW i \in DOMAIN list PROVE \E k \in DOMAIN q : list[i] = q[k] /\ q[k].asset = a
  <2>1. i \in D /\ r[i] \in D /\ list[i] = own[r[i]]
    BY <1>9, <1>10
  <2>2. PICK k \in DOMAIN q : own[r[i]] = q[k] /\ q[k].asset = a
    BY <1>2, <2>1 DEF D
  <2> QED
    BY <2>1, <2>2
<1>13. ASSUME NEW i \in D, NEW j \in D, list[i].edge = list[j].edge PROVE i = j
  <2>1. r[i] = r[j]
    BY <1>3, <1>9, <1>13 DEF OwnEdges, D
  <2>2. r[i] \in D /\ (i < j <=> <<r[i], r[i]>> \in Stable(own, R)) /\ (j < i <=> <<r[i], r[i]>> \in Stable(own, R))
    BY <1>8, <2>1
  <2>3. i < j <=> j < i
    BY <2>2
  <2> QED
    BY <1>4, <2>3
<1>14. ASSUME NEW j \in D PROVE list[j].conf <= list[1].conf
  <2>1. 1 \in D /\ j \in Nat /\ j >= 1
    BY <1>4
  <2>2. CASE j = 1
    BY <1>9, <2>1, <2>2 DEF GradedEdges, NoConfidence
  <2>3. CASE 1 < j
    <3>1. <<r[1], r[j]>> \in Stable(own, R) /\ r[1] \in D /\ r[j] \in D
      BY <1>8, <2>1, <2>3
    <3>2. \/ <<own[r[1]], own[r[j]]>> \in R
          \/ <<own[r[j]], own[r[1]]>> \notin R
      BY <3>1 DEF Stable, Order
    <3>3. EdgePrecedes(list[1], list[j]) \/ ~EdgePrecedes(list[j], list[1])
      BY <1>4, <1>6, <1>9, <2>1, <3>1, <3>2
    <3>4. list[1].conf \in Int /\ list[j].conf \in Int
      BY <1>9, <2>1 DEF GradedEdges, NoConfidence
    <3> QED
      BY <3>3, <3>4 DEF EdgePrecedes
  <2> QED
    BY <2>1, <2>2, <2>3
<1>15. OwnEdges(list)
  BY <1>10, <1>13 DEF OwnEdges
<1>16. \A i \in DOMAIN list : list[i].conf <= list[1].conf
  BY <1>10, <1>14
<1>17. DOMAIN list = 1..Len(list) /\ Len(list) \in Nat
  BY <1>4, <1>10
<1>18. EdgesOf(list, q, a)
  BY <1>10, <1>11, <1>12, <1>15, <1>16, <1>17 DEF EdgesOf
<1> QED
  BY <1>18 DEF list, R

\* A card: what it keeps of its rows, the best of their tiers, and a number it
\* is ranked by.
IsCard(card, q, a) ==
  /\ card.asset = a
  /\ \E list : EdgesOf(list, q, a) /\ card.edges = [i \in DOMAIN list |-> Detail(list[i])]
  /\ card.kinds = {card.edges[i].kind : i \in DOMAIN card.edges}
  /\ card.best \in Int
  /\ card.tier \in {"weak", "strong"}
  /\ (\E i \in DOMAIN card.edges : card.edges[i].tier = "strong") => card.tier = "strong"

\* A card is about one neighbour, has its edges and the best of their tiers.
LEMMA CardIsCard ==
  ASSUME NEW q \in Seq(GradedEdges), OwnEdges(q), NEW a, a \in {q[i].asset : i \in DOMAIN q}
  PROVE  IsCard(Card(q, a), q, a)
<1> DEFINE own == Kept(q, {i \in DOMAIN q : q[i].asset = a})
           sorted == SortedBy(own, Order(ToSet(own), EdgePrecedes))
           list == [i \in DOMAIN sorted |-> Detail(sorted[i])]
           card == Card(q, a)
<1>1. EdgesOf(sorted, q, a)
  BY SortedEdges
<1>2. /\ card.asset = a /\ card.edges = list
      /\ card.kinds = {list[i].kind : i \in DOMAIN list}
      /\ card.best = Max({list[i].conf : i \in DOMAIN list})
      /\ card.tier = BestTier(list)
  BY DEF Card
<1>d. /\ card.edges = [i \in DOMAIN sorted |-> Detail(sorted[i])] /\ DOMAIN list = DOMAIN sorted
      /\ \A i \in DOMAIN list : list[i].conf = sorted[i].conf /\ list[i].tier = sorted[i].tier
  BY <1>2 DEF Detail
<1> HIDE DEF list, card, sorted
<1>3. /\ \A i \in DOMAIN list :
           /\ list[i].conf \in Nat \cup {NoConfidence} /\ list[i].tier \in {"weak", "strong"}
           /\ list[i].conf <= list[1].conf
      /\ 1 \in DOMAIN list
  <2>1. PICK i \in DOMAIN sorted : TRUE
    BY <1>1 DEF EdgesOf
  <2>2. sorted \in Seq(GradedEdges) /\ DOMAIN sorted = 1..Len(sorted) /\ Len(sorted) \in Nat
    BY <1>1 DEF EdgesOf
  <2>3. 1 \in DOMAIN sorted
    BY <2>1, <2>2
  <2>4. \A j \in DOMAIN sorted : sorted[j] \in GradedEdges /\ sorted[j].conf <= sorted[1].conf
    BY <1>1, <2>2 DEF EdgesOf
  <2>5. \A j \in DOMAIN sorted : sorted[j].conf \in Nat \cup {NoConfidence} /\ sorted[j].tier \in {"weak", "strong"}
    BY <2>4 DEF GradedEdges
  <2> QED
    BY <1>d, <2>3, <2>4, <2>5
<1>4. card.best \in Int
  <2> DEFINE S == {list[i].conf : i \in DOMAIN list}
  <2>1. \A x \in S : x \in Int
    BY <1>3 DEF NoConfidence
  <2>2. list[1].conf \in S /\ \A y \in S : list[1].conf >= y
    BY <1>3, <2>1
  <2> HIDE DEF S
  <2>3. \E x \in S : \A y \in S : x >= y
    BY <2>2
  <2>4. Max(S) \in S
    BY <2>3 DEF Max
  <2> QED
    BY <1>2, <2>1, <2>4 DEF S
<1>5. /\ card.tier \in {"weak", "strong"}
      /\ (\E i \in DOMAIN list : list[i].tier = "strong") => card.tier = "strong"
  <2> DEFINE S == {list[i].tier : i \in DOMAIN list}
  <2>1. S \subseteq {"weak", "strong"} /\ list[1].tier \in S
    BY <1>3
  <2>2. TierRank("strong") = 0 /\ TierRank("weak") = 1
    BY DEF TierRank
  <2>3. BestTier(list) = CHOOSE t \in S : \A u \in S : TierRank(t) <= TierRank(u)
    BY DEF BestTier
  <2>4. (\E i \in DOMAIN list : list[i].tier = "strong") => "strong" \in S
    OBVIOUS
  <2> HIDE DEF S
  <2>r. \A t \in S : TierRank(t) \in 0..1 /\ (TierRank(t) = 0 <=> t = "strong")
    BY <2>1, <2>2
  <2>5. \E t \in S : \A u \in S : TierRank(t) <= TierRank(u)
    <3>1. CASE "strong" \in S
      BY <2>2, <2>r, <3>1
    <3>2. CASE "strong" \notin S
      <4>1. \A u \in S : TierRank(u) = 1
        BY <2>r, <3>2
      <4>2. PICK t \in S : TRUE
        BY <2>1
      <4>3. \A u \in S : TierRank(t) <= TierRank(u)
        BY <4>1, <4>2
      <4> QED
        BY <4>2, <4>3
    <3> QED
      BY <3>1, <3>2
  <2>6. BestTier(list) \in S /\ \A u \in S : TierRank(BestTier(list)) <= TierRank(u)
    BY <2>3, <2>5
  <2>7. "strong" \in S => BestTier(list) = "strong"
    BY <2>2, <2>r, <2>6
  <2> QED
    BY <1>2, <2>1, <2>4, <2>6, <2>7
<1> QED
  BY <1>1, <1>2, <1>4, <1>5, <1>d DEF IsCard, card

\* The cards of the neighbours, each once, by tier, confidence and asset.
LEMMA MergedIsRanked ==
  ASSUME NEW q \in Seq(GradedEdges), OwnEdges(q), NEW cards, cards = Merged(q)
  PROVE  /\ DOMAIN cards \subseteq Nat /\ \A i \in DOMAIN cards : 1..i \subseteq DOMAIN cards
         /\ \A i \in DOMAIN cards : IsCard(cards[i], q, cards[i].asset)
         /\ \A k \in DOMAIN q : \E i \in DOMAIN cards : cards[i].asset = q[k].asset
         /\ \A i, j \in DOMAIN cards : i < j => CardPrecedes(cards[i], cards[j])
         /\ \A i, j \in DOMAIN cards : cards[i].asset = cards[j].asset => i = j
<1> DEFINE A == {q[i].asset : i \in DOMAIN q}
           S == {Card(q, a) : a \in A}
           R == Order(S, CardPrecedes)
           n == Cardinality(S)
<1>1. cards = Ranked(S, R)
  BY DEF Merged
<1>2. IsFiniteSet(S)
  <2> DEFINE f == [i \in DOMAIN q |-> Card(q, q[i].asset)]
  <2>1. DOMAIN f = DOMAIN q /\ S = {f[i] : i \in DOMAIN q}
    OBVIOUS
  <2>2. IsFiniteSet(DOMAIN q)
    <3>1. DOMAIN q = 1..Len(q) /\ Len(q) \in Nat
      OBVIOUS
    <3> QED
      BY <3>1, FS_Interval
  <2> HIDE DEF S, f
  <2> QED
    BY <2>1, <2>2, ImageIsFinite
<1>3. /\ \A a \in A : Card(q, a) \in S /\ IsCard(Card(q, a), q, a)
      /\ \A x \in S : \E a \in A : x = Card(q, a)
  BY CardIsCard
<1>4. \A x \in S : x.asset \in A /\ x = Card(q, x.asset) /\ IsCard(x, q, x.asset)
  <2> SUFFICES ASSUME NEW x \in S PROVE x.asset \in A /\ x = Card(q, x.asset) /\ IsCard(x, q, x.asset)
    OBVIOUS
  <2>1. PICK a \in A : x = Card(q, a) /\ IsCard(x, q, a)
    BY <1>3
  <2>2. x.asset = a
    BY <2>1 DEF IsCard
  <2> QED
    BY <2>1, <2>2
<1>5. A \subseteq Nat /\ \A k \in DOMAIN q : q[k].asset \in A
  <2>1. \A k \in DOMAIN q : q[k] \in GradedEdges
    OBVIOUS
  <2>2. \A k \in DOMAIN q : q[k].asset \in Nat
    BY <2>1 DEF GradedEdges
  <2> QED
    BY <2>2
<1> HIDE DEF A, S
<1>6. \A x, y \in S : <<x, y>> \in R <=> CardPrecedes(x, y)
  BY DEF Order
<1> HIDE DEF R
<1>7. \A x \in S : x.asset \in Int /\ x.best \in Int /\ TierRank(x.tier) \in Int
  <2> SUFFICES ASSUME NEW x \in S PROVE x.asset \in Int /\ x.best \in Int /\ TierRank(x.tier) \in Int
    OBVIOUS
  <2>1. x.asset \in Nat /\ x.best \in Int /\ x.tier \in {"weak", "strong"}
    BY <1>4, <1>5 DEF IsCard
  <2> QED
    BY <2>1 DEF TierRank
<1>8. Orders(R, S)
  <2>1. ASSUME NEW x \in S PROVE <<x, x>> \notin R
    BY <1>6, <1>7 DEF CardPrecedes
  <2>2. ASSUME NEW x \in S, NEW y \in S PROVE x = y \/ <<x, y>> \in R \/ <<y, x>> \in R
    <3>1. CASE x.asset = y.asset
      BY <1>4, <3>1
    <3>2. CASE x.asset # y.asset
      BY <1>6, <1>7, <3>2 DEF CardPrecedes
    <3> QED
      BY <3>1, <3>2
  <2>3. ASSUME NEW x \in S, NEW y \in S, NEW z \in S, <<x, y>> \in R, <<y, z>> \in R PROVE <<x, z>> \in R
    <3> DEFINE t == TierRank(x.tier)
               u == TierRank(y.tier)
               v == TierRank(z.tier)
    <3>1. t \in Int /\ u \in Int /\ v \in Int /\ x.best \in Int /\ y.best \in Int /\ z.best \in Int
          /\ x.asset \in Int /\ y.asset \in Int /\ z.asset \in Int
      BY <1>7
    <3>2. /\ t < u \/ (t = u /\ (x.best > y.best \/ (x.best = y.best /\ x.asset < y.asset)))
          /\ u < v \/ (u = v /\ (y.best > z.best \/ (y.best = z.best /\ y.asset < z.asset)))
      BY <1>6, <2>3 DEF CardPrecedes
    <3> HIDE DEF t, u, v
    <3>3. t < v \/ (t = v /\ (x.best > z.best \/ (x.best = z.best /\ x.asset < z.asset)))
      BY <3>1, <3>2
    <3> QED
      BY <1>6, <3>3 DEF CardPrecedes, t, v
  <2> QED
    BY <2>1, <2>2, <2>3 DEF Orders
<1>9. Ranks(cards, S, R) /\ n \in Nat
  BY <1>1, <1>2, <1>8, RankedRanks
<1> HIDE DEF n
<1>10. /\ DOMAIN cards = 1..n /\ \A i \in 1..n : cards[i] \in S
       /\ \A x \in S : \E i \in 1..n : cards[i] = x
       /\ \A i, j \in 1..n : i < j <=> <<cards[i], cards[j]>> \in R
  BY <1>9 DEF Ranks, n
<1>11. DOMAIN cards \subseteq Nat /\ \A i \in DOMAIN cards : 1..i \subseteq DOMAIN cards
  BY <1>9, <1>10
<1>12. \A i \in DOMAIN cards : IsCard(cards[i], q, cards[i].asset)
  BY <1>4, <1>10
<1>13. \A k \in DOMAIN q : \E i \in DOMAIN cards : cards[i].asset = q[k].asset
  <2> SUFFICES ASSUME NEW k \in DOMAIN q PROVE \E i \in 1..n : cards[i].asset = q[k].asset
    BY <1>10
  <2>1. Card(q, q[k].asset) \in S /\ Card(q, q[k].asset).asset = q[k].asset
    BY <1>3, <1>5 DEF IsCard
  <2> QED
    BY <1>10, <2>1
<1>14. \A i, j \in DOMAIN cards : i < j => CardPrecedes(cards[i], cards[j])
  BY <1>6, <1>10
<1>15. \A i, j \in DOMAIN cards : cards[i].asset = cards[j].asset => i = j
  <2> SUFFICES ASSUME NEW i \in 1..n, NEW j \in 1..n, cards[i].asset = cards[j].asset PROVE i = j
    BY <1>10
  <2>1. cards[i] = cards[j]
    BY <1>4, <1>10
  <2>2. ~(i < j) /\ ~(j < i)
    BY <1>8, <1>10, <2>1 DEF Orders
  <2> QED
    BY <1>9, <2>2
<1> QED
  BY <1>11, <1>12, <1>13, <1>14, <1>15

\* A list of edges without repetition has as many edges as ids.
LEMMA EdgesAreCounted ==
  ASSUME NEW list \in Seq(GradedEdges), OwnEdges(list)
  PROVE  Len(list) = Cardinality({list[i].edge : i \in DOMAIN list})
<1> DEFINE n == Len(list)
           D == 1..n
           ids == {list[i].edge : i \in DOMAIN list}
           f == [i \in D |-> list[i].edge]
<1>1. n \in Nat /\ DOMAIN list = D
  OBVIOUS
<1>2. IsFiniteSet(D) /\ Cardinality(D) = n
  BY <1>1, FS_Interval
<1>3. f \in [D -> ids] /\ (\A i, j \in D : f[i] = f[j] => i = j) /\ \A y \in ids : \E i \in D : f[i] = y
  BY <1>1 DEF OwnEdges
<1> HIDE DEF D, ids, f
<1>4. DOMAIN f = D /\ IsInjective(f)
  BY <1>3 DEF IsInjective
<1>5. f \in Injection(D, ids) /\ f \in Surjection(D, ids)
  BY <1>3, <1>4 DEF Injection, Surjection
<1>6. f \in Bijection(D, ids)
  BY <1>5 DEF Bijection
<1>7. Cardinality(ids) = Cardinality(D)
  <2>1. ExistsBijection(D, ids)
    BY <1>6 DEF ExistsBijection
  <2> QED
    BY <1>2, <2>1, FS_Bijection
<1> QED
  BY <1>2, <1>7 DEF ids

\* What reviewers have confirmed is never below what they have not, for any
\* edges, whether they are folded or not, in whatever order they are read, and
\* whatever is confirmed or rejected meanwhile (asset_detail.py:54-68, 94-155).
THEOREM ConfirmedFirstHolds == Spec => []ConfirmedFirst
<1>1. AnswerInv => ConfirmedFirst
  <2> SUFFICES ASSUME AnswerInv, NEW c \in Clients, Answered(c, "detail"),
                      NEW cards, cards = answer[c].relations
               PROVE  LET ids(card)   == {card.edges[i].edge : i \in DOMAIN card.edges}
                          kinds(card) == card.kinds \cup UNION {card.edges[i].folded : i \in DOMAIN card.edges}
                      IN
                      /\ \A i, j \in DOMAIN cards : cards[i].asset = cards[j].asset => i = j
                      /\ \A e \in since[c].present : e.conf >= MinConf =>
                           \E i \in DOMAIN cards : cards[i].asset = e.asset /\ e.kind \in kinds(cards[i])
                      /\ \A e \in since[c].confirmed, i \in DOMAIN cards :
                           e.conf >= MinConf /\ cards[i].asset = e.asset => \A j \in 1..i : cards[j].tier = "strong"
                      /\ \A i \in DOMAIN cards : Len(cards[i].edges) = Cardinality(ids(cards[i]))
                      /\ \A i \in DOMAIN cards : \A j \in DOMAIN cards[i].edges :
                           cards[i].edges[j].conf <= cards[i].edges[1].conf
    BY DEF ConfirmedFirst
  <2> DEFINE q == read[c].edges[1]
             ids(card) == {card.edges[i].edge : i \in DOMAIN card.edges}
             kinds(card) == card.kinds \cup UNION {card.edges[i].folded : i \in DOMAIN card.edges}
  <2>1. EdgesRead(c) /\ cards = Merged(q)
    BY DEF AnswerInv, DetailInv
  <2>2. /\ q \in Seq(GradedEdges) /\ OwnEdges(q)
        /\ \A e \in since[c].present : e.conf >= MinConf => \E i \in DOMAIN q : TellsOf(q[i], e)
        /\ \A e \in since[c].confirmed : e.conf >= MinConf =>
             \E i \in DOMAIN q : q[i].asset = e.asset /\ q[i].tier = "strong"
    BY <2>1 DEF EdgesRead, OwnEdges
  <2> HIDE DEF q
  <2>3. /\ DOMAIN cards \subseteq Nat /\ \A i \in DOMAIN cards : 1..i \subseteq DOMAIN cards
        /\ \A i \in DOMAIN cards : IsCard(cards[i], q, cards[i].asset)
        /\ \A k \in DOMAIN q : \E i \in DOMAIN cards : cards[i].asset = q[k].asset
        /\ \A i, j \in DOMAIN cards : i < j => CardPrecedes(cards[i], cards[j])
        /\ \A i, j \in DOMAIN cards : cards[i].asset = cards[j].asset => i = j
    BY <2>1, <2>2, MergedIsRanked
  <2>m. ASSUME NEW i \in DOMAIN cards, NEW k \in DOMAIN q, cards[i].asset = q[k].asset
        PROVE  \E x \in DOMAIN cards[i].edges : cards[i].edges[x] = Detail(q[k])
    <3>1. PICK list : EdgesOf(list, q, cards[i].asset) /\ cards[i].edges = [x \in DOMAIN list |-> Detail(list[x])]
      BY <2>3 DEF IsCard
    <3>2. PICK x \in DOMAIN list : list[x] = q[k]
      BY <2>m, <3>1 DEF EdgesOf
    <3> QED
      BY <3>1, <3>2
  <2>4. ASSUME NEW e \in since[c].present, e.conf >= MinConf
        PROVE  \E i \in DOMAIN cards : cards[i].asset = e.asset /\ e.kind \in kinds(cards[i])
    <3>1. PICK k \in DOMAIN q : TellsOf(q[k], e)
      BY <2>2, <2>4
    <3>2. PICK i \in DOMAIN cards : cards[i].asset = q[k].asset
      BY <2>3
    <3>3. PICK j \in DOMAIN cards[i].edges : cards[i].edges[j] = Detail(q[k])
      BY <2>m, <3>2
    <3>4. cards[i].kinds = {cards[i].edges[x].kind : x \in DOMAIN cards[i].edges}
      BY <2>3 DEF IsCard
    <3>5. cards[i].edges[j].kind = q[k].kind /\ cards[i].edges[j].folded = q[k].folded
      BY <3>3 DEF Detail
    <3>6. e.kind \in kinds(cards[i])
      BY <3>1, <3>4, <3>5 DEF TellsOf
    <3> QED
      BY <3>1, <3>2, <3>6 DEF TellsOf
  <2>5. ASSUME NEW e \in since[c].confirmed, NEW i \in DOMAIN cards, e.conf >= MinConf,
               cards[i].asset = e.asset, NEW j \in 1..i
        PROVE  cards[j].tier = "strong"
    <3>1. PICK k \in DOMAIN q : q[k].asset = e.asset /\ q[k].tier = "strong"
      BY <2>2, <2>5
    <3>2. PICK x \in DOMAIN cards[i].edges : cards[i].edges[x] = Detail(q[k])
      BY <2>m, <2>5, <3>1
    <3>t. cards[i].edges[x].tier = "strong"
      BY <3>1, <3>2 DEF Detail
    <3>3. cards[i].tier = "strong"
      BY <2>3, <3>t DEF IsCard
    <3>4. CASE j = i
      BY <3>3, <3>4
    <3>5. CASE j # i
      <4>1. j < i /\ j \in DOMAIN cards
        BY <2>3, <3>5
      <4>2. CardPrecedes(cards[j], cards[i]) /\ cards[j].tier \in {"weak", "strong"}
        BY <2>3, <4>1 DEF IsCard
      <4> QED
        BY <3>3, <4>2 DEF CardPrecedes, TierRank
    <3> QED
      BY <3>4, <3>5
  <2>6. ASSUME NEW i \in DOMAIN cards
        PROVE  /\ Len(cards[i].edges) = Cardinality(ids(cards[i]))
               /\ \A j \in DOMAIN cards[i].edges : cards[i].edges[j].conf <= cards[i].edges[1].conf
    <3> DEFINE details == cards[i].edges
    <3>1. PICK list : EdgesOf(list, q, cards[i].asset) /\ details = [x \in DOMAIN list |-> Detail(list[x])]
      BY <2>3 DEF IsCard
    <3> HIDE DEF details
    <3>2. /\ list \in Seq(GradedEdges) /\ OwnEdges(list) /\ \A j \in DOMAIN list : list[j].conf <= list[1].conf
          /\ DOMAIN list = 1..Len(list) /\ Len(list) \in Nat
      BY <3>1 DEF EdgesOf
    <3>3. Len(list) = Cardinality({list[x].edge : x \in DOMAIN list})
      BY <3>2, EdgesAreCounted
    <3>4. /\ DOMAIN details = DOMAIN list
          /\ \A x \in DOMAIN list : details[x].edge = list[x].edge /\ details[x].conf = list[x].conf
      BY <3>1 DEF Detail
    <3>5. Len(details) = Len(list)
      BY <3>2, <3>4
    <3>6. {details[x].edge : x \in DOMAIN details} = {list[x].edge : x \in DOMAIN list}
      BY <3>4
    <3>7. \A j \in DOMAIN details : j \in DOMAIN list /\ 1 \in DOMAIN list
      BY <3>2, <3>4
    <3>8. \A j \in DOMAIN details : details[j].conf <= details[1].conf
      BY <3>2, <3>4, <3>7
    <3> QED
      BY <3>3, <3>5, <3>6, <3>8 DEF details
  <2> QED
    BY <2>3, <2>4, <2>5, <2>6
<1> QED
  BY <1>1, AnswersInvariant, PTL

-----------------------------------------------------------------------------
(* The best of a search.                                                   *)

\* Rounding to six digits and then comparing costs at most a unit of the
\* fourth digit.
LEMMA RoundingIsMonotonic ==
  ASSUME NEW x \in Nat, NEW y \in Nat, Sixth(x) >= Sixth(y)
  PROVE  Fourth(x) + 1000 >= Fourth(y)
<1>1. x + 10 > y
  <2> DEFINE a == (x + 10 \div 2) \div 10
             b == (y + 10 \div 2) \div 10
  <2>1. a * 10 >= b * 10
    BY DEF Sixth, RoundTo
  <2>2. 10 \div 2 = 5
    OBVIOUS
  <2>3. a \in Int /\ b \in Int /\ 10 * a <= x + 5 /\ y + 5 < 10 * b + 10
    BY <2>2
  <2> HIDE DEF a, b
  <2> QED
    BY <2>1, <2>3
<1>2. Fourth(x) + 1000 >= Fourth(y)
  <2> DEFINE a == (x + 1000 \div 2) \div 1000
             b == (y + 1000 \div 2) \div 1000
  <2>1. Fourth(x) = a * 1000 /\ Fourth(y) = b * 1000
    BY DEF Fourth, RoundTo
  <2>2. 1000 \div 2 = 500
    OBVIOUS
  <2>3. a \in Int /\ b \in Int /\ x + 500 < 1000 * a + 1000 /\ 1000 * b <= y + 500
    BY <2>2
  <2> HIDE DEF a, b
  <2> QED
    BY <1>1, <2>1, <2>3
<1> QED
  BY <1>2

\* A group of an answer has the best of the rows, at the places r.
ShowsBest(group, rows, limit, r) ==
  /\ Places(r, rows)
  /\ DOMAIN group = 1..Len(group) /\ Len(group) = IF Len(rows) < limit THEN Len(rows) ELSE limit
  /\ \A i \in DOMAIN group :
       /\ i \in DOMAIN rows /\ r[i] \in DOMAIN rows
       /\ group[i].id = rows[r[i]].id /\ group[i].score = Finite(rows[r[i]].score)

\* A group shows the best hits of its modality, projected.
LEMMA GroupsShowBest ==
  ASSUME NEW c \in Clients, Search(c), NEW m \in DOMAIN hits[c]
  PROVE  \E r : ShowsBest(GroupsOf(c)[m], Found(c)[m], asked[c].size, r)
<1> DEFINE rows == Found(c)[m]
           raw == GroupedRaw(c)[m]
           group == GroupsOf(c)[m]
           limit == asked[c].size
           known == read[c].tiers
           clearance == principal[c].clearance
<1>1. /\ IsGroup(raw, rows, limit) /\ rows \in Seq(HitRows) /\ limit \in Nat
      /\ m \in DOMAIN GroupedRaw(c)
  BY DEF Search
<1>2. group = [i \in DOMAIN raw |-> Project(raw[i], known, clearance)]
  BY <1>1, GroupsRow
<1> HIDE DEF rows, raw, group, limit, known, clearance
<1>3. PICK r : Places(r, rows) /\ \A k \in DOMAIN raw : raw[k] = Shape(rows[r[k]])
  BY <1>1 DEF IsGroup
<1>4. raw \in Seq(ShapedRow) /\ Len(raw) = IF Len(rows) < limit THEN Len(rows) ELSE limit
  BY <1>1 DEF IsGroup
<1>5. DOMAIN raw = 1..Len(raw) /\ Len(raw) \in Nat /\ \A i \in DOMAIN raw : raw[i] \in ShapedRow
  BY <1>4
<1>6. DOMAIN group = 1..Len(group) /\ Len(group) = Len(raw) /\ DOMAIN group = DOMAIN raw
  BY <1>2, <1>5
<1>7. \A i \in DOMAIN group : i \in DOMAIN rows /\ r[i] \in DOMAIN rows /\ rows[r[i]] \in HitRows
  <2>1. DOMAIN rows = 1..Len(rows) /\ Len(rows) \in Nat /\ \A k \in DOMAIN rows : rows[k] \in HitRows
    BY <1>1
  <2>2. \A i \in DOMAIN group : i \in DOMAIN rows
    BY <1>1, <1>4, <1>5, <1>6, <2>1
  <2> QED
    BY <1>3, <2>1, <2>2 DEF Places
<1>8. ASSUME NEW i \in DOMAIN group
      PROVE  group[i].id = rows[r[i]].id /\ group[i].score = Finite(rows[r[i]].score)
  <2>1. group[i] = Project(raw[i], known, clearance) /\ raw[i] \in ShapedRow /\ raw[i] = Shape(rows[r[i]])
    BY <1>2, <1>3, <1>5, <1>6
  <2>2. group[i].id = raw[i].id /\ group[i].score = raw[i].score
    BY <2>1, ProjectOfRow
  <2> QED
    BY <1>7, <2>1, <2>2, ShapeOfRow
<1>9. ShowsBest(group, rows, limit, r)
  BY <1>3, <1>4, <1>6, <1>7, <1>8 DEF ShowsBest
<1> QED
  BY <1>9 DEF group, rows, limit

\* Nothing that is left out of a group is better than a row that is shown.
LEMMA GroupIsTop ==
  ASSUME NEW rows \in Seq(HitRows), OwnIds(rows), NEW r, Places(r, rows), NEW i \in DOMAIN rows,
         NEW id, id = rows[r[i]].id, NEW score, score = Finite(rows[r[i]].score)
  PROVE  Cardinality({h \in ToSet(rows) : \/ Sixth(Finite(h.score)) > Sixth(score)
                                          \/ Sixth(Finite(h.score)) = Sixth(score) /\ h.id < id}) = i - 1
<1> DEFINE D == DOMAIN rows
           K == {k \in D : Closer(Shape(rows[k]), Shape(rows[r[i]]))}
           better(h) == Sixth(Finite(h.score)) > Sixth(score) \/ (Sixth(Finite(h.score)) = Sixth(score) /\ h.id < id)
           B == {h \in ToSet(rows) : better(h)}
<1>1. D = 1..Len(rows) /\ Len(rows) \in Nat /\ \A k \in D : rows[k] \in HitRows
  OBVIOUS
<1>2. r[i] \in D /\ Cardinality(K) = i - 1
  BY DEF Places
<1>3. \A k \in D : Closer(Shape(rows[k]), Shape(rows[r[i]])) <=> better(rows[k])
  BY <1>1, <1>2, ShapeOfRow DEF Closer
<1> HIDE DEF better
<1>4. B = {rows[k] : k \in K}
  BY <1>3 DEF ToSet
<1>5. IsFiniteSet(K)
  <2>1. IsFiniteSet(D)
    BY <1>1, FS_Interval
  <2>2. K \subseteq D
    OBVIOUS
  <2> HIDE DEF K, D
  <2> QED
    BY <2>1, <2>2, FS_Subset
<1>6. K \subseteq DOMAIN rows /\ \A x, y \in K : rows[x] = rows[y] => x = y
  BY DEF OwnIds
<1> HIDE DEF K, B
<1>7. Cardinality({rows[k] : k \in K}) = Cardinality(K)
  BY <1>5, <1>6, ImageIsAsLarge
<1> QED
  BY <1>2, <1>4, <1>7 DEF B, better

\* A sort takes each place of a list once.
LEMMA PlacesAreDifferent ==
  ASSUME NEW rows \in Seq(HitRows), NEW r, Places(r, rows), NEW i \in DOMAIN rows, NEW j \in DOMAIN rows, r[i] = r[j]
  PROVE  i = j
<1>1. i \in Nat /\ j \in Nat
  OBVIOUS
<1>2. i < j <=> j < i
  BY DEF Places
<1> QED
  BY <1>1, <1>2

\* As many rows of the compact view as were asked for, one better than the
\* other or as good.
Filled(f, c, score) ==
  /\ DOMAIN f = 1..asked[c].size
  /\ \A i, j \in 1..asked[c].size : f[i] = f[j] => i = j
  /\ \A i \in 1..asked[c].size : f[i] \in CompactRows(c) /\ f[i].score + 1000 >= score

\* A hit is one of the rows of the compact view, before it is cut, or it was
\* cut off with its group, and the view is full of others that are hardly
\* worse.
LEMMA ShownOrCutOff ==
  ASSUME NEW c \in Clients, Search(c), DomainsOf(c) \subseteq DOMAIN read[c].tiers, NEW h \in RowsOf(Found(c))
  PROVE  \/ \E s \in CompactRows(c) : s.id = h.id /\ s.score = Fourth(Finite(h.score))
         \/ \E f : Filled(f, c, Fourth(Finite(h.score)))
<1>1. PICK m \in DOMAIN hits[c] : \E k \in DOMAIN Found(c)[m] : h = Found(c)[m][k]
  BY RowsOfGroups DEF Search
<1> DEFINE rows == Found(c)[m]
           group == GroupsOf(c)[m]
           size == asked[c].size
<1>2. PICK k \in DOMAIN rows : h = rows[k]
  BY <1>1
<1>3. PICK r : ShowsBest(group, rows, size, r)
  BY GroupsShowBest
<1>4. /\ rows \in Seq(HitRows) /\ OwnIds(rows) /\ size \in Nat /\ m \in DOMAIN GroupsOf(c)
      /\ \A i \in DOMAIN rows : rows[i] \in HitRows
  BY GroupsRow DEF Search, OwnIds
<1>5. \A i \in DOMAIN group : group[i] \in RowsOf(GroupsOf(c))
  BY <1>4, RowsOfGroups
<1>6. \A i \in DOMAIN group : group[i].summary \in Summaries
  BY <1>5, GroupsShowHits
<1> HIDE DEF rows, group, size
<1>7. ASSUME NEW i \in DOMAIN group
      PROVE  /\ CompactRow(group[i]) \in CompactRows(c)
             /\ CompactRow(group[i]).id = rows[r[i]].id
             /\ CompactRow(group[i]).score = Fourth(Finite(rows[r[i]].score))
  <2>1. CompactRow(group[i]) \in CompactRows(c)
    BY <1>5 DEF CompactRows
  <2>2. group[i].id = rows[r[i]].id /\ group[i].score = Finite(rows[r[i]].score)
    BY <1>3 DEF ShowsBest
  <2> QED
    BY <1>6, <2>1, <2>2, CompactRowOfRow
<1>8. /\ Places(r, rows) /\ DOMAIN group = 1..Len(group)
      /\ Len(group) = IF Len(rows) < size THEN Len(rows) ELSE size
      /\ DOMAIN rows = 1..Len(rows) /\ Len(rows) \in Nat
  BY <1>3, <1>4 DEF ShowsBest
<1>9. PICK p \in DOMAIN rows : r[p] = k
  BY <1>8 DEF Places
<1>10. CASE p \in DOMAIN group
  BY <1>2, <1>7, <1>9, <1>10
<1>11. CASE p \notin DOMAIN group
  <2>1. DOMAIN group = 1..size /\ \A i \in 1..size : i < p /\ i \in DOMAIN rows
    <3> DEFINE n == Len(rows)
               g == Len(group)
    <3>1. n \in Nat /\ size \in Nat /\ g = (IF n < size THEN n ELSE size) /\ p \in 1..n /\ p \notin 1..g
          /\ DOMAIN group = 1..g /\ DOMAIN rows = 1..n
      BY <1>4, <1>8, <1>11
    <3> HIDE DEF n, g
    <3>2. g = size /\ g < p /\ p <= n
      BY <3>1
    <3> QED
      BY <3>1, <3>2
  <2> DEFINE f == [i \in 1..size |-> CompactRow(group[i])]
  <2>2. ASSUME NEW i \in 1..size PROVE f[i] \in CompactRows(c) /\ f[i].score + 1000 >= Fourth(Finite(h.score))
    <3>1. Closer(Shape(rows[r[i]]), Shape(h)) /\ r[i] \in DOMAIN rows
      BY <1>2, <1>8, <1>9, <2>1 DEF Places
    <3> DEFINE x == Shape(rows[r[i]])
               y == Shape(h)
    <3>2. /\ x \in ShapedRow /\ y \in ShapedRow /\ x.score = Finite(rows[r[i]].score)
          /\ y.score = Finite(h.score)
      BY <1>2, <1>4, <3>1, ShapeOfRow
    <3> HIDE DEF x, y
    <3>3. x.score \in Nat /\ y.score \in Nat
      BY <3>2 DEF ShapedRow
    <3>4. Sixth(x.score) \in Nat /\ Sixth(y.score) \in Nat
      BY <3>3, SixthIsNat
    <3>5. Sixth(x.score) >= Sixth(y.score)
      BY <3>1, <3>4 DEF Closer, x, y
    <3>6. Fourth(x.score) + 1000 >= Fourth(y.score)
      BY <3>3, <3>5, RoundingIsMonotonic
    <3> QED
      BY <1>7, <2>1, <3>2, <3>6
  <2>3. ASSUME NEW i \in 1..size, NEW j \in 1..size, f[i] = f[j] PROVE i = j
    <3>1. rows[r[i]].id = rows[r[j]].id
      <4>1. CompactRow(group[i]) = CompactRow(group[j])
        BY <2>3
      <4> QED
        BY <1>7, <2>1, <4>1
    <3>2. r[i] = r[j]
      <4>1. r[i] \in DOMAIN rows /\ r[j] \in DOMAIN rows
        BY <1>8, <2>1 DEF Places
      <4> QED
        BY <1>4, <3>1, <4>1 DEF OwnIds
    <3> QED
      BY <1>4, <1>8, <2>1, <3>2, PlacesAreDifferent
  <2>4. DOMAIN f = 1..size
    OBVIOUS
  <2> HIDE DEF f
  <2>5. Filled(f, c, Fourth(Finite(h.score)))
    BY <2>2, <2>3, <2>4 DEF Filled, size
  <2> QED
    BY <2>5
<1> QED
  BY <1>10, <1>11

\* Rows of the compact view stand for different hits.
LEMMA CompactRowsAreHits ==
  ASSUME NEW c \in Clients, Search(c), DomainsOf(c) \subseteq DOMAIN read[c].tiers, NEW S, S \subseteq CompactRows(c)
  PROVE  /\ Cardinality({HitOf(c, s.id) : s \in S}) = Cardinality(S) /\ IsFiniteSet({HitOf(c, s.id) : s \in S})
         /\ {HitOf(c, s.id) : s \in S} \subseteq RowsOf(Found(c))
<1>1. /\ IsFiniteSet(CompactRows(c))
      /\ \A s, u \in CompactRows(c) : s.id = u.id => s = u
  BY CompactIsRanked
<1>2. \A s \in CompactRows(c) : HitOf(c, s.id).id = s.id /\ HitOf(c, s.id) \in RowsOf(Found(c))
  BY CompactRowsShowHits DEF IsShown
<1> DEFINE e == [s \in S |-> HitOf(c, s.id)]
<1>3. S \subseteq DOMAIN e /\ \A s, u \in S : e[s] = e[u] => s = u
  BY <1>1, <1>2
<1>4. IsFiniteSet(S)
  BY <1>1, FS_Subset
<1>5. {e[s] : s \in S} = {HitOf(c, s.id) : s \in S}
  OBVIOUS
<1> HIDE DEF e
<1>6. IsFiniteSet({e[s] : s \in S}) /\ Cardinality({e[s] : s \in S}) = Cardinality(S)
  BY <1>3, <1>4, ImageIsAsLarge
<1> QED
  BY <1>2, <1>5, <1>6

\* A group with a better row for each place has the whole size.
LEMMA FilledIsFull ==
  ASSUME NEW c \in Clients, Search(c), NEW f, NEW score, Filled(f, c, score), NEW S, IsFiniteSet(S),
         \A i \in 1..asked[c].size : f[i] \in S
  PROVE  asked[c].size <= Cardinality(S)
<1> DEFINE D == 1..asked[c].size
           T == {f[i] : i \in D}
<1>1. asked[c].size \in Nat
  BY DEF Search
<1>2. IsFiniteSet(D) /\ Cardinality(D) = asked[c].size
  <2> DEFINE n == asked[c].size
  <2>1. n \in Nat
    BY <1>1
  <2> HIDE DEF n
  <2>2. IsFiniteSet(1..n) /\ Cardinality(1..n) = n
    BY <2>1, FS_Interval
  <2> QED
    BY <2>2 DEF n
<1>3. D \subseteq DOMAIN f /\ \A i, j \in D : f[i] = f[j] => i = j
  BY DEF Filled
<1>4. T \subseteq S
  OBVIOUS
<1> HIDE DEF D
<1>5. Cardinality(T) = Cardinality(D)
  BY <1>2, <1>3, ImageIsAsLarge
<1> HIDE DEF T
<1>6. Cardinality(T) <= Cardinality(S)
  BY <1>4, FS_Subset
<1> QED
  BY <1>2, <1>5, <1>6

\* The compact view is as long as it can be.
LEMMA CompactIsFull ==
  ASSUME NEW c \in Clients, Search(c), DomainsOf(c) \subseteq DOMAIN read[c].tiers,
         NEW n, n = Cardinality(CompactRows(c)), NEW k, k = Cardinality(RowsOf(Found(c)))
  PROVE  n = k \/ (asked[c].size <= n /\ asked[c].size <= k)
<1> DEFINE all == RowsOf(Found(c))
           rows == CompactRows(c)
           shown == {HitOf(c, s.id) : s \in rows}
           size == asked[c].size
<1>1. Cardinality(shown) = n /\ shown \subseteq all
  BY CompactRowsAreHits
<1>2. CASE \E h \in all : \E f : Filled(f, c, Fourth(Finite(h.score)))
  <2>0. PICK h \in all : \E f : Filled(f, c, Fourth(Finite(h.score)))
    BY <1>2
  <2>1. PICK f : Filled(f, c, Fourth(Finite(h.score)))
    BY <2>0
  <2>2. IsFiniteSet(rows) /\ \A i \in 1..size : f[i] \in rows
    BY <2>1, CompactIsRanked DEF Filled
  <2>3. size <= n
    BY <2>1, <2>2, FilledIsFull
  <2>4. IsFiniteSet(all)
    BY HitsAreFinite
  <2> HIDE DEF shown, all
  <2>5. n <= Cardinality(all) /\ n \in Nat /\ Cardinality(all) \in Nat
    <3>1. IsFiniteSet(shown)
      BY <1>1, <2>4, FS_Subset
    <3>2. Cardinality(shown) <= Cardinality(all)
      BY <1>1, <2>4, FS_Subset
    <3> QED
      BY <1>1, <2>4, <3>1, <3>2, FS_CardinalityType
  <2>6. size \in Nat /\ k = Cardinality(all)
    BY DEF Search, all
  <2> QED
    BY <2>3, <2>5, <2>6
<1>3. CASE ~(\E h \in all : \E f : Filled(f, c, Fourth(Finite(h.score))))
  <2>1. ASSUME NEW h \in all PROVE h \in shown
    <3>1. PICK s \in rows : s.id = h.id
      BY <1>3, ShownOrCutOff
    <3>2. HitOf(c, s.id) = h
      BY <3>1, HitOfIsHit
    <3> QED
      BY <3>2
  <2>2. shown = all
    BY <1>1, <2>1
  <2> QED
    BY <1>1, <2>2
<1> QED
  BY <1>2, <1>3

\* What it leaves out is hardly better than what it shows.
LEMMA CompactIsTop ==
  ASSUME NEW c \in Clients, Search(c), DomainsOf(c) \subseteq DOMAIN read[c].tiers,
         NEW rows, rows = Compact(GroupsOf(c), asked[c].size), NEW i \in DOMAIN rows
  PROVE  Cardinality({h \in RowsOf(Found(c)) : Fourth(Finite(h.score)) > rows[i].score + 1000}) < i
<1> DEFINE all == CompactRows(c)
           R == ByScore(all)
           list == Ranked(all, R)
           better(h) == Fourth(Finite(h.score)) > rows[i].score + 1000
           B == {h \in RowsOf(Found(c)) : better(h)}
           A == Before(rows[i], all, R)
           size == asked[c].size
<1>1. i \in 1..Cardinality(all) /\ Cardinality(all) \in Nat /\ i <= size /\ rows[i] = list[i]
  BY CompactIsPrefix
<1>2. IsFiniteSet(all) /\ Orders(R, all) /\ \A s \in all : s.score \in Nat
  BY CompactIsRanked
<1> HIDE DEF all
<1>3. rows[i] \in all /\ Cardinality(A) = i - 1
  BY <1>1, <1>2, RankedPlace
<1>4. IsFiniteSet(A) /\ A \subseteq all
  <2>1. A \subseteq all
    BY DEF Before
  <2> HIDE DEF A
  <2> QED
    BY <1>2, <2>1, FS_Subset
<1>5. \A s \in all : s.score > rows[i].score => s \in A
  BY <1>3 DEF Before, ByScore, Order
<1>6. rows[i].score \in Nat /\ size \in Nat /\ i \in Nat
  BY <1>1, <1>2, <1>3 DEF Search
<1> HIDE DEF A, R
<1>7. ASSUME NEW h \in B, NEW f, Filled(f, c, Fourth(Finite(h.score))) PROVE FALSE
  <2>1. ASSUME NEW j \in 1..size PROVE f[j] \in A
    <3>1. f[j] \in all /\ f[j].score + 1000 >= Fourth(Finite(h.score))
      BY <1>7 DEF Filled, all
    <3>2. Fourth(Finite(h.score)) > rows[i].score + 1000 /\ Fourth(Finite(h.score)) \in Nat
      <4>1. Finite(h.score) \in Nat
        <5>1. h \in HitRows
          BY HitOfIsHit
        <5> QED
          BY <5>1, ShapeOfRow DEF ShapedRow
      <4> QED
        BY <4>1, FourthIsNat
    <3> QED
      BY <1>2, <1>5, <1>6, <3>1, <3>2
  <2>2. size <= Cardinality(A)
    BY <1>4, <1>7, <2>1, FilledIsFull
  <2> QED
    BY <1>1, <1>3, <1>6, <2>2
<1> DEFINE S == {s \in A : HitOf(c, s.id) \in B}
           shown == {HitOf(c, s.id) : s \in S}
<1>8. ASSUME NEW h \in B PROVE h \in shown
  <2>1. PICK s \in all : s.id = h.id /\ s.score = Fourth(Finite(h.score))
    BY <1>7, ShownOrCutOff DEF all
  <2>2. HitOf(c, s.id) = h
    BY <2>1, HitOfIsHit
  <2>3. s.score > rows[i].score
    <3>1. s.score > rows[i].score + 1000 /\ s.score \in Nat
      BY <1>2, <2>1
    <3> QED
      BY <1>6, <3>1
  <2> QED
    BY <1>5, <2>2, <2>3
<1>9. shown = B
  BY <1>8
<1>10. S \subseteq A
  OBVIOUS
<1>11. Cardinality(shown) = Cardinality(S)
  <2>1. S \subseteq CompactRows(c)
    BY <1>4, <1>10 DEF all
  <2> HIDE DEF S
  <2> QED
    BY <2>1, CompactRowsAreHits
<1> HIDE DEF S, shown, B
<1>12. Cardinality(S) <= Cardinality(A)
  BY <1>4, <1>10, FS_Subset
<1>13. Cardinality(S) \in Nat
  BY <1>4, <1>10, FS_Subset, FS_CardinalityType
<1> QED
  BY <1>3, <1>6, <1>9, <1>11, <1>12, <1>13 DEF B

\* A group is the best of its candidates.
LEMMA GroupsAreTop ==
  ASSUME NEW c \in Clients, Search(c), NEW m \in DOMAIN hits[c], NEW group, group = GroupsOf(c)[m]
  PROVE  /\ Len(group) = IF Len(hits[c][m]) < asked[c].size THEN Len(hits[c][m]) ELSE asked[c].size
         /\ \A i \in DOMAIN group :
              Cardinality({h \in ToSet(Found(c)[m]) :
                \/ Sixth(Finite(h.score)) > Sixth(group[i].score)
                \/ Sixth(Finite(h.score)) = Sixth(group[i].score) /\ h.id < group[i].id}) = i - 1
<1> DEFINE rows == Found(c)[m]
           size == asked[c].size
           k == Len(hits[c][m])
           pool == Pool(asked[c])
<1>1. PICK r : ShowsBest(group, rows, size, r)
  BY GroupsShowBest
<1>2. rows \in Seq(HitRows) /\ OwnIds(rows) /\ Len(rows) = IF k < pool THEN k ELSE pool
  BY DEF Search, OwnIds
<1>3. size \in Nat /\ pool \in Nat /\ size <= pool /\ k \in Nat
  <2>1. hits[c][m] \in Seq(HitRows)
    BY HitsAssumption DEF Search
  <2> QED
    BY <2>1 DEF Search
<1> HIDE DEF rows, size, k, pool
<1>4. Len(group) = IF k < size THEN k ELSE size
  BY <1>1, <1>2, <1>3 DEF ShowsBest
<1>5. ASSUME NEW i \in DOMAIN group, NEW id, id = group[i].id, NEW score, score = group[i].score
      PROVE  Cardinality({h \in ToSet(rows) : \/ Sixth(Finite(h.score)) > Sixth(score)
                                              \/ Sixth(Finite(h.score)) = Sixth(score) /\ h.id < id}) = i - 1
  <2>1. Places(r, rows) /\ i \in DOMAIN rows /\ id = rows[r[i]].id /\ score = Finite(rows[r[i]].score)
    BY <1>1, <1>5 DEF ShowsBest
  <2> QED
    BY <1>2, <2>1, GroupIsTop
<1> QED
  BY <1>4, <1>5 DEF rows, size, k

\* Each group is the best of what the engine has for its modality, and the
\* compact view the best of all of them but for one unit of its last digit,
\* for any hits, scores and limits (search_group.py:83-95, 127-164,
\* routes_search.py:226-263, 316).
THEOREM AnswersAreTopHolds == Spec => []AnswersAreTop
<1>1. IInv /\ AnswerInv => AnswersAreTop
  <2> SUFFICES ASSUME IInv, AnswerInv, NEW c \in Clients, Answered(c, "search")
               PROVE  LET ask   == asked[c]
                          rows  == answer[c].results
                          score(h) == Finite(h.score)
                          best(k)  == IF k < ask.size THEN k ELSE ask.size
                      IN
                      IF ask.compact
                        THEN LET all == RowsOf(Found(c)) IN
                             /\ Len(rows) = best(Cardinality(all))
                             /\ \A i \in DOMAIN rows :
                                  /\ Cardinality({h \in all : Fourth(score(h)) > rows[i].score + 1000}) < i
                                  /\ \A j \in 1..(i - 1) :
                                       rows[j].score > rows[i].score \/ (rows[j].score = rows[i].score /\ rows[j].id < rows[i].id)
                        ELSE \A m \in DOMAIN hits[c] :
                               /\ Len(rows[m]) = best(Len(hits[c][m]))
                               /\ \A i \in DOMAIN rows[m] :
                                    Cardinality({h \in ToSet(Found(c)[m]) :
                                      \/ Sixth(score(h)) > Sixth(rows[m][i].score)
                                      \/ Sixth(score(h)) = Sixth(rows[m][i].score) /\ h.id < rows[m][i].id}) = i - 1
    BY DEF AnswersAreTop
  <2> DEFINE ask == asked[c]
             rows == answer[c].results
  <2>1. phase[c] # "idle"
    BY DEF IInv, StageInv, Answered, NoStatus
  <2>2. Search(c) /\ DomainsOf(c) \subseteq DOMAIN read[c].tiers
        /\ answer[c] = SearchAnswer(asked[c], GroupedRaw(c), read[c].tiers, principal[c].clearance)
    BY <2>1, SearchIsOne DEF AnswerInv, SearchInv
  <2>3. ASSUME ask.compact
        PROVE  /\ Len(rows) = LET k == Cardinality(RowsOf(Found(c))) IN IF k < ask.size THEN k ELSE ask.size
               /\ \A i \in DOMAIN rows :
                    /\ Cardinality({h \in RowsOf(Found(c)) : Fourth(Finite(h.score)) > rows[i].score + 1000}) < i
                    /\ \A j \in 1..(i - 1) :
                         rows[j].score > rows[i].score \/ (rows[j].score = rows[i].score /\ rows[j].id < rows[i].id)
    <3> DEFINE n == Cardinality(CompactRows(c))
               k == Cardinality(RowsOf(Found(c)))
               list == Ranked(CompactRows(c), ByScore(CompactRows(c)))
               size == ask.size
    <3>1. rows = Compact(GroupsOf(c), asked[c].size)
      BY <2>2, <2>3 DEF SearchAnswer, GroupsOf
    <3>2. /\ Ranks(list, CompactRows(c), ByScore(CompactRows(c))) /\ n \in Nat
          /\ Len(rows) = (IF n < size THEN n ELSE size) /\ DOMAIN rows = 1..Len(rows)
          /\ \A i \in DOMAIN rows : i \in 1..n /\ rows[i] = list[i]
      BY <2>2, <3>1, CompactIsPrefix
    <3>3. n = k \/ (size <= n /\ size <= k)
      BY <2>2, CompactIsFull
    <3>4. k \in Nat /\ size \in Nat
      BY <2>2, HitsAreFinite, FS_CardinalityType DEF Search
    <3>5. \A i \in DOMAIN rows :
            Cardinality({h \in RowsOf(Found(c)) : Fourth(Finite(h.score)) > rows[i].score + 1000}) < i
      BY <2>2, <3>1, CompactIsTop
    <3> HIDE DEF n, k, size, list
    <3>6. Len(rows) = IF k < size THEN k ELSE size
      BY <3>2, <3>3, <3>4
    <3>7. ASSUME NEW i \in DOMAIN rows, NEW j \in 1..(i - 1)
          PROVE  rows[j].score > rows[i].score \/ (rows[j].score = rows[i].score /\ rows[j].id < rows[i].id)
      <4>1. j \in DOMAIN rows /\ j < i /\ j \in 1..n /\ i \in 1..n
        <5>1. Len(rows) \in Nat
          BY <3>2, <3>4
        <5>2. j \in DOMAIN rows /\ j < i
          BY <3>2, <5>1
        <5> QED
          BY <3>2, <5>2
      <4>2. <<list[j], list[i]>> \in ByScore(CompactRows(c))
        BY <3>2, <4>1 DEF Ranks, n
      <4>3. <<rows[j], rows[i]>> \in ByScore(CompactRows(c))
        BY <3>2, <4>1, <4>2
      <4> QED
        BY <4>3 DEF ByScore, Order
    <3> QED
      BY <3>5, <3>6, <3>7 DEF k, size
  <2>4. ASSUME ~ask.compact, NEW m \in DOMAIN hits[c], NEW group, group = rows[m]
        PROVE  /\ Len(group) = IF Len(hits[c][m]) < ask.size THEN Len(hits[c][m]) ELSE ask.size
               /\ \A i \in DOMAIN group :
                    Cardinality({h \in ToSet(Found(c)[m]) :
                      \/ Sixth(Finite(h.score)) > Sixth(group[i].score)
                      \/ Sixth(Finite(h.score)) = Sixth(group[i].score) /\ h.id < group[i].id}) = i - 1
    <3>1. rows = GroupsOf(c)
      BY <2>2, <2>4 DEF SearchAnswer, GroupsOf
    <3> QED
      BY <2>2, <2>4, <3>1, GroupsAreTop
  <2>5. CASE ask.compact
    BY <2>3, <2>5
  <2>6. CASE ~ask.compact
    BY <2>4, <2>6
  <2> QED
    BY <2>5, <2>6
<1> QED
  BY <1>1, Invariance, AnswersInvariant, PTL

-----------------------------------------------------------------------------
(* Facets.                                                                 *)

\* Two sequences with the same elements at the same places are the same.
LEMMA SameSequence ==
  ASSUME NEW T, NEW s \in Seq(T), NEW t \in Seq(T), Len(s) = Len(t), \A i \in 1..Len(s) : s[i] = t[i]
  PROVE  s = t
<1>1. DOMAIN s = 1..Len(s) /\ DOMAIN t = 1..Len(s)
  OBVIOUS
<1>2. s = [i \in 1..Len(s) |-> s[i]] /\ t = [i \in 1..Len(s) |-> t[i]]
  BY <1>1
<1> QED
  BY <1>2

Letters == STRING \cup {">"}

\* A topic is made of letters.
LEMMA TextIsLetters == Seq(STRING) \subseteq Seq(Letters)
BY DEF Letters

\* A sequence of one letter.
LEMMA OneLetter ==
  ASSUME NEW T, NEW x \in T
  PROVE  <<x>> \in Seq(T) /\ Len(<<x>>) = 1 /\ <<x>>[1] = x
OBVIOUS

\* The separator alone.
LEMMA OneStep == <<">">> \in Seq(Letters) /\ Len(<<">">>) = 1 /\ <<">">>[1] = ">"
<1>1. ">" \in Letters
  BY DEF Letters
<1> QED
  BY <1>1, OneLetter

\* A pair is split at its first ">", and not at all if it has none.
LEMMA SplitIsFirst ==
  ASSUME NEW p \in Seq(Letters)
  PROVE  /\ (\A i \in 1..Len(p) : p[i] # ">") => Split(p) = 0
         /\ Split(p) # 0 => Split(p) \in 1..Len(p) /\ p[Split(p)] = ">"
         /\ \A k \in 1..Len(p) : p[k] = ">" /\ (\A i \in 1..(k - 1) : p[i] # ">") => Split(p) = k
<1> DEFINE I == {i \in 1..Len(p) : p[i] = ">"}
<1>1. Split(p) = IF I # {} THEN Min(I) ELSE 0
  BY DEF Split, SelectInSeq
<1>2. Len(p) \in Nat /\ I \subseteq Nat
  OBVIOUS
<1>3. ASSUME I # {} PROVE Min(I) \in I /\ \A y \in I : Min(I) <= y
  <2> HIDE DEF I
  <2>1. \E x \in I : \A y \in I : x <= y
    BY <1>2, <1>3, HasLeast
  <2> QED
    BY <2>1 DEF Min
<1>4. ASSUME NEW k \in 1..Len(p), p[k] = ">", \A i \in 1..(k - 1) : p[i] # ">" PROVE Split(p) = k
  <2>1. k \in I
    BY <1>4
  <2>2. Min(I) \in I /\ Min(I) <= k
    BY <1>3, <2>1
  <2>3. Min(I) \in 1..Len(p) /\ p[Min(I)] = ">"
    BY <2>2
  <2>4. ~(Min(I) < k)
    BY <1>2, <1>4, <2>3
  <2> QED
    BY <1>1, <1>2, <2>1, <2>2, <2>3, <2>4
<1>5. (\A i \in 1..Len(p) : p[i] # ">") => Split(p) = 0
  BY <1>1
<1>6. Split(p) # 0 => Split(p) \in 1..Len(p) /\ p[Split(p)] = ">"
  BY <1>1, <1>3
<1> QED
  BY <1>4, <1>5, <1>6

\* A topic has no ">".
IsTopic(t) == t \in Seq(Letters) /\ t # <<>> /\ \A k \in DOMAIN t : t[k] # ">"

\* A topic alone is its own parent and has no child.
LEMMA ParentOfTopic ==
  ASSUME NEW t, IsTopic(t)
  PROVE  Split(t) = 0 /\ Parent(t) = t /\ Child(t) = <<>>
<1>1. Split(t) = 0
  BY SplitIsFirst DEF IsTopic
<1> QED
  BY <1>1 DEF Parent, Child

\* What begins with a topic and a ">" is split there.
LEMMA ParentOfPair ==
  ASSUME NEW t, IsTopic(t), NEW p \in Seq(Letters), Len(p) > Len(t),
         \A i \in 1..Len(t) : p[i] = t[i], p[Len(t) + 1] = ">"
  PROVE  Split(p) = Len(t) + 1 /\ Parent(p) = t
<1> DEFINE k == Len(t) + 1
<1>1. t \in Seq(Letters) /\ Len(t) \in Nat /\ \A i \in 1..Len(t) : t[i] # ">"
  BY DEF IsTopic
<1>2. k \in 1..Len(p) /\ p[k] = ">" /\ \A i \in 1..(k - 1) : p[i] # ">"
  BY <1>1
<1>3. Split(p) = k
  <2> HIDE DEF k
  <2> QED
    BY <1>2, SplitIsFirst
<1>4. Parent(p) = SubSeq(p, 1, Len(t))
  BY <1>1, <1>3 DEF Parent
<1>5. SubSeq(p, 1, Len(t)) \in Seq(Letters) /\ Len(SubSeq(p, 1, Len(t))) = Len(t)
      /\ \A i \in 1..Len(t) : SubSeq(p, 1, Len(t))[i] = p[i]
  BY <1>1
<1>6. SubSeq(p, 1, Len(t)) = t
  BY <1>1, <1>5, SameSequence
<1> QED
  BY <1>3, <1>4, <1>6

\* The parent of a pair of a topic is the topic.
LEMMA ParentOfPairOf ==
  ASSUME NEW t, IsTopic(t), NEW p \in Seq(Letters), PairOf(t, p)
  PROVE  Parent(p) = t /\ p # <<>>
<1>1. t \in Seq(Letters) /\ Len(t) \in Nat /\ t # <<>> /\ Len(p) \in Nat
  BY DEF IsTopic
<1>2. CASE p = t
  BY <1>1, <1>2, ParentOfTopic
<1>3. CASE Len(p) > Len(t) /\ SubSeq(p, 1, Len(t) + 1) = Append(t, ">")
  <2> DEFINE n == Len(t) + 1
  <2>1. \A i \in 1..n : SubSeq(p, 1, n)[i] = p[i]
    BY <1>1, <1>3
  <2>2. \A i \in 1..Len(t) : Append(t, ">")[i] = t[i]
    BY <1>1
  <2>3. Append(t, ">")[n] = ">"
    BY <1>1
  <2>4. (\A i \in 1..Len(t) : p[i] = t[i]) /\ p[n] = ">"
    <3>1. \A i \in 1..n : p[i] = Append(t, ">")[i]
      BY <1>3, <2>1
    <3>2. n \in 1..n /\ \A i \in 1..Len(t) : i \in 1..n
      BY <1>1
    <3> QED
      BY <2>2, <2>3, <3>1, <3>2
  <2>5. Parent(p) = t
    BY <1>3, <2>4, ParentOfPair
  <2> QED
    BY <1>1, <1>3, <2>5
<1> QED
  BY <1>2, <1>3 DEF PairOf

\* A pair is its topic, a ">" and its subtopic.
LEMMA PairIsJoined ==
  ASSUME NEW p \in Seq(Letters), Child(p) # <<>>
  PROVE  p = Parent(p) \o <<">">> \o Child(p)
<1> DEFINE k == Split(p)
<1>1. k \in 1..Len(p) /\ p[k] = ">" /\ k # 0 /\ Len(p) \in Nat
  BY SplitIsFirst DEF Child
<1>2. Parent(p) = SubSeq(p, 1, k - 1) /\ Child(p) = SubSeq(p, k + 1, Len(p))
  BY <1>1 DEF Parent, Child
<1> DEFINE t == SubSeq(p, 1, k - 1)
           s == SubSeq(p, k + 1, Len(p))
           u == t \o <<">">>
           q == u \o s
           n == Len(p)
<1> HIDE DEF k
<1>3. /\ t \in Seq(Letters) /\ Len(t) = k - 1 /\ \A i \in 1..(k - 1) : t[i] = p[i]
      /\ s \in Seq(Letters) /\ Len(s) = n - k /\ \A i \in 1..(n - k) : s[i] = p[k + i]
  BY <1>1
<1> HIDE DEF t, s
<1>4. /\ u \in Seq(Letters) /\ Len(u) = k /\ u[k] = ">" /\ \A i \in 1..(k - 1) : u[i] = p[i]
  <2>1. <<">">> \in Seq(Letters) /\ Len(<<">">>) = 1 /\ <<">">>[1] = ">"
    BY OneStep
  <2>2. /\ u \in Seq(Letters) /\ Len(u) = (k - 1) + 1
        /\ \A i \in 1..(k - 1) : u[i] = t[i]
        /\ \A i \in 1..1 : u[(k - 1) + i] = <<">">>[i]
    BY <1>3, <2>1, Concatenated
  <2>3. (k - 1) + 1 = k /\ 1 \in 1..1
    BY <1>1
  <2> QED
    BY <1>3, <2>1, <2>2, <2>3
<1> HIDE DEF u
<1>c. /\ q \in Seq(Letters) /\ Len(q) = k + (n - k)
      /\ \A i \in 1..k : q[i] = u[i]
      /\ \A i \in 1..(n - k) : q[k + i] = s[i]
  <2>0. u \in Seq(Letters) /\ s \in Seq(Letters) /\ q = u \o s
    BY <1>3, <1>4
  <2> HIDE DEF q, n
  <2>1. /\ q \in Seq(Letters) /\ Len(q) = Len(u) + Len(s)
        /\ \A i \in 1..Len(u) : q[i] = u[i]
        /\ \A i \in 1..Len(s) : q[Len(u) + i] = s[i]
    BY <2>0, Concatenated
  <2>2. Len(u) = k /\ Len(s) = n - k
    BY <1>3, <1>4
  <2> QED
    BY <2>1, <2>2
<1> HIDE DEF q
<1>5. q \in Seq(Letters) /\ Len(q) = n
  BY <1>1, <1>c
<1>6. ASSUME NEW i \in 1..n PROVE q[i] = p[i]
  <2>1. CASE i <= k
    <3>1. q[i] = u[i]
      BY <1>1, <1>c, <2>1
    <3>2. i = k \/ i \in 1..(k - 1)
      BY <1>1, <2>1
    <3> QED
      BY <1>1, <1>4, <3>1, <3>2
  <2>2. CASE i > k
    <3>1. i - k \in 1..(n - k) /\ k + (i - k) = i
      BY <1>1, <2>2
    <3>2. q[i] = s[i - k] /\ s[i - k] = p[i]
      BY <1>3, <1>c, <3>1
    <3> QED
      BY <3>1, <3>2
  <2> QED
    BY <1>1, <2>1, <2>2
<1>7. q = p
  BY <1>5, <1>6, SameSequence
<1> QED
  BY <1>2, <1>7 DEF q, u, t, s

\* And what is joined so is split so.
LEMMA JoinedIsSplit ==
  ASSUME NEW t, IsTopic(t), NEW s \in Seq(Letters), NEW p \in Seq(Letters), p = t \o <<">">> \o s
  PROVE  Parent(p) = t /\ Child(p) = s
<1> DEFINE u == t \o <<">">>
           n == Len(t)
<1>1. t \in Seq(Letters) /\ n \in Nat /\ Len(s) \in Nat
  BY DEF IsTopic
<1>2. u \in Seq(Letters) /\ Len(u) = n + 1 /\ u[n + 1] = ">" /\ \A i \in 1..n : u[i] = t[i]
  BY <1>1
<1>3. p = u \o s
  OBVIOUS
<1> HIDE DEF u
<1>4. /\ Len(p) = n + 1 + Len(s) /\ \A i \in 1..(n + 1) : p[i] = u[i]
      /\ \A i \in 1..Len(s) : p[n + 1 + i] = s[i]
  BY <1>1, <1>2, <1>3
<1>5. Split(p) = n + 1 /\ Parent(p) = t
  <2>1. Len(p) > Len(t) /\ (\A i \in 1..Len(t) : p[i] = t[i]) /\ p[Len(t) + 1] = ">"
    BY <1>1, <1>2, <1>4
  <2> QED
    BY <2>1, ParentOfPair
<1>6. Child(p) = SubSeq(p, n + 2, Len(p))
  BY <1>1, <1>5 DEF Child
<1> DEFINE v == SubSeq(p, n + 2, Len(p))
<1>7. v \in Seq(Letters) /\ Len(v) = Len(s) /\ \A i \in 1..Len(s) : v[i] = s[i]
  BY <1>1, <1>4
<1> HIDE DEF v
<1>8. v = s
  BY <1>7, SameSequence
<1> QED
  BY <1>5, <1>6, <1>8 DEF v

\* The pairs a row is counted by are those of its topics.
Described(row) ==
  /\ \A t \in row.topics : IsTopic(t)
  /\ Pairs(row) \subseteq Seq(Letters)
  /\ \A p \in Pairs(row) : Parent(p) \in row.topics
  /\ \A t \in row.topics : \E p \in Pairs(row) : Parent(p) = t
  /\ \A t, s : IsTopic(t) /\ s \in Seq(Letters) /\ s # <<>> =>
       ((\E p \in Pairs(row) : Parent(p) = t /\ Child(p) = s) <=> t \o <<">">> \o s \in row.pairs)

\* The pairs a row is counted under are those of its topics.
LEMMA RowIsDescribed ==
  ASSUME NEW row, row.topics \in SUBSET Seq(STRING), row.pairs \in SUBSET Seq(STRING),
         \A t \in row.topics : t # <<>> /\ \A k \in DOMAIN t : t[k] # ">",
         row.pairs # {} =>
           /\ \A p \in row.pairs : \E t \in row.topics : PairOf(t, p)
           /\ \A t \in row.topics : \E p \in row.pairs : PairOf(t, p)
  PROVE  Described(row)
<1> DEFINE T == row.topics
           P == row.pairs
<1>1. /\ T \subseteq Seq(Letters) /\ P \subseteq Seq(Letters) /\ \A t \in T : IsTopic(t) /\ t # <<>>
      /\ P # {} => /\ \A p \in P : \E t \in T : PairOf(t, p)
                  /\ \A t \in T : \E p \in P : PairOf(t, p)
  BY TextIsLetters DEF IsTopic
<1>2. Pairs(row) = IF P \ {<<>>} # {} THEN P \ {<<>>} ELSE T \ {<<>>}
  BY DEF Pairs
<1> DEFINE Q == Pairs(row)
<1> HIDE DEF T, P, Q
<1>3. CASE P = {}
  <2>1. Q = T
    BY <1>1, <1>2, <1>3 DEF Q
  <2>2. \A t \in T : Parent(t) = t /\ Child(t) = <<>>
    BY <1>1, ParentOfTopic
  <2> QED
    BY <1>1, <1>3, <2>1, <2>2 DEF Described, T, P, Q
<1>4. CASE P # {}
  <2>1. ASSUME NEW p \in P PROVE p # <<>> /\ Parent(p) \in T
    <3>1. PICK t \in T : PairOf(t, p)
      BY <1>1, <1>4
    <3> QED
      BY <1>1, <3>1, ParentOfPairOf
  <2>2. Q = P
    BY <1>2, <1>4, <2>1 DEF Q
  <2>3. ASSUME NEW t \in T PROVE \E p \in P : Parent(p) = t
    <3>1. PICK p \in P : PairOf(t, p)
      BY <1>1, <1>4
    <3> QED
      BY <1>1, <3>1, ParentOfPairOf
  <2>4. ASSUME NEW t, NEW s, IsTopic(t), s \in Seq(Letters), s # <<>>
        PROVE  (\E p \in P : Parent(p) = t /\ Child(p) = s) <=> t \o <<">">> \o s \in P
    <3>1. ASSUME NEW p \in P, Parent(p) = t, Child(p) = s PROVE t \o <<">">> \o s \in P
      BY <1>1, <2>4, <3>1, PairIsJoined
    <3>2. ASSUME t \o <<">">> \o s \in P PROVE \E p \in P : Parent(p) = t /\ Child(p) = s
      BY <1>1, <2>4, <3>2, JoinedIsSplit
    <3> QED
      BY <3>1, <3>2
  <2> QED
    BY <1>1, <2>1, <2>2, <2>3, <2>4 DEF Described, T, P, Q
<1> QED
  BY <1>3, <1>4

\* A subtopic is made of letters.
LEMMA ChildIsText ==
  ASSUME NEW p \in Seq(Letters)
  PROVE  Child(p) \in Seq(Letters)
<1>1. CASE Split(p) = 0
  BY <1>1 DEF Child
<1>2. CASE Split(p) # 0
  <2>1. Split(p) \in 1..Len(p) /\ Len(p) \in Nat
    BY <1>2, SplitIsFirst
  <2> DEFINE k == Split(p)
  <2> HIDE DEF k
  <2>2. SubSeq(p, k + 1, Len(p)) \in Seq(Letters)
    BY <2>1 DEF k
  <2> QED
    BY <1>2, <2>2 DEF Child, k
<1> QED
  BY <1>1, <1>2

\* The rows of an answer are described as the engine has them.
LEMMA GroupsAreDescribed ==
  ASSUME NEW c \in Clients, Search(c), DomainsOf(c) \subseteq DOMAIN read[c].tiers, NEW row \in RowsOf(GroupsOf(c))
  PROVE  Described(row)
<1>1. PICK h : IsShown(row, h, c) /\ row.topics = h.topics /\ row.pairs = h.pairs /\ h \in HitRows
  BY GroupsShowHits
<1>2. PICK m \in DOMAIN hits[c] : \E i \in DOMAIN Found(c)[m] : h = Found(c)[m][i]
  BY <1>1, RowsOfGroups DEF IsShown, Search
<1>3. PICK i \in DOMAIN hits[c][m] : h = hits[c][m][i]
  BY <1>2 DEF Search
<1>4. /\ \A t \in h.topics : t # <<>> /\ \A k \in DOMAIN t : t[k] # ">"
      /\ h.pairs # {} =>
           /\ \A p \in h.pairs : \E t \in h.topics : PairOf(t, p)
           /\ \A t \in h.topics : \E p \in h.pairs : PairOf(t, p)
  BY <1>3, TopicsAssumption DEF Search
<1>5. h.topics \in SUBSET Seq(STRING) /\ h.pairs \in SUBSET Seq(STRING)
  BY <1>1 DEF HitRows
<1> QED
  BY <1>1, <1>4, <1>5, RowIsDescribed

\* A row is counted by its id.
LEMMA RowsAreCounted ==
  ASSUME NEW c \in Clients, Search(c), DomainsOf(c) \subseteq DOMAIN read[c].tiers, NEW S, S \subseteq RowsOf(GroupsOf(c))
  PROVE  Cardinality({row.id : row \in S}) = Cardinality(S)
<1> DEFINE e == [row \in S |-> row.id]
<1>1. S \subseteq DOMAIN e /\ \A x, y \in S : e[x] = e[y] => x = y
  BY GroupsHaveOwnIds
<1>2. IsFiniteSet(S)
  BY GroupsAreFinite, FS_Subset
<1>3. {e[row] : row \in S} = {row.id : row \in S}
  OBVIOUS
<1> HIDE DEF e
<1>4. Cardinality({e[row] : row \in S}) = Cardinality(S)
  BY <1>1, <1>2, ImageIsAsLarge
<1> QED
  BY <1>3, <1>4

\* Each topic of the facet promises as many rows as have it, each subtopic as
\* many as have the pair, and no topic is missing, for any hits and topics
\* (routes_search.py:91-135, search_group.py:117-120).
THEOREM FacetsMatchRowsHolds == Spec => []FacetsMatchRows
<1>1. IInv /\ AnswerInv => FacetsMatchRows
  <2> SUFFICES ASSUME IInv, AnswerInv, NEW c \in Clients, Answered(c, "search"), ~asked[c].compact
               PROVE  LET rows  == Shown(c)
                          facet == answer[c].facet
                      IN
                      /\ DOMAIN facet = UNION {row.topics : row \in rows}
                      /\ \A t \in DOMAIN facet :
                           /\ facet[t].count = Cardinality({row \in rows : t \in row.topics})
                           /\ \A s \in DOMAIN facet[t].subs :
                                facet[t].subs[s] = Cardinality({row \in rows : (t \o <<">">> \o s) \in row.pairs})
    BY DEF FacetsMatchRows
  <2> DEFINE groups == GroupsOf(c)
             rows   == RowsOf(groups)
             facet  == Facet(groups)
             all    == UNION {Pairs(row) : row \in rows}
             topics == {Parent(p) : p \in all} \ {<<>>}
             subs(t) == {Child(p) : p \in {q \in all : Parent(q) = t}} \ {<<>>}
  <2>1. phase[c] # "idle"
    BY DEF IInv, StageInv, Answered, NoStatus
  <2>2. Search(c) /\ DomainsOf(c) \subseteq DOMAIN read[c].tiers
        /\ answer[c] = SearchAnswer(asked[c], GroupedRaw(c), read[c].tiers, principal[c].clearance)
    BY <2>1, SearchIsOne DEF AnswerInv, SearchInv
  <2>3. answer[c].facet = facet /\ Shown(c) = rows
    BY <2>2 DEF SearchAnswer, GroupsOf, Shown
  <2>4. facet = [t \in topics |-> [count |-> Cardinality(AssetsWith(groups, t, <<>>)),
                                   subs |-> [s \in subs(t) |-> Cardinality(AssetsWith(groups, t, s))]]]
    BY DEF Facet
  <2>5. \A row \in rows : Described(row)
    BY <2>2, GroupsAreDescribed
  <2>6. \A S : S \subseteq rows => Cardinality({row.id : row \in S}) = Cardinality(S)
    BY <2>2, RowsAreCounted
  <2>7. \A t, s : AssetsWith(groups, t, s) =
          {row.id : row \in {r \in rows : \E p \in Pairs(r) : Parent(p) = t /\ (s # <<>> => Child(p) = s)}}
    BY DEF AssetsWith
  <2> HIDE DEF groups, rows, facet
  <2>8. topics = UNION {row.topics : row \in rows}
    <3>1. ASSUME NEW t \in topics PROVE \E row \in rows : t \in row.topics
      <4>1. PICK row \in rows : \E p \in Pairs(row) : t = Parent(p)
        OBVIOUS
      <4> QED
        BY <2>5, <4>1 DEF Described
    <3>2. ASSUME NEW row \in rows, NEW t \in row.topics PROVE t \in topics
      <4>1. PICK p \in Pairs(row) : Parent(p) = t
        BY <2>5 DEF Described
      <4>2. t # <<>>
        BY <2>5 DEF Described, IsTopic
      <4> QED
        BY <4>1, <4>2
    <3> HIDE DEF topics
    <3> QED
      BY <3>1, <3>2
  <2>9. ASSUME NEW t \in topics
        PROVE  Cardinality(AssetsWith(groups, t, <<>>)) = Cardinality({row \in rows : t \in row.topics})
    <3> DEFINE S == {row \in rows : t \in row.topics}
    <3>1. {r \in rows : \E p \in Pairs(r) : Parent(p) = t /\ (<<>> # <<>> => Child(p) = <<>>)} = S
      BY <2>5 DEF Described
    <3>2. AssetsWith(groups, t, <<>>) = {row.id : row \in S}
      BY <2>7, <3>1
    <3>3. S \subseteq rows
      OBVIOUS
    <3> HIDE DEF S
    <3> QED
      BY <2>6, <3>2, <3>3 DEF S
  <2>10. ASSUME NEW t \in topics, NEW s \in subs(t)
         PROVE  Cardinality(AssetsWith(groups, t, s)) = Cardinality({row \in rows : t \o <<">">> \o s \in row.pairs})
    <3> DEFINE S == {row \in rows : t \o <<">">> \o s \in row.pairs}
    <3>1. IsTopic(t)
      <4>1. PICK row \in rows : t \in row.topics
        BY <2>8
      <4> QED
        BY <2>5, <4>1 DEF Described
    <3>2. s # <<>> /\ s \in Seq(Letters)
      <4>1. PICK row \in rows : \E p \in Pairs(row) : s = Child(p) /\ s # <<>>
        OBVIOUS
      <4> QED
        BY <2>5, <4>1, ChildIsText DEF Described
    <3>3. \A row \in rows : (\E p \in Pairs(row) : Parent(p) = t /\ Child(p) = s) <=> t \o <<">">> \o s \in row.pairs
      BY <2>5, <3>1, <3>2 DEF Described
    <3>4. {r \in rows : \E p \in Pairs(r) : Parent(p) = t /\ (s # <<>> => Child(p) = s)} = S
      BY <3>2, <3>3
    <3>5. AssetsWith(groups, t, s) = {row.id : row \in S}
      BY <2>7, <3>4
    <3>6. S \subseteq rows
      OBVIOUS
    <3> HIDE DEF S
    <3> QED
      BY <2>6, <3>5, <3>6 DEF S
  <2> HIDE DEF topics, subs, all
  <2>11. /\ DOMAIN facet = topics
         /\ \A t \in topics : /\ facet[t].count = Cardinality(AssetsWith(groups, t, <<>>))
                               /\ DOMAIN facet[t].subs = subs(t)
                               /\ \A s \in subs(t) : facet[t].subs[s] = Cardinality(AssetsWith(groups, t, s))
    BY <2>4
  <2> QED
    BY <2>3, <2>8, <2>9, <2>10, <2>11
<1> QED
  BY <1>1, Invariance, AnswersInvariant, PTL

=============================================================================
