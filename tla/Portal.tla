-------------------------------- MODULE Portal -------------------------------
(***************************************************************************)
(* Searches and asset details from the token to the answer and the name in *)
(* the access log: Auth, SearchGroup and AssetDetail composed with what    *)
(* changes while a request is being answered.  The clock goes on, so a     *)
(* token may expire; the tier of a field and the relations of an asset are *)
(* changed by other transactions between any two statements of a request;  *)
(* a transaction is run again from its start; the process is restarted     *)
(* with another environment, while the tokens stay with the clients.       *)
(*                                                                         *)
(* The search engine, the edges of an asset and the tiers come from the    *)
(* core package.  Threads, the connection and the row of the access log    *)
(* are in ServiceRuntime, other kinds of requests in the other modules.    *)
(***************************************************************************)
EXTENDS Auth, SearchGroup, AssetDetail

CONSTANTS
  Clients,      \* each has one request at a time
  Envs,         \* the environments the process is started with
  Held,         \* tokens that clients have from elsewhere
  Bodies,       \* the bodies of POST /auth/token
  Asks,         \* the requests clients make
  Domains,
  Hits,         \* what the search engine may find: rows for each modality
  AssetDomain,  \* the domain of the asset of the details
  Edges,        \* its relations, without a tier
  MinConf,      \* the confidence from which a relation is shown
  Folds,        \* whether the core package makes one row of a neighbour's edges
  MaxClock, MaxMinted, MaxChanges, MaxRetries, MaxRestarts  \* bounds

Levels == 0..2

ASSUME BoundsAssumption ==
  /\ MaxClock \in Nat /\ MaxMinted \in Nat /\ MaxChanges \in Nat
  /\ MaxRetries \in Nat /\ MaxRestarts \in Nat
ASSUME EnvsAssumption == Envs \subseteq Environments /\ Held \subseteq Tokens
ASSUME BodiesAssumption ==
  \A b \in Bodies : {b.user_id, b.username} \subseteq Users \cup {None, Blank}
ASSUME DomainsAssumption == AssetDomain \in Domains

ASSUME AsksAssumption ==
  Asks \subseteq
    [op : {"search"}, size : Nat \ {0}, pool : Nat \ {0}, compact : BOOLEAN,
     wrong : SUBSET {"modalities", "mode", "filter"}]
    \cup {[op |-> "detail"]}

HitRows ==
  [id : Nat, score : Nat \cup {Unreadable}, domain : Domains, summary : {"text", ""},
   topics : SUBSET Seq(STRING), pairs : SUBSET Seq(STRING)]

\* The engine finds an asset once, in its modality.
ASSUME HitsAssumption ==
  \A h \in Hits :
    /\ IsFiniteSet(DOMAIN h)
    /\ \A m \in DOMAIN h : h[m] \in Seq(HitRows)
    /\ \A m, n \in DOMAIN h : \A i \in DOMAIN h[m], j \in DOMAIN h[n] :
         h[m][i].id = h[n][j].id => m = n /\ i = j

\* A pair is a topic alone, or the topic, a ">" and a subtopic.
PairOf(topic, pair) ==
  \/ pair = topic
  \/ Len(pair) > Len(topic) /\ SubSeq(pair, 1, Len(topic) + 1) = Append(topic, ">")

\* A topic has a name, without a ">"; the pairs of a row, if it has some, are
\* those of its topics.
ASSUME TopicsAssumption ==
  \A h \in Hits : \A m \in DOMAIN h : \A i \in DOMAIN h[m] :
    LET row == h[m][i] IN
      /\ \A t \in row.topics : t # <<>> /\ \A k \in DOMAIN t : t[k] # ">"
      /\ row.pairs # {} =>
           /\ \A p \in row.pairs : \E t \in row.topics : PairOf(t, p)
           /\ \A t \in row.topics : \E p \in row.pairs : PairOf(t, p)

\* Edges are told apart by their ids.
ASSUME EdgesAssumption ==
  /\ IsFiniteSet(Edges)
  /\ Edges \subseteq [edge : Nat, asset : Nat, kind : STRING, conf : Nat \cup {NoConfidence}]
  /\ \A e, f \in Edges : e.edge = f.edge => e = f
  /\ MinConf \in Nat /\ Folds \subseteq BOOLEAN

VARIABLES
  env,        \* os.environ, the same as long as the process lives
  verifier,   \* _verifier
  clock,
  minted,     \* the tokens issued: [token, env, at]
  tiers,      \* the tier of the described field in each domain
  relation,   \* the state of each edge: weak (proposed), strong (confirmed), gone
  changes, retries, restarts,  \* what the bounds count
  phase,      \* of each client's request
  asked,      \* what it asks for
  cred,       \* its token
  principal,  \* whom it is taken for
  hits,       \* what the search engine found for it
  read,       \* what its transaction has read: the tiers, the edges, the row
  status,     \* of its response
  answer,     \* the body of a response 200
  label       \* the user in its row of the access log

\* Kept for the properties: the clock and the environment when the token was
\* checked; the tiers there have been and the edges confirmed, or in
\* existence, all the time since the request arrived.
VARIABLES checked, since

external == <<tiers, relation, changes>>
process  == <<env, verifier, restarts>>
request  == <<phase, asked, cred, principal, hits, read, status, answer, label, checked>>
vars == <<process, clock, minted, external, retries, request, since>>

Nothing == [tiers |-> <<>>, edges |-> <<>>, row |-> FALSE]
NoStatus == 0
NoAnswer == <<>>
Running == {"arrived", "admitted", "found", "reading"}
Open == Running \cup {"answered"}

Phases == Open \cup {"idle", "done", "lost"}

TypeOK ==
  /\ env \in Envs
  /\ verifier \in Verifiers \cup {NoVerifier}
  /\ clock \in 0..MaxClock
  /\ minted \subseteq [token : Tokens, env : Envs, at : 0..MaxClock]
  /\ tiers \in [Domains -> Levels]
  /\ relation \in [Edges -> {"weak", "strong", "gone"}]
  /\ changes \in 0..MaxChanges /\ retries \in 0..MaxRetries /\ restarts \in 0..MaxRestarts
  /\ phase \in [Clients -> Phases]
  /\ cred \in [Clients -> Tokens \cup {NoToken}]
  /\ principal \in [Clients -> Principals]
  /\ status \in [Clients -> {NoStatus, 200, 400, 401, 404, 422, 500, 503}]
  /\ label \in [Clients -> Subjects \cup {"anonymous", None}]
  /\ checked \in [Clients -> [at : 0..MaxClock, env : Envs]]
  /\ since \in [Clients -> [tiers : [Domains -> SUBSET Levels],
                            confirmed : SUBSET Edges, present : SUBSET Edges]]
  /\ DOMAIN asked = Clients /\ DOMAIN hits = Clients /\ DOMAIN answer = Clients
  /\ DOMAIN read = Clients
  /\ \A c \in Clients : DOMAIN read[c].tiers \subseteq Domains

Init ==
  /\ env \in Envs
  /\ verifier = NoVerifier
  /\ clock = 0
  /\ minted = {}
  /\ tiers = [d \in Domains |-> Member]
  /\ relation = [e \in Edges |-> "weak"]
  /\ changes = 0 /\ retries = 0 /\ restarts = 0
  /\ phase = [c \in Clients |-> "idle"]
  /\ asked = [c \in Clients |-> None]
  /\ cred = [c \in Clients |-> NoToken]
  /\ principal = [c \in Clients |-> Anonymous]
  /\ hits = [c \in Clients |-> <<>>]
  /\ read = [c \in Clients |-> Nothing]
  /\ status = [c \in Clients |-> NoStatus]
  /\ answer = [c \in Clients |-> NoAnswer]
  /\ label = [c \in Clients |-> None]
  /\ checked = [c \in Clients |-> [at |-> 0, env |-> env]]
  /\ since = [c \in Clients |-> [tiers |-> [d \in Domains |-> {}], confirmed |-> {}, present |-> {}]]

TokensOfClients == Held \cup {m.token : m \in minted}

-----------------------------------------------------------------------------
(* Tokens.                                                                 *)

\* POST /auth/token; without effect where authentication is on (404), the
\* configuration does not load (500) or the name is blank (400).
IssueToken(body) ==
  /\ Loads(env) /\ env.disabled
  /\ Requested(body) # Blank
  /\ Cardinality(minted) < MaxMinted
  /\ minted' = minted \cup {[token |-> Issued(env, Requested(body), clock), env |-> env, at |-> clock]}
  /\ UNCHANGED <<process, clock, external, retries, request, since>>

\* Mutant: what was read for one request is kept for the next.
ArriveRemembers(c, ask, token) ==
  /\ phase[c] \in {"idle", "done", "lost"}
  /\ phase' = [phase EXCEPT ![c] = "arrived"]
  /\ asked' = [asked EXCEPT ![c] = ask]
  /\ cred' = [cred EXCEPT ![c] = token]
  /\ principal' = [principal EXCEPT ![c] = Anonymous]
  /\ hits' = [hits EXCEPT ![c] = <<>>]
  /\ status' = [status EXCEPT ![c] = NoStatus]
  /\ answer' = [answer EXCEPT ![c] = NoAnswer]
  /\ label' = [label EXCEPT ![c] = None]
  /\ checked' = [checked EXCEPT ![c] = [at |-> clock, env |-> env]]
  /\ since' = [since EXCEPT ![c] =
       [tiers |-> [d \in Domains |-> {tiers[d]}],
        confirmed |-> {e \in Edges : relation[e] = "strong"},
        present |-> {e \in Edges : relation[e] # "gone"}]]
  /\ UNCHANGED <<process, clock, minted, external, retries, read>>

\* A client sends GET /search or GET /assets/{asset_id}, its first request or
\* the next one: nothing is left of the one before.
Arrive(c, ask, token) ==
  /\ phase[c] \in {"idle", "done", "lost"}
  /\ phase' = [phase EXCEPT ![c] = "arrived"]
  /\ asked' = [asked EXCEPT ![c] = ask]
  /\ cred' = [cred EXCEPT ![c] = token]
  /\ principal' = [principal EXCEPT ![c] = Anonymous]
  /\ hits' = [hits EXCEPT ![c] = <<>>]
  /\ read' = [read EXCEPT ![c] = Nothing]
  /\ status' = [status EXCEPT ![c] = NoStatus]
  /\ answer' = [answer EXCEPT ![c] = NoAnswer]
  /\ label' = [label EXCEPT ![c] = None]
  /\ checked' = [checked EXCEPT ![c] = [at |-> clock, env |-> env]]
  /\ since' = [since EXCEPT ![c] =
       [tiers |-> [d \in Domains |-> {tiers[d]}],
        confirmed |-> {e \in Edges : relation[e] = "strong"},
        present |-> {e \in Edges : relation[e] # "gone"}]]
  /\ UNCHANGED <<process, clock, minted, external, retries>>

\* The response is made: nothing more of the handler runs.
Respond(c, code, body) ==
  /\ phase' = [phase EXCEPT ![c] = "answered"]
  /\ status' = [status EXCEPT ![c] = code]
  /\ answer' = [answer EXCEPT ![c] = body]

\* require_principal, the first of the handler's dependencies.  The verifier
\* is built, and kept, when the first token is to be verified.
Authenticate(c) ==
  LET token == cred[c]
      own   == IF token = NoToken THEN verifier ELSE TokenVerifier(verifier, env)
  IN
  /\ phase[c] = "arrived"
  /\ checked' = [checked EXCEPT ![c] = [at |-> clock, env |-> env]]
  /\ \/ /\ ~Loads(env)
        /\ Respond(c, 500, NoAnswer)
        /\ UNCHANGED <<verifier, principal>>
     \/ /\ Loads(env)
        /\ Refuses(env, own, token, clock)
        /\ Respond(c, 401, NoAnswer)
        /\ verifier' = own
        /\ UNCHANGED principal
     \/ /\ Loads(env)
        /\ ~Refuses(env, own, token, clock)
        /\ principal' = [principal EXCEPT ![c] = PrincipalFor(token)]
        /\ phase' = [phase EXCEPT ![c] = "admitted"]
        /\ verifier' = own
        /\ UNCHANGED <<status, answer>>
  /\ UNCHANGED <<env, restarts, clock, minted, external, retries, asked, cred, hits, read, label, since>>

-----------------------------------------------------------------------------
(* GET /search.                                                            *)

\* _parse_modalities and _parse_search_mode before parse_search_filters.
ParameterStatus(wrong) == IF wrong = {"filter"} THEN 422 ELSE 400

RefuseParameters(c) ==
  /\ phase[c] = "admitted" /\ asked[c].op = "search" /\ asked[c].wrong # {}
  /\ Respond(c, ParameterStatus(asked[c].wrong), NoAnswer)
  /\ UNCHANGED <<process, clock, minted, external, retries, asked, cred, principal, hits, read, label, checked, since>>

\* Mutant: the pool is as deep as was asked for.
PoolAsAsked(ask) == ask.pool

\* The pool of candidates is at least as deep as the answer.
Pool(ask) == IF ask.pool < ask.size THEN ask.size ELSE ask.pool

\* What search_hybrid returns: at most a pool of each modality, in any order.
Found(c) == [m \in DOMAIN hits[c] |-> AtMost(Pool(asked[c]), hits[c][m])]

\* search_hybrid, before a connection is taken.
Query(c) ==
  /\ phase[c] = "admitted" /\ asked[c].op = "search" /\ asked[c].wrong = {}
  /\ \E h \in Hits : hits' = [hits EXCEPT ![c] = h]
  /\ phase' = [phase EXCEPT ![c] = "found"]
  /\ UNCHANGED <<process, clock, minted, external, retries, asked, cred, principal, read, status, answer, label, checked, since>>

\* The search fails: 503 when the engine cannot be reached
\* (os_unavailable_handler), 500 otherwise.
SearchFails(c) ==
  /\ phase[c] = "admitted" /\ asked[c].op = "search" /\ asked[c].wrong = {}
  /\ \E code \in {503, 500} : Respond(c, code, NoAnswer)
  /\ UNCHANGED <<process, clock, minted, external, retries, asked, cred, principal, hits, read, label, checked, since>>

GroupedRaw(c) == Grouped(Found(c), asked[c].size)

\* The domains whose tiers the projection needs.
DomainsOf(c) == {row.domain : row \in RowsOf(GroupedRaw(c))}

\* _project_grouped_search asks for the tiers of a domain once for all its
\* rows: one statement, when the first of them is projected.
ReadTiers(c, d) ==
  /\ phase[c] = "found"
  /\ d \in DomainsOf(c) \ DOMAIN read[c].tiers
  /\ read' = [read EXCEPT ![c].tiers =
                 [x \in DOMAIN @ \cup {d} |-> IF x = d THEN tiers[d] ELSE read[c].tiers[x]]]
  /\ UNCHANGED <<process, clock, minted, external, retries, phase, asked, cred, principal, hits, status, answer, label, checked, since>>

\* Mutant: the compact view is made of the rows before the projection.
RawCompact(ask, raw, known, clearance) ==
  IF ask.compact THEN [results |-> Compact(raw, ask.size), facet |-> <<>>]
  ELSE LET rows == Projected(raw, known, clearance) IN [results |-> rows, facet |-> Facet(rows)]

\* The projection, the facet and the compact view; the facet is made for a
\* compact answer too, and not part of it.
SearchAnswer(ask, raw, known, clearance) ==
  LET rows == Projected(raw, known, clearance) IN
    IF ask.compact THEN [results |-> Compact(rows, ask.size), facet |-> <<>>]
                   ELSE [results |-> rows, facet |-> Facet(rows)]

AnswerSearch(c) ==
  /\ phase[c] = "found"
  /\ DomainsOf(c) \subseteq DOMAIN read[c].tiers
  /\ Respond(c, 200, SearchAnswer(asked[c], GroupedRaw(c), read[c].tiers, principal[c].clearance))
  /\ UNCHANGED <<process, clock, minted, external, retries, asked, cred, principal, hits, read, label, checked, since>>

-----------------------------------------------------------------------------
(* GET /assets/{asset_id}.                                                 *)

\* The row of the asset; one that is missing or not registered is 404.
ReadAsset(c) ==
  /\ phase[c] = "admitted" /\ asked[c].op = "detail"
  /\ \/ /\ read' = [read EXCEPT ![c].row = TRUE]
        /\ phase' = [phase EXCEPT ![c] = "reading"]
        /\ UNCHANGED <<status, answer>>
     \/ Respond(c, 404, NoAnswer) /\ UNCHANGED read
  /\ UNCHANGED <<process, clock, minted, external, retries, asked, cred, principal, hits, label, checked, since>>

\* The edges fetch_relations_for_asset selects: those that are not rejected,
\* from the floor on.  Whether the floor also drops what is confirmed or has no
\* confidence is the core package's affair: either.
Selected(S) ==
  LET live == {e \in Edges : relation[e] # "gone"} IN
  /\ {e \in live : e.conf >= MinConf} \subseteq S
  /\ S \subseteq {e \in live : e.conf >= MinConf \/ e.conf = NoConfidence \/ relation[e] = "strong"}

\* Its order of the edges of a neighbour: the tier, then the confidence.
Outranks(e, f) ==
  \/ TierRank(relation[e]) < TierRank(relation[f])
  \/ TierRank(relation[e]) = TierRank(relation[f]) /\ EdgePrecedes(e, f)

\* The rows it makes of them: one for each neighbour, of its first edge, with
\* the kinds of the others; or, where nothing is folded, one for each edge.
RowsFrom(S, folds) ==
  LET others(e) == {f \in S \ {e} : f.asset = e.asset} IN
    IF folds
      THEN {Graded(e, relation[e], {f.kind : f \in others(e)}) :
              e \in {g \in S : \A f \in others(g) : Outranks(g, f)}}
      ELSE {Graded(e, relation[e], {}) : e \in S}

\* fetch_relations_for_asset: the rows, in any order.
ReadRelations(c) ==
  /\ phase[c] = "reading" /\ read[c].edges = <<>>
  /\ \E S \in SUBSET Edges, folds \in Folds :
       /\ Selected(S)
       /\ \E rows \in SetToSeqs(RowsFrom(S, folds)) : read' = [read EXCEPT ![c].edges = <<rows>>]
  /\ UNCHANGED <<process, clock, minted, external, retries, phase, asked, cred, principal, hits, status, answer, label, checked, since>>

DetailAnswer(known, clearance, edges) ==
  LET row == Project([domain |-> AssetDomain, summary |-> "text"], known, clearance) IN
    [meta |-> row.summary, relations |-> Merged(edges)]

\* fetch_access_tiers: the tiers of the asset's domain.
ReadAssetTiers(c) ==
  /\ phase[c] = "reading" /\ read[c].edges # <<>> /\ read[c].tiers = <<>>
  /\ read' = [read EXCEPT ![c].tiers = [d \in {AssetDomain} |-> tiers[d]]]
  /\ UNCHANGED <<process, clock, minted, external, retries, phase, asked, cred, principal, hits, status, answer, label, checked, since>>

\* The detail is answered; the two statements about topics before that are left
\* out, but the transaction may fail there too.
AnswerDetail(c) ==
  /\ phase[c] = "reading" /\ read[c].edges # <<>> /\ AssetDomain \in DOMAIN read[c].tiers
  /\ Respond(c, 200, DetailAnswer(read[c].tiers, principal[c].clearance, read[c].edges[1]))
  /\ UNCHANGED <<process, clock, minted, external, retries, asked, cred, principal, hits, read, label, checked, since>>

-----------------------------------------------------------------------------
(* Transactions that fail.                                                 *)

\* _run_in_db marks the transaction as one that may be run again: from its
\* start, with nothing of what was read before.
Retry(c) ==
  /\ read[c] # Nothing /\ phase[c] \in {"found", "reading"}
  /\ retries < MaxRetries
  /\ retries' = retries + 1
  /\ read' = [read EXCEPT ![c] = Nothing]
  /\ phase' = [phase EXCEPT ![c] = IF asked[c].op = "search" THEN "found" ELSE "admitted"]
  /\ UNCHANGED <<process, clock, minted, external, asked, cred, principal, hits, status, answer, label, checked, since>>

\* The transaction fails for good.
DatabaseFails(c) ==
  /\ \/ phase[c] \in {"found", "reading"}
     \/ phase[c] = "admitted" /\ asked[c].op = "detail"
  /\ Respond(c, 500, NoAnswer)
  /\ UNCHANGED <<process, clock, minted, external, retries, asked, cred, principal, hits, read, label, checked, since>>

-----------------------------------------------------------------------------
(* The middleware.                                                         *)

\* access_log_middleware, after the response: the token is verified a second
\* time; only a response below 400 has a row.  An exception (500) passes the
\* middleware by.
Label(c) ==
  LET own == IF cred[c] # NoToken /\ Loads(env) THEN TokenVerifier(verifier, env) ELSE verifier IN
  /\ phase[c] = "answered"
  /\ phase' = [phase EXCEPT ![c] = "done"]
  /\ verifier' = IF status[c] = 500 THEN verifier ELSE own
  /\ label' = IF status[c] < 400 THEN [label EXCEPT ![c] = UserOf(env, own, cred[c], clock)] ELSE label
  /\ UNCHANGED <<env, restarts, clock, minted, external, retries, asked, cred, principal, hits, read, status, answer, checked, since>>

-----------------------------------------------------------------------------
(* The surroundings.                                                       *)

Tick ==
  /\ clock < MaxClock
  /\ clock' = clock + 1
  /\ UNCHANGED <<process, minted, external, retries, request, since>>

\* An operator changes the tier of the field in a domain.
ChangeTier(d, level) ==
  /\ changes < MaxChanges /\ level # tiers[d]
  /\ changes' = changes + 1
  /\ tiers' = [tiers EXCEPT ![d] = level]
  /\ since' = [c \in Clients |->
                 IF phase[c] \in Running THEN [since[c] EXCEPT !.tiers[d] = @ \cup {level}] ELSE since[c]]
  /\ UNCHANGED <<process, clock, minted, relation, retries, request>>

\* A reviewer confirms or rejects a relation (Review).
ChangeRelation(e, state) ==
  /\ changes < MaxChanges
  /\ relation[e] = "weak" \/ (relation[e] = "strong" /\ state = "gone")
  /\ state # relation[e]
  /\ changes' = changes + 1
  /\ relation' = [relation EXCEPT ![e] = state]
  /\ since' = [c \in Clients |->
                 IF phase[c] \in Running /\ state = "gone"
                   THEN [since[c] EXCEPT !.confirmed = @ \ {e}, !.present = @ \ {e}] ELSE since[c]]
  /\ UNCHANGED <<process, clock, minted, tiers, retries, request>>

\* The process ends with the requests it has, and another starts.
Restart(e) ==
  /\ restarts < MaxRestarts
  /\ restarts' = restarts + 1
  /\ env' = e
  /\ verifier' = NoVerifier
  /\ phase' = [c \in Clients |-> IF phase[c] \in Open THEN "lost" ELSE phase[c]]
  /\ UNCHANGED <<clock, minted, external, retries, asked, cred, principal, hits, read, status, answer, label, checked, since>>

-----------------------------------------------------------------------------
Next ==
  \/ \E b \in Bodies : IssueToken(b)
  \/ \E c \in Clients, ask \in Asks, t \in TokensOfClients \cup {NoToken} : Arrive(c, ask, t)
  \/ \E c \in Clients :
       \/ Authenticate(c)
       \/ RefuseParameters(c) \/ Query(c) \/ SearchFails(c)
       \/ \E d \in Domains : ReadTiers(c, d)
       \/ AnswerSearch(c)
       \/ ReadAsset(c) \/ ReadRelations(c) \/ ReadAssetTiers(c) \/ AnswerDetail(c)
       \/ Retry(c) \/ DatabaseFails(c)
       \/ Label(c)
  \/ Tick
  \/ \E d \in Domains, l \in Levels : ChangeTier(d, l)
  \/ \E e \in Edges, s \in {"strong", "gone"} : ChangeRelation(e, s)
  \/ \E e \in Envs : Restart(e)

Spec == Init /\ [][Next]_vars

-----------------------------------------------------------------------------
(* Correctness.                                                            *)

Answered(c, op) == status[c] = 200 /\ asked[c].op = op

\* Tokens serve as long as they live, across restarts too: a token is refused
\* only if it is no token of the portal, if its time is over, or if the
\* process has another secret or pins another issuer than the one that issued
\* it; and who is admitted as somebody had a token of the process's secret
\* that was alive and, where an issuer is pinned, of that issuer
\* (config.py:58-73, verifier.py:34-58, dev_issuer.py:24-36).
TokensServe ==
  \A c \in Clients :
    LET found == checked[c] IN
    /\ status[c] = 401 =>
         \A m \in minted : m.token = cred[c] =>
           \/ found.at >= m.at + MinTtl /\ found.at >= m.at + m.env.ttl
           \/ Secret(found.env) # Secret(m.env)
           \/ found.env.issuer \notin {None, m.env.issuer}
    /\ principal[c] # Anonymous =>
         /\ principal[c].user = cred[c].sub
         /\ cred[c].secret = Secret(found.env) /\ found.at < cred[c].exp
         /\ found.env.issuer \in {None, cred[c].iss}

\* The row of the access log names the caller the handler served, although
\* the middleware verifies the token on its own: it is anonymous instead only
\* when the token has expired since, and every request that was served has a
\* row (_infra.py:148-161, 164-234).
RowNamesCaller ==
  \A c \in Clients :
    /\ label[c] # None =>
         \/ label[c] = principal[c].user
         \/ label[c] = "anonymous" /\ cred[c].exp <= clock
    /\ phase[c] = "done" => (label[c] # None <=> status[c] = 200)

\* The rows of an answer with what is shown of the summary of each.
Shown(c) ==
  IF asked[c].compact THEN ToSet(answer[c].results) ELSE RowsOf(answer[c].results)

HitOf(c, id) == CHOOSE h \in RowsOf(Found(c)) : h.id = id

\* A description is shown only if some tier the field had since the request
\* arrived lets the caller see it, and left out only if some tier does not,
\* in groups, in the compact view and in details; the rows of one domain are
\* treated alike, whatever is changed meanwhile and however often the
\* transaction is run (routes_search.py:47-88, 226-263, asset_detail.py:215-225).
AnswersFollowTiers ==
  \A c \in Clients :
    LET allowed(d) == \E t \in since[c].tiers[d] : MaySee(t, principal[c].clearance)
        denied(d)  == \E t \in since[c].tiers[d] : ~MaySee(t, principal[c].clearance)
    IN
    /\ Answered(c, "search") =>
         \A s \in Shown(c) :
           LET h == HitOf(c, s.id) IN
           /\ s.summary = "text" => h.summary = "text" /\ allowed(h.domain)
           /\ s.summary # "text" /\ h.summary = "text" =>
                /\ denied(h.domain)
                /\ \A u \in Shown(c) : HitOf(c, u.id).domain = h.domain => u.summary # "text"
    /\ Answered(c, "detail") =>
         IF answer[c].meta = "text" THEN allowed(AssetDomain) ELSE denied(AssetDomain)

\* A modality's group is the best of what the engine has for it: as many rows
\* as were asked for, if there are so many, in order, and no candidate that
\* is left out is better than one that is shown.  The compact view is the
\* best of all modalities, up to one unit of the last digit it shows: the
\* groups are cut by the score to six digits before it rounds to four
\* (search_group.py:83-95, 127-164, routes_search.py:226-263, 316).
AnswersAreTop ==
  \A c \in Clients : Answered(c, "search") =>
    LET ask   == asked[c]
        rows  == answer[c].results
        score(h) == Finite(h.score)
        best(k)  == IF k < ask.size THEN k ELSE ask.size
    IN
    IF ask.compact
      THEN LET all == RowsOf(Found(c)) IN
           /\ Len(rows) = best(Cardinality(all))
           /\ \A i \in DOMAIN rows :
                /\ Cardinality({h \in all : Fourth(score(h)) > rows[i].score + 1000}) < i
                /\ \A j \in 1..(i - 1) :
                     rows[j].score > rows[i].score \/ (rows[j].score = rows[i].score /\ rows[j].id < rows[i].id)
      ELSE \A m \in DOMAIN hits[c] :
             /\ Len(rows[m]) = best(Len(hits[c][m]))
             /\ \A i \in DOMAIN rows[m] :
                  Cardinality({h \in ToSet(Found(c)[m]) :
                    \/ Sixth(score(h)) > Sixth(rows[m][i].score)
                    \/ Sixth(score(h)) = Sixth(rows[m][i].score) /\ h.id < rows[m][i].id}) = i - 1

\* A screen narrows the rows it has by their topics: each topic of the facet
\* promises as many rows as the screen then shows, each subtopic as many as
\* have the pair, and no topic of a shown row is missing
\* (routes_search.py:91-135, search_group.py:117-120).
FacetsMatchRows ==
  \A c \in Clients : Answered(c, "search") /\ ~asked[c].compact =>
    LET rows  == Shown(c)
        facet == answer[c].facet
    IN
    /\ DOMAIN facet = UNION {row.topics : row \in rows}
    /\ \A t \in DOMAIN facet :
         /\ facet[t].count = Cardinality({row \in rows : t \in row.topics})
         /\ \A s \in DOMAIN facet[t].subs :
              facet[t].subs[s] = Cardinality({row \in rows : (t \o <<">">> \o s) \in row.pairs})

\* What reviewers have confirmed is never below what they have not, whether the
\* core package folds the edges of a neighbour into one row or not: each
\* neighbour with an edge from the floor on that was confirmed all the time is a
\* strong card with only strong cards above it.  A neighbour has one card, and
\* it tells of the kind of each edge from the floor on that was there all the
\* time, be it folded; the edges of a card are told apart, the best first
\* (asset_detail.py:54-68, 94-155).
ConfirmedFirst ==
  \A c \in Clients : Answered(c, "detail") =>
    LET cards == answer[c].relations
        ids(card)   == {card.edges[i].edge : i \in DOMAIN card.edges}
        kinds(card) == card.kinds \cup UNION {card.edges[i].folded : i \in DOMAIN card.edges}
        shown(e)    == e.conf >= MinConf
    IN
    /\ \A i, j \in DOMAIN cards : cards[i].asset = cards[j].asset => i = j
    /\ \A e \in since[c].present : shown(e) =>
         \E i \in DOMAIN cards : cards[i].asset = e.asset /\ e.kind \in kinds(cards[i])
    /\ \A e \in since[c].confirmed, i \in DOMAIN cards : shown(e) /\ cards[i].asset = e.asset =>
         \A j \in 1..i : cards[j].tier = "strong"
    /\ \A i \in DOMAIN cards : Len(cards[i].edges) = Cardinality(ids(cards[i]))
    /\ \A i \in DOMAIN cards : \A j \in DOMAIN cards[i].edges :
         cards[i].edges[j].conf <= cards[i].edges[1].conf
=============================================================================
