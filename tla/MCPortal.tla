------------------------------- MODULE MCPortal ------------------------------
(* Portal for TLC: a process with authentication switched off and no        *)
(* secret, one with a secret and a pinned issuer, one with it switched on,  *)
(* and one that cannot load its configuration.                              *)
EXTENDS Portal

CONSTANT c1

OneClient   == {c1}
OneSecret   == {"s1"}
OneIssuer   == {"i1"}
OneUser     == {"kim"}

Env(disabled, secret, issuer, ttl) ==
  [backend |-> "local_hs256", disabled |-> disabled, secret |-> secret, issuer |-> issuer, ttl |-> ttl]
SomeEnvs ==
  {Env(TRUE, None, None, 0), Env(TRUE, "s1", "i1", 2), Env(FALSE, "s1", "i1", 2),
   Env(FALSE, None, None, 2)}

OneEnv == {Env(TRUE, None, None, 0)}

\* Of another service with the same secret.
Strangers == {[sub |-> "kim", secret |-> "s1", iss |-> None, exp |-> 9]}

SomeBodies ==
  {[user_id |-> None, username |-> "kim"], [user_id |-> Blank, username |-> "kim"]}

TwoDomains == {"general", "law"}

\* A topic is one character; a subtopic may have a ">".
a == <<"a">>
b == <<"b">>
Row(id, score, domain, summary, topics, pairs) ==
  [id |-> id, score |-> score, domain |-> domain, summary |-> summary, topics |-> topics, pairs |-> pairs]

\* Out of order, with scores that are alike to six digits and not to four,
\* one that cannot be read, rows without a summary and without pairs.
SomeHits ==
  {[text  |-> <<Row(3, 1234503, "law", "text", {a}, {<<"a", ">", "x", ">", "y">>}),
               Row(1, 1234497, "general", "text", {a, b}, {<<"a", ">", "x">>, b}),
               Row(2, 9000000, "law", "text", {a}, {})>>,
    image |-> <<Row(4, Unreadable, "general", "", {}, {}), Row(5, 1234497, "general", "text", {b}, {b})>>],
   [text  |-> <<>>]}

Search(size, pool, compact, wrong) ==
  [op |-> "search", size |-> size, pool |-> pool, compact |-> compact, wrong |-> wrong]
SomeAsks ==
  {Search(2, 1, FALSE, {}), Search(2, 3, TRUE, {}), Search(2, 3, TRUE, {"filter", "mode"}), [op |-> "detail"]}

DetailAsks == {[op |-> "detail"]}

Edge(edge, asset, kind, conf) == [edge |-> edge, asset |-> asset, kind |-> kind, conf |-> conf]

OneEdge == {Edge(1, 1, "same", 9)}

\* Two neighbours with two edges each, one of them without a confidence, and
\* one neighbour whose edge is below the floor.
SomeEdges ==
  {Edge(1, 1, "same", 9), Edge(2, 2, "part", 5), Edge(3, 2, "same", 7),
   Edge(4, 1, "part", NoConfidence), Edge(5, 3, "same", 1)}
BothWays == {TRUE, FALSE}
=============================================================================
