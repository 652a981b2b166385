---------------------------------- MODULE Auth -------------------------------
(***************************************************************************)
(* The rules of portal/auth: how the environment of a process becomes its  *)
(* configuration, which tokens its verifier accepts and whom a request is  *)
(* taken for.  The state they work on (the environment, the cached         *)
(* verifier, the clock) is in Portal.                                      *)
(*                                                                         *)
(* A signature is the secret it was made with.  Signing and checking are   *)
(* the library's (PyJWT), the clearances are the core package's; both are  *)
(* external.                                                               *)
(***************************************************************************)
EXTENDS Integers

CONSTANTS
  Secrets,        \* the values PORTAL_JWT_SECRET has had
  DefaultSecret,  \* _DEFAULT_DEV_SECRET
  Issuers,        \* the values of PORTAL_JWT_ISSUER
  Users,          \* who is named by tokens
  MinTtl,         \* the shortest life of a token, in ticks of the clock
  MaxTtl          \* a bound on PORTAL_JWT_TTL_SECONDS, in ticks

None == "none"
Blank == "blank"           \* a name of white space only
Public == 0                \* principal_clearance(authenticated=False)
Member == 1                \* principal_clearance(authenticated=True)
Subjects == Users \cup {"dev-user"}

ASSUME TtlAssumption == MinTtl \in Nat \ {0} /\ MaxTtl \in Nat /\ MinTtl <= MaxTtl
ASSUME NamesAssumption ==
  /\ None \notin Secrets \cup {DefaultSecret} \cup Issuers \cup Subjects
  /\ Blank \notin Subjects

\* What a process finds in its environment.
Environments ==
  [backend : {"local_hs256", "unknown"}, disabled : BOOLEAN,
   secret : Secrets \cup {None}, issuer : Issuers \cup {None}, ttl : 0..MaxTtl]

Tokens == [sub : Subjects \cup {None}, secret : Secrets \cup {DefaultSecret},
           iss : Issuers \cup {None}, exp : Nat]
Verifiers == [secret : Secrets \cup {DefaultSecret}, issuer : Issuers \cup {None}]
Principals == [user : Subjects \cup {"anonymous"}, clearance : {Public, Member}]

NoToken == [sub |-> None, secret |-> None, iss |-> None, exp |-> 0]
NoVerifier == [secret |-> None, issuer |-> None]
Anonymous == [user |-> "anonymous", clearance |-> Public]

-----------------------------------------------------------------------------
(* load_portal_auth_config.                                                *)

\* It raises for an unknown backend and, unless authentication is switched
\* off, without a secret.
Loads(env) == env.backend = "local_hs256" /\ (env.disabled \/ env.secret # None)

Secret(env) == IF env.secret = None THEN DefaultSecret ELSE env.secret

Ttl(env) == IF env.ttl < MinTtl THEN MinTtl ELSE env.ttl

-----------------------------------------------------------------------------
(* The verifier and the principal.                                         *)

VerifierOf(env) == [secret |-> Secret(env), issuer |-> env.issuer]

\* Mutant: the time is not looked at.
VerifiesForEver(verifier, token, now) ==
  /\ token.secret = verifier.secret
  /\ token.sub # None
  /\ verifier.issuer # None => token.iss = verifier.issuer

\* Mutant: the pinned issuer is not looked at.
VerifiesAnyIssuer(verifier, token, now) ==
  token.secret = verifier.secret /\ now < token.exp /\ token.sub # None

\* verify and claims_to_principal: signed with the secret, not expired, with
\* a subject, and of the issuer if one is pinned.
Verifies(verifier, token, now) ==
  /\ token.secret = verifier.secret
  /\ now < token.exp
  /\ token.sub # None
  /\ verifier.issuer # None => token.iss = verifier.issuer

\* get_token_verifier without a configuration: the cached one, or a new one.
TokenVerifier(cached, env) == IF cached = NoVerifier THEN VerifierOf(env) ELSE cached

PrincipalOf(token) == [user |-> token.sub, clearance |-> Member]

-----------------------------------------------------------------------------
(* get_principal.                                                          *)

\* A token is verified whether or not authentication is switched off.
Refuses(env, verifier, token, now) ==
  IF token = NoToken THEN ~env.disabled ELSE ~Verifies(verifier, token, now)

PrincipalFor(token) == IF token = NoToken THEN Anonymous ELSE PrincipalOf(token)

\* Mutant: the name is looked up only where authentication is on.
UserOfEnforced(env, verifier, token, now) ==
  IF ~env.disabled /\ token # NoToken /\ Loads(env) /\ Verifies(verifier, token, now)
    THEN token.sub ELSE "anonymous"

\* _user_id_from_request: whatever goes wrong, the caller is anonymous.
UserOf(env, verifier, token, now) ==
  IF token # NoToken /\ Loads(env) /\ Verifies(verifier, token, now)
    THEN token.sub ELSE "anonymous"

-----------------------------------------------------------------------------
(* auth_token and issue_dev_token.                                         *)

\* user_id before username before a fixed name.
Requested(body) ==
  IF body.user_id # None THEN body.user_id
  ELSE IF body.username # None THEN body.username ELSE "dev-user"

\* Mutant: the issuer is left out.
IssuedWithoutIssuer(env, user, now) ==
  [sub |-> user, secret |-> Secret(env), iss |-> None, exp |-> now + Ttl(env)]

Issued(env, user, now) ==
  [sub |-> user, secret |-> Secret(env), iss |-> env.issuer, exp |-> now + Ttl(env)]
=============================================================================
