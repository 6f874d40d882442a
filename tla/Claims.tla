-------------------------------- MODULE Claims --------------------------------
(***************************************************************************)
(* What a validated token says: the pure part of src/src/auth/oidc.rs, with *)
(* the revocation check of auth/revocation.rs and the admin boundary of     *)
(* server/auth.rs.  A claim is a name or a name=value pair, a JSON document *)
(* the set of claims it carries; signatures are the key that made them.     *)
(***************************************************************************)
EXTENDS Naturals, FiniteSets, Sequences

None == "none"

NoTime == 0   \* an absent time; times start at 1

(* Keys.  A JWKS document is a sequence of entries [kid, mat, rs256].       *)

\* is_rs256_signing_key and a kid: what admit_keys does not skip.
Admissible(doc, kid) == {i \in DOMAIN doc : doc[i].kid = kid /\ doc[i].rs256}

\* admit_keys for one kid: a kid with two admissible entries admits neither.
AdmitKey(doc, kid) ==
  LET es == Admissible(doc, kid)
  IN  IF Cardinality(es) = 1 THEN doc[CHOOSE i \in es : TRUE].mat ELSE None

\* discover and discover_endpoints: the document must speak for our issuer and
\* name an endpoint over a channel require_https_unless_loopback accepts.
SafeUrl(u) == u.scheme = "https" \/ (u.scheme = "http" /\ u.loopback)

NoUrl == [scheme |-> None, loopback |-> FALSE]   \* a URL that is not set

Discovered(doc, issuer) == doc.issuer = issuer /\ SafeUrl(doc.jwks_uri)

(* Settings.  cfg holds what MCP_AUTH_MODE's key family sets.               *)

\* OidcSettings::from_config: every reason to refuse is a refusal to start.
\* A default JWKS URL is the issuer's, or a provider's own over https.
SettingsRefused(cfg) ==
  \/ cfg.stray                              \* a key of the other family
  \/ cfg.issuer = None \/ cfg.audience = None
  \/ ~SafeUrl(cfg.url)
  \/ cfg.jwks = "file" /\ (cfg.family # "oidc" \/ cfg.jwks_url # NoUrl)
  \/ cfg.jwks # "file" /\ cfg.jwks_url # NoUrl /\ ~SafeUrl(cfg.jwks_url)
  \/ cfg.family = "oidc" /\ cfg.profile = None
  \/ ~cfg.skew.parses \/ cfg.skew.seconds > 300
  \/ "" \in {cfg.machine, cfg.human}        \* a marker that matches nothing

\* Profile::subject_kind: positive markers only, in both directions.
ProfileKind(profile, claims) ==
  CASE profile = "okta" /\ "uid" \in claims -> "human"
    [] profile = "okta" /\ "uid" \notin claims /\ "cid" \in claims -> "machine"
    [] profile = "entra" /\ "idtyp=app" \in claims -> "machine"
    [] profile = "entra" /\ "idtyp=user" \in claims -> "human"
    [] profile = "auth0" /\ "gty=client-credentials" \in claims -> "machine"
    [] profile = "keycloak"
         /\ claims \cap {"clientId", "client_id", "clientHost", "clientAddress"} # {}
       -> "machine"
    [] OTHER -> "unknown"

\* ClaimMatch::matches, for a marker that may be unset.
Marked(marker, claims) == marker # None /\ marker \in claims

\* OidcSettings::subject_kind: every machine source before either human one.
SubjectKind(cfg, claims) ==
  LET kind == ProfileKind(cfg.profile, claims)
  IN  IF kind = "machine" \/ Marked(cfg.machine, claims) THEN "machine"
      ELSE IF Marked(cfg.human, claims) THEN "human"
      ELSE kind

\* actors: at most eight nested actors, each with a subject and, if it names
\* an issuer, a real one.
ActorsRefused(t) ==
  Len(t.actors) > 8 \/ \E i \in DOMAIN t.actors : t.actors[i].sub = None \/ t.actors[i].iss = ""

\* groups_are_overaged: the groups did not fit and are not in the token.
Overaged(t) == t.groups = "elsewhere"

\* What stands before the signature: the header checks of validate_uncached.
HeaderRefused(t) == t.alg # "RS256" \/ t.typ = "id-jag" \/ t.kid = None

\* decode and principal_from, at a time the token is "early", "live", in the
\* skew after its expiry ("late") or "expired".
ClaimsRefused(t, life) ==
  \/ ~t.iss \/ ~t.aud
  \/ life \in {"early", "expired"}
  \/ t.subject = None
  \/ t.iat = "future"
  \/ ActorsRefused(t)
  \/ Overaged(t)

(* Revocation.  The file names subjects and token ids, each once, and       *)
(* perhaps a cut-off, a text that may not be a time; the server consults    *)
(* its compiled form.                                                       *)

NoCutoff == [set |-> FALSE, parses |-> TRUE, at |-> NoTime]
EmptyFile == [subjects |-> {}, token_ids |-> {}, not_before |-> NoCutoff]

\* RevocationFile::parse: no entry without a name, no cut-off that is not a time.
FileRefused(f) == "" \in f.subjects \cup f.token_ids \/ ~f.not_before.parses

\* RevocationDocument::compile.
CompileList(f) ==
  [subjects |-> f.subjects, jtis |-> f.token_ids, cutoff |-> f.not_before.at]

\* `mcp-devtools revoke`: a command names an entry or, for "all", the time it runs.
CommandRefused(f, c) ==
  \/ c.op \in {"subject", "token"} /\ c.id = ""
  \/ c.op = "remove subject" /\ c.id \notin f.subjects
  \/ c.op = "remove token" /\ c.id \notin f.token_ids

Edited(f, c) ==
  CASE c.op = "subject"        -> [f EXCEPT !.subjects = @ \cup {c.id}]
    [] c.op = "token"          -> [f EXCEPT !.token_ids = @ \cup {c.id}]
    [] c.op = "remove subject" -> [f EXCEPT !.subjects = @ \ {c.id}]
    [] c.op = "remove token"   -> [f EXCEPT !.token_ids = @ \ {c.id}]
    [] c.op = "all"            -> [f EXCEPT !.not_before = [set |-> TRUE, parses |-> TRUE, at |-> c.at]]
    [] c.op = "clear-all"      -> [f EXCEPT !.not_before = NoCutoff]

\* RevocationDocument::issued_before: no issue time counts as before.
IssuedBefore(t, cutoff) == t.issued = NoTime \/ t.issued < cutoff

\* RevocationDocument::check.
Revoked(list, t) ==
  \/ t.subject \in list.subjects
  \/ t.jti # None /\ t.jti \in list.jtis
  \/ list.cutoff # NoTime /\ IssuedBefore(t, list.cutoff)

\* AdminPrincipals::admits.
Admits(policy, kind) ==
  \/ policy = "any"
  \/ policy = "human-or-unknown" /\ kind # "machine"
  \/ policy = "human" /\ kind = "human"
===============================================================================
