---------------------------- MODULE Credentials ----------------------------
(***************************************************************************)
(* Which credential acts for a vendor (auth/mod.rs, the vendors' own       *)
(* resolvers) and which one the broker names in the evidence record before *)
(* the call (auth/credential_broker.rs), both driven by one registry of    *)
(* secret slots (auth/secrets.rs).                                         *)
(*                                                                         *)
(* A configured value is told apart only by what the cascade tests: a key  *)
(* that is absent, blank, the word "keychain", a secret reference that no  *)
(* snapshot expanded, or a plain value.  The keychain answers for a slot   *)
(* that it is empty, that it holds a secret, or that it cannot be reached. *)
(***************************************************************************)
EXTENDS Naturals, Sequences, FiniteSetsExt

CONSTANT NoKey      \* a registry row without a principal key

SecretForms == {"absent", "blank", "plain", "keychain", "reference"}
PrincipalForms == {"absent", "spaces", "set", "reference"}
ChainAnswers == {"empty", "stored", "unreachable"}

----------------------------------------------------------------------------
(* The registry: one row for every secret the configuration can hold. *)

Owned(key, principal, kind) ==
  [key |-> key, principal |-> principal, kind |-> kind, role |-> "request"]

TokenRow(key) == Owned(key, NoKey, "token")

LoginInput(key, principal, kind) ==
  [key |-> key, principal |-> principal, kind |-> kind, role |-> "login"]

AtlassianToken == Owned("ATLASSIAN_API_TOKEN", "ATLASSIAN_USER_EMAIL", "api-token")

AppPassword == Owned("ATLASSIAN_BITBUCKET_APP_PASSWORD",
                     "ATLASSIAN_BITBUCKET_USERNAME", "app-password")

VendorSecrets ==
  [bitbucket   |-> <<AtlassianToken, AppPassword>>,
   jira        |-> <<AtlassianToken>>,
   confluence  |-> <<AtlassianToken>>,
   zoom        |-> <<Owned("ZOOM_CLIENT_SECRET", "ZOOM_CLIENT_ID", "token")>>,
   slack       |-> <<TokenRow("SLACK_TOKEN")>>,
   circleci    |-> <<TokenRow("CIRCLECI_TOKEN")>>,
   postman     |-> <<TokenRow("POSTMAN_API_KEY")>>,
   newrelic    |-> <<TokenRow("NEW_RELIC_API_KEY")>>,
   grafana     |-> <<TokenRow("GRAFANA_TOKEN")>>,
   sonarqube   |-> <<TokenRow("SONARQUBE_TOKEN")>>,
   teamcity    |-> <<TokenRow("TEAMCITY_TOKEN")>>,
   github      |-> <<TokenRow("GITHUB_TOKEN")>>,
   gitlab      |-> <<TokenRow("GITLAB_TOKEN")>>,
   figma       |-> <<TokenRow("FIGMA_TOKEN")>>,
   vercel      |-> <<TokenRow("VERCEL_TOKEN")>>,
   sentry      |-> <<TokenRow("SENTRY_TOKEN")>>,
   artifactory |-> <<TokenRow("ARTIFACTORY_TOKEN")>>,
   snyk        |-> <<TokenRow("SNYK_TOKEN")>>,
   mend        |-> <<LoginInput("MEND_USER_KEY", "MEND_EMAIL", "password")>>,
   splunk      |-> <<TokenRow("SPLUNK_TOKEN")>>,
   edx         |-> <<TokenRow("EDX_ACCESS_TOKEN")>>,
   wrds        |-> <<Owned("WRDS_PASSWORD", "WRDS_USERNAME", "password")>>,
   ninjaone    |-> <<LoginInput("NINJAONE_PASSWORD", "NINJAONE_EMAIL", "password"),
                     LoginInput("NINJAONE_TOTP_SECRET", "NINJAONE_EMAIL", "totp-secret"),
                     TokenRow("NINJAONE_ACCESS_TOKEN"),
                     TokenRow("NINJAONE_SESSION_KEY"),
                     TokenRow("NINJAONE_SESSION_COOKIE")>>]

RowsOf(vendor) == VendorSecrets[vendor]

\* A registry that takes every vendor's resolver to be observable.
AlwaysObservable(vendor) == TRUE
ResolutionIsObservable(vendor) == vendor # "ninjaone"

\* A row that names an account addresses that account's slot in the keychain,
\* any other row the slot called after its own key.
NonBlank(form) == form \in {"set", "reference"}

HasPrincipal(config, row) == row.principal # NoKey /\ NonBlank(config[row.principal])

----------------------------------------------------------------------------
(* The cascade every secret goes through.  An answer is the key that acts, *)
(* "none" (fall through) or "error" (the caller must see it).              *)

ResolveConfigured(key, form, stored) ==
  CASE form = "keychain"  -> IF stored = "stored" THEN key ELSE "error"
    [] form = "reference" -> "error"
    [] form = "plain"     -> key
    [] form = "blank"     -> "none"
    [] form = "absent"    -> IF stored = "stored" THEN key ELSE "none"

VendorSecret(config, chain, row) ==
  ResolveConfigured(row.key, config[row.key], chain[row.key])

\* Only the Atlassian resolver reads the principal without trimming it: an
\* account made of spaces counts as one.
TryResolveKind(config, chain, row) ==
  CASE config[row.principal] = "reference" -> "error"
    [] config[row.principal] \in {"set", "spaces"} -> VendorSecret(config, chain, row)
    [] OTHER -> IF config[row.key] = "keychain" THEN "error" ELSE "none"

\* Zoom, WRDS and Mend refuse the call when the account is not configured.
RequiredSecret(config, chain, row) ==
  IF ~NonBlank(config[row.principal]) THEN "error"
  ELSE IF VendorSecret(config, chain, row) = "none" THEN "error"
       ELSE VendorSecret(config, chain, row)

FirstAnswer(answers) ==
  LET hits == {i \in DOMAIN answers : answers[i] # "none"}
  IN IF hits = {} THEN "none" ELSE answers[Min(hits)]

\* The rows are tried in order, each the way its vendor resolves a secret.
ResolveRow(vendor, config, chain, row) ==
  CASE vendor \in {"bitbucket", "jira", "confluence"} -> TryResolveKind(config, chain, row)
    [] vendor \in {"zoom", "wrds", "mend"} -> RequiredSecret(config, chain, row)
    [] OTHER -> VendorSecret(config, chain, row)

OverRows(vendor, rows, config, chain) ==
  FirstAnswer([i \in DOMAIN rows |-> ResolveRow(vendor, config, chain, rows[i])])

\* NinjaOne: the access token, then the session minted by a login, then the
\* carriers of the configuration (the access token is tried a second time).
ConsoleAuth(config, chain, hasSession) ==
  LET carriers == SubSeq(RowsOf("ninjaone"), 3, 5)
  IN FirstAnswer(<<VendorSecret(config, chain, carriers[1]),
                   IF hasSession THEN "login session" ELSE "none",
                   OverRows("ninjaone", carriers, config, chain)>>)

Acting(vendor, config, chain, hasSession) ==
  IF vendor = "ninjaone" THEN ConsoleAuth(config, chain, hasSession)
  ELSE OverRows(vendor, RowsOf(vendor), config, chain)

----------------------------------------------------------------------------
(* The broker's prediction. *)

EligibleRows(vendor, config) ==
  SelectSeq(RowsOf(vendor),
            LAMBDA row : /\ row.role = "request"
                         /\ row.principal = NoKey \/ HasPrincipal(config, row))

\* held: the keys whose secret the backend that is asked holds.
SlotLabel(vendor, config, held) ==
  LET rows == EligibleRows(vendor, config)
      Resolves(row) == \/ config[row.key] \in {"plain", "keychain", "reference"}
                       \/ config[row.key] = "absent" /\ row.key \in held
      hits == {i \in DOMAIN rows : Resolves(rows[i])}
      gap  == IF ResolutionIsObservable(vendor) THEN "unconfigured" ELSE "indeterminate"
      claimed == IF ResolutionIsObservable(vendor) THEN hits ELSE hits \cap {1}
  IN IF claimed = {} THEN gap ELSE rows[Min(claimed)].key

NoKeychain == {}

\* The configuration decides first, without the keychain; only when it is
\* silent about every slot is the keychain of the system asked.
UpstreamIdentity(vendor, config, chain) ==
  LET quick == SlotLabel(vendor, config, NoKeychain)
  IN IF quick # "unconfigured" THEN quick
     ELSE SlotLabel(vendor, config, {key \in DOMAIN chain : chain[key] = "stored"})

\* A label agrees with the resolver when it names the slot that acts, admits
\* that it cannot tell, or when nothing acts.
Agrees(label, acting) ==
  \/ label = acting
  \/ label = "indeterminate"
  \/ acting = "error"
  \/ acting = "none" /\ label = "unconfigured"

\* Where the broker does not mirror the resolver, although a secret acts:
\* the rows of Mend are login inputs, which it leaves out; an account made of
\* spaces is one to the resolver and none to the broker; and an app password
\* of the configuration is seen in its first pass, before it asks the keychain
\* for the API token that the resolver tries first.
Mislabelled(vendor, config, chain) ==
  LET acting == Acting(vendor, config, chain, FALSE)
      slots  == {row \in {RowsOf(vendor)[i] : i \in DOMAIN RowsOf(vendor)} : row.key = acting}
  IN \E row \in slots :
       \/ row.role = "login"
       \/ row.principal # NoKey /\ config[row.principal] = "spaces"
       \/ /\ row = AtlassianToken /\ vendor = "bitbucket" /\ config[row.key] = "absent"
          /\ HasPrincipal(config, AppPassword)
          /\ config[AppPassword.key] \in {"plain", "keychain", "reference"}

=============================================================================
