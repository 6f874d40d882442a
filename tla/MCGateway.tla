------------------------------ MODULE MCGateway ------------------------------
(***************************************************************************)
(* The front door, part by part; `component` says which one a behaviour is *)
(* about, and the parts share no state in the program either:              *)
(*   keys     two tokens under one kid that is published with either       *)
(*            material, or with both, which admits neither                 *)
(*   rate     three principals over a map of two buckets                   *)
(*   startup  the start of a process, with one setting missing, blank or   *)
(*            unusable, and an edit of the file at any moment              *)
(*   admin    two mutations or reads of the admin API and one request more *)
(*            than it has permits, which is a read                         *)
(*   question one decision of a pure function: every member of a bounded   *)
(*            set of inputs is an initial state                            *)
(***************************************************************************)
EXTENDS Inbound, RateLimit, Startup, Admin, Policy, Extract, Credentials, Wire, TLC
Canon == INSTANCE Canonical

CONSTANTS ta, tb, xread,
          LabelledVendors   \* vendors whose credential labels are asked for

VARIABLE component

-----------------------------------------------------------------------------
(* Inbound.                                                                *)

Entry(k, m) == [kid |-> k, mat |-> m, rs256 |-> TRUE]
MCDocOf == [d \in {"old", "new", "both"} |->
              CASE d = "old"  -> <<Entry("k", "a"), [Entry("k", "b") EXCEPT !.rs256 = FALSE]>>
                [] d = "new"  -> <<Entry("k", "b")>>
                [] OTHER      -> <<Entry("k", "a"), Entry("k", "b")>>]
MCDocs == DOMAIN MCDocOf

Person == [alg |-> "RS256", typ |-> "jwt", kid |-> "k", mat |-> "a", iss |-> TRUE, aud |-> TRUE,
           subject |-> "ann", iat |-> "past", issued |-> 2, jti |-> "j1", actors |-> <<>>,
           groups |-> "listed", claims |-> {"idtyp=user"}, scopes |-> {"mcp:tools", "mcp:admin"}]
Robot  == [Person EXCEPT !.mat = "b", !.subject = "bot", !.jti = None, !.issued = NoTime,
                                 !.claims = {"idtyp=app"}, !.actors = <<[sub |-> "ann", iss |-> None]>>]
MCTokenOf == [t \in {ta, tb} |-> IF t = ta THEN Person ELSE Robot]

Https == [scheme |-> "https", loopback |-> FALSE]
Remote == [stray |-> FALSE, issuer |-> "idp", audience |-> "mcp", url |-> Https, jwks |-> "discovery",
           family |-> "oidc", jwks_url |-> NoUrl, profile |-> "entra",
           skew |-> [parses |-> TRUE, seconds |-> 60],
           machine |-> None, human |-> None,
           discovery |-> [issuer |-> "idp", jwks_uri |-> Https], admins |-> "human-or-unknown"]
MCSettings == {Remote, [Remote EXCEPT !.discovery.issuer = "other"], [Remote EXCEPT !.jwks = "file"],
               [Remote EXCEPT !.jwks = "file", !.jwks_url = Https], [Remote EXCEPT !.skew.seconds = 301],
               [Remote EXCEPT !.jwks_url = [Https EXCEPT !.scheme = "http"]],
               [Remote EXCEPT !.skew.parses = FALSE]}
\* The cut-off lets Person's token pass and refuses Robot's, which has no issue time.
MCLists == {EmptyFile, [EmptyFile EXCEPT !.not_before = [set |-> TRUE, parses |-> TRUE, at |-> 2]],
            [EmptyFile EXCEPT !.subjects = {"", "ann"}]}
MCCommands == {[op |-> "all", at |-> 2], [op |-> "clear-all"], [op |-> "remove token", id |-> "j1"]}

Symmetry == Permutations(Reqs)

-----------------------------------------------------------------------------
(* Startup.                                                                *)

MCAliases == [bitbucket |-> <<"bitbucket", "atlassian-bitbucket">>, jira |-> <<"jira">>]

Complete ==
  [MCP_AUTH_MODE |-> "oidc", MCP_OIDC_ISSUER |-> "good", MCP_PUBLIC_URL |-> "good",
   MCP_AUDIT_JOURNAL_DIR |-> "good", MCP_POLICY_FILE |-> "signed", MCP_POLICY_PUBLIC_KEY |-> "good",
   MCP_AUDIT_SIGNING_KEY |-> "good", MCP_REVOCATION_FILE |-> "signed"]
Optional ==
  [MCP_EMA_ENABLED |-> "true", MCP_OKTA_ISSUER |-> "good", MCP_RATE_LIMIT_PER_PRINCIPAL |-> "broken",
   MCP_ADMIN_PRINCIPALS |-> "broken", MCP_ROLLUP_STORE |-> "broken", MCP_ADMIN_APPROVALS |-> "required",
   MCP_AUDIT_FORWARD_URL |-> "good", MCP_CONSOLE_CLIENT_ID |-> "good", MCP_VAULT_ADDR |-> "good",
   JIRA_TOKEN |-> "ref"]
With(section, key, value) == (key :> value) @@ section
Minus(section, key) == [k \in DOMAIN section \ {key} |-> section[k]]

Sections ==
  {Nothing, Complete}
    \cup {Minus(Complete, k) : k \in DOMAIN Complete}
    \cup {With(Complete, k, v) : k \in DOMAIN Complete \ {"MCP_AUTH_MODE"}, v \in {"broken", ""}}
    \cup {With(s, k, Optional[k]) : s \in {Complete, Nothing}, k \in DOMAIN Optional}
    \cup {With(Complete, "MCP_AUTH_MODE", m) : m \in {"okta", "off", "odic"}}
    \cup {With(Complete, "MCP_POLICY_FILE", "unsigned"),
          With(With(Complete, "MCP_VAULT_ADDR", "good"), "MCP_VAULT_AUTH", "token"),
          [MCP_VAULT_ADDR |-> "good", MCP_VAULT_AUTH |-> "token", MCP_VAULT_TOKEN |-> "good"]}

MCFiles == {[kind |-> "ok", root |-> [jira |-> s]] : s \in Sections}
             \cup {[kind |-> k, root |-> Nothing] : k \in {"missing", "malformed"}}
NoDotenv == [kind |-> "missing", entries |-> Nothing]
MCLaunches ==
  [transport : {"http"}, role : {"", "gateway", "control", "bad"}, bind : {"", "any", "bad"},
   env : {Nothing}, dotenv : {NoDotenv}]
  \cup [transport : {"stdio"}, role : {""}, bind : {""},
        env : {Nothing, [MCP_AUTH_MODE |-> "oidc"]}, dotenv : {NoDotenv}]

-----------------------------------------------------------------------------
(* The questions.                                                          *)

Ask(kind, about) == question = [kind |-> kind] @@ about

AskGlob ==
  \E pattern \in BoundedSeq({"a", "b", "*"}, 4), text \in BoundedSeq({"a", "b"}, 4) :
    Ask("glob", [pattern |-> pattern, text |-> text])

(* Two rules, of which either may be refused at compilation.               *)
Everyone == [everyone |-> TRUE, groups |-> NotGiven, subjects |-> NotGiven, scopes |-> NotGiven]
Members == [Everyone EXCEPT !.everyone = FALSE, !.groups = {<<"g">>}]
ProjectA == [rtype |-> "project", ids |-> {<<"a", "*">>}]
Plain == [id |-> "first", effect |-> "allow", subjects |-> Everyone, lists |-> Nothing, globs |-> Nothing,
          resourceId |-> NotGiven, resourceScope |-> NotGiven, constrainedBy |-> NotGiven]
Rules ==
  {[Plain EXCEPT !.effect = e, !.subjects = s, !.resourceId = i, !.constrainedBy = c] :
     e \in {"allow", "deny"}, s \in {Everyone, Members},
     i \in {NotGiven, {<<"a", "*">>}}, c \in {NotGiven, ProjectA}}
  \cup {[Plain EXCEPT !.lists = [request_risk |-> {"read"}], !.resourceScope = s] :
          s \in {NotGiven, "collection"}}
  \cup {[Plain EXCEPT !.globs = [canonical_path |-> {<<"a", "*">>}]],
        [Plain EXCEPT !.subjects.everyone = FALSE], [Plain EXCEPT !.resourceId = {}],
        [Plain EXCEPT !.subjects = [Members EXCEPT !.scopes = {<<"*">>}, !.subjects = {<<"a">>}]]}
Contexts ==
  {[principal |-> [subject |-> <<"a">>, groups |-> g, scopes |-> {<<"b">>}], request_risk |-> r,
    canonical_path |-> <<"a", "b">>, resource_type |-> t, scope |-> s, constraint |-> c] :
     g \in {{}, {<<"g">>}}, r \in {"read", "write"}, t \in {"issue", "unknown"},
     s \in {Unscoped, Collection, ScopeIds({<<"a">>}), ScopeIds({<<"a", "b">>, <<"b">>})},
     c \in {NotGiven, Constraint("project", {<<"a">>}), Constraint("project", {<<"a">>, <<"b">>})}}

ASSUME QuestionsOfPolicy == (\A r \in Rules : IsRule(r)) /\ (\A c \in Contexts : IsContext(c))

AskPolicy ==
  \E first_, second \in Rules, default \in {"deny", "allow"}, twice \in BOOLEAN, context \in Contexts :
    /\ default = "allow" \/ twice => first_ = Plain
    /\ Ask("policy", [doc |-> [default |-> default,
                               rules |-> <<first_, IF twice THEN second ELSE [second EXCEPT !.id = "second"]>>],
                      context |-> context])

(* Queries of at most two clauses over two projects and two statuses, one  *)
(* of which is spelt like a connective.                                    *)
ValuesOf == [project |-> <<Word("P"), Quoted("Q")>>, status |-> <<Word("open"), Quoted("or")>>]
Clauses ==
  {[field |-> f, op |-> o, values |-> v, form |-> m] :
     f \in {"project", "status"}, o \in {"=", "!=", "in", "not in"},
     v \in {"one", "two", "both"}, m \in {"plain", "not", "group", "not group"}}
Clause(c) == [c EXCEPT !.values = CASE c.values = "one" -> SubSeq(ValuesOf[c.field], 1, 1)
                                    [] c.values = "two" -> SubSeq(ValuesOf[c.field], 2, 2)
                                    [] OTHER -> ValuesOf[c.field]]
Wellformed(c) == c.values = "both" => c.op \in {"in", "not in"}
Issues == [project : {"P", "Q"}, status : {"open", "or"}]

AskJql ==
  \E one, other \in {c \in Clauses : Wellformed(c)}, join \in {"", "and", "or"} :
    /\ join = "" => other = one
    /\ Ask("jql", [query |-> IF join = "" THEN [clauses |-> <<Clause(one)>>, joins |-> <<>>]
                             ELSE [clauses |-> <<Clause(one), Clause(other)>>, joins |-> <<join>>]])

PathSymbols == {Canon!Slash, Canon!Dot, Canon!Literal("a"), Canon!Literal("!"), Canon!Literal(" "),
                Canon!Literal("%"), Canon!Escape("."), Canon!Escape("/"), Canon!Escape("%")}
QueryPairs == [key : {<<Canon!Literal("a")>>, <<Canon!Escape("a")>>, <<Canon!Literal("b")>>},
               value : {<<>>, <<Canon!Literal("+")>>, <<Canon!Escape("+")>>, <<Canon!Literal("%")>>,
                        <<Canon!Escape("high")>>}]

AskPath == \E path \in BoundedSeq(PathSymbols, 4) : Ask("path", [path |-> path])
AskQuery == \E pairs \in BoundedSeq(QueryPairs, 3) : Ask("query", [pairs |-> pairs])
AskTool == \E tool \in TypedTools, id \in Keys \cup BadKeys : Ask("tool", [tool |-> tool, id |-> id])
AskChannel ==
  \E name \in {"info", "history", "list", "other"}, channels \in BoundedSeq(Keys \cup BadKeys, 2) :
    Ask("channel", [path |-> <<name>>, channels |-> channels])

(* Every cascade of one secret; of NinjaOne's five only present or not.    *)
AskLabel ==
  \/ \E vendor \in LabelledVendors :
       LET rows == RowsOf(vendor)
           secrets == {rows[i].key : i \in DOMAIN rows}
           owners == {rows[i].principal : i \in DOMAIN rows}
       IN  \E config \in [secrets -> SecretForms], principals \in [owners -> PrincipalForms],
              chain \in [secrets -> ChainAnswers] :
             Ask("label", [vendor |-> vendor, config |-> config @@ principals,
                           chain |-> chain, session |-> FALSE])
  \/ LET secrets == {RowsOf("ninjaone")[i].key : i \in 1..5}
     IN  \E config \in [secrets -> {"absent", "plain"}], chain \in [secrets -> {"empty", "stored"}],
            session \in BOOLEAN :
           Ask("label", [vendor |-> "ninjaone", config |-> ("NINJAONE_EMAIL" :> "set") @@ config,
                         chain |-> chain, session |-> session])

Values(domain) == {Nothing} \cup {("k" :> v) : v \in domain}
AskSetting ==
  \E root \in [{"bitbucket", "atlassian-bitbucket", "jira"} -> Values({"x", "y", "", "object", "ref"})],
     env \in Values({"x"}), entries \in Values({"y", "ref"}), kind \in {"missing", "ok"} :
    Ask("setting", [env |-> env, dotenv |-> [kind |-> kind, entries |-> entries], root |-> root])

Bounds == -2..4   \* Bad, Blank, and the bytes of a file of three, and past its end
AskRange ==
  \E range \in [unit : BOOLEAN, comma : BOOLEAN, from : Bounds, to : Bounds, given : BOOLEAN],
     matches \in BOOLEAN, size \in 0..3 :
    Ask("range", [range |-> range, matches |-> matches, size |-> size])
AskChunk ==
  \E offset \in 0..4, most \in 0..4, size \in 0..3 :
    Ask("chunk", [offset |-> offset, most |-> most, size |-> size])

NoQuestion == question = [kind |-> "none"]

-----------------------------------------------------------------------------
InboundAtRest == settings = Remote /\ published = "both" /\ list = EmptyFile /\ Init
StartupAtRest ==
  /\ file = [kind |-> "missing", root |-> Nothing]
  /\ launch = [transport |-> "stdio", role |-> "", bind |-> "", env |-> Nothing, dotenv |-> NoDotenv]
  /\ StartupInit

MCInit ==
  /\ RateInit /\ AdminInit
  /\ \/ component = "keys" /\ Init /\ StartupAtRest /\ NoQuestion
     \/ component \in {"rate", "admin"} /\ InboundAtRest /\ StartupAtRest /\ NoQuestion
     \/ component = "startup" /\ InboundAtRest /\ StartupInit /\ NoQuestion
     \/ /\ component = "question" /\ InboundAtRest /\ StartupAtRest
        /\ \/ AskGlob \/ AskPolicy \/ AskJql \/ AskPath \/ AskQuery
           \/ AskTool \/ AskChannel \/ AskLabel \/ AskSetting
           \/ AskRange \/ AskChunk

MCNext ==
  /\ \/ component = "keys" /\ Next /\ UNCHANGED <<rateVars, startupVars, adminVars>>
     \/ component = "rate" /\ RateNext /\ UNCHANGED <<vars, startupVars, adminVars>>
     \/ component = "startup" /\ StartupNext /\ UNCHANGED <<vars, rateVars, adminVars>>
     \/ component = "admin" /\ AdminNext
          /\ areq'[xread].kind = "none" /\ areq'[xread].answer \in {"none", "busy", "ok"}
          /\ UNCHANGED <<vars, rateVars, startupVars>>
  /\ UNCHANGED <<component, question>>

MCSpec == MCInit /\ [][MCNext]_<<vars, rateVars, startupVars, adminVars, component, question>>

-----------------------------------------------------------------------------
(* credential_broker.rs of the rows of a vendor: "This mirrors the         *)
(* vendors' own resolution".  The label names the slot that acts, for a    *)
(* vendor with two of them too, in all but three cases, and in those it    *)
(* never does: Mislabelled is exactly where the mirror fails.              *)
LabelNamesUsed ==
  question.kind = "label" =>
    ( Agrees(UpstreamIdentity(question.vendor, question.config, question.chain),
             Acting(question.vendor, question.config, question.chain, question.session))
      <=> (question.vendor = "ninjaone" \/ ~Mislabelled(question.vendor, question.config, question.chain)) )

(* What is decided and recorded before a call is what the call then does:  *)
(* the path and the query evaluated are the ones sent (canonical.rs), the  *)
(* projects a search is said to be bounded by bound it, a typed tool is    *)
(* classified as its request is (extractors.rs), the credential named is   *)
(* the one that acts (credential_broker.rs), a vendor's settings come from *)
(* its own sections (config/mod.rs), and the bytes of an artifact that are *)
(* announced are the ones asked for and sent (download_artifact,           *)
(* read_artifact_chunk).                                                   *)
FactsMatchWire ==
  CASE question.kind = "jql"     -> JqlClaimSound(question.query, Issues)
    [] question.kind = "path"    -> Canon!CanonicalPathOk(question.path)
    [] question.kind = "query"   -> Canon!CanonicalQueryOk(question.pairs)
    [] question.kind = "tool"    -> WireAgrees(question.tool, question.id)
    [] question.kind = "channel" -> OneChannel(question.path, question.channels)
    [] question.kind = "label"   -> LabelNamesUsed
    [] question.kind = "setting" -> VendorScoped(question.env, question.dotenv, question.root, "k")
    [] question.kind = "range"   -> DownloadExact(question.range, question.matches, question.size)
    [] question.kind = "chunk"   -> ChunkExact(question.offset, question.most, question.size)
    [] OTHER -> TRUE
===============================================================================
