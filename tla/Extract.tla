------------------------------ MODULE Extract ------------------------------
(***************************************************************************)
(* The extractors (policy/extractors.rs, policy/native.rs): what a request *)
(* is said to do before the policy is asked.  A path is the sequence of    *)
(* its canonical segments; an id is a model string, told apart only by     *)
(* whether the extractor may vouch for it.                                 *)
(***************************************************************************)
EXTENDS Naturals, Sequences, SequencesExt, FiniteSets

CONSTANTS Keys,        \* well-formed issue, project, datasource and channel ids
          BadKeys,     \* ids with an escape, a slash or another alphabet
          NoConstraint

----------------------------------------------------------------------------
(* ActionDetails. *)

FromMethod(method) ==
  CASE method = "get" -> "read" [] method = "delete" -> "destructive" [] OTHER -> "write"

Read(action, method, rtype, scope, ids) ==
  [action |-> action, method |-> method, rtype |-> rtype, scope |-> scope,
   ids |-> ids, risk |-> "read", constraint |-> NoConstraint]

Unclassified(method) ==
  [action |-> "passthrough", method |-> method, rtype |-> "unknown",
   scope |-> "unscoped", ids |-> {}, risk |-> FromMethod(method),
   constraint |-> NoConstraint]

UnmappedTool(risk) == [Unclassified("get") EXCEPT !.risk = risk]

----------------------------------------------------------------------------
(* JQL.  A token is [text, quoted]; the lexer keeps a quoted string as one *)
(* token and splits = ! ( ) , off the words.                               *)

Word(text) == [text |-> text, quoted |-> FALSE]
Quoted(text) == [text |-> text, quoted |-> TRUE]
Is(token, text) == ~token.quoted /\ token.text = text
IsValue(token) ==
  token.text # "" /\ (token.quoted \/ token.text \notin {"(", ")", ",", "=", "!"})

\* A scan that looks for a negation only right before a project clause.
IsFlatEnough(tokens) ==
  \A i \in DOMAIN tokens :
    /\ ~Is(tokens[i], "or")
    /\ Is(tokens[i], "project") /\ i > 1 => ~Is(tokens[i - 1], "not")

\* No or, not or ! anywhere, and no parenthesis but the one of an in-list.
IsFlatConjunction(tokens) ==
  \A i \in DOMAIN tokens :
    /\ ~Is(tokens[i], "or") /\ ~Is(tokens[i], "not") /\ ~Is(tokens[i], "!")
    /\ Is(tokens[i], "(") => i > 1 /\ Is(tokens[i - 1], "in")

\* read_in_list: values and commas alternate up to the closing parenthesis.
\* The answer is the position after it, or 0 when the list is malformed.
Closing(tokens, from) ==
  LET ends == {i \in from..Len(tokens) : Is(tokens[i], ")")}
  IN IF ends = {} THEN 0 ELSE CHOOSE i \in ends : \A j \in ends : i <= j

ListWellFormed(tokens, from, to) ==
  /\ (to - from) % 2 = 1
  /\ \A i \in from..(to - 1) :
       IF (i - from) % 2 = 0 THEN IsValue(tokens[i]) ELSE Is(tokens[i], ",")

ReadInList(tokens, at) ==
  LET from == at + 3
      to == Closing(tokens, from)
  IN IF \/ at + 2 > Len(tokens)
        \/ ~Is(tokens[at + 2], "(")
        \/ to = 0
        \/ ~ListWellFormed(tokens, from, to)
     THEN 0 ELSE to + 1

\* project_keys_from_jql: {} stands for "not provably restricted".
NoClaim == {}

ProjectKeys(tokens) ==
  LET n == Len(tokens)
      scan[i \in 1..(n + 1)] ==
        IF i > n THEN [ok |-> TRUE, keys |-> {}]
        ELSE IF ~Is(tokens[i], "project") THEN scan[i + 1]
        ELSE IF i = n THEN [ok |-> FALSE, keys |-> {}]
        ELSE IF Is(tokens[i + 1], "=")
        THEN IF i + 2 > n \/ ~IsValue(tokens[i + 2])
             THEN [ok |-> FALSE, keys |-> {}]
             ELSE LET rest == scan[i + 3]
                  IN [rest EXCEPT !.keys = @ \cup {tokens[i + 2].text}]
        ELSE IF Is(tokens[i + 1], "in")
        THEN IF ReadInList(tokens, i) = 0
             THEN [ok |-> FALSE, keys |-> {}]
             ELSE LET next == ReadInList(tokens, i)
                      rest == scan[next]
                  IN [rest EXCEPT !.keys = @ \cup
                        {tokens[k].text : k \in {k \in (i + 3)..(next - 2) :
                                                   IsValue(tokens[k])}}]
        ELSE scan[i + 1]
  IN IF ~IsFlatConjunction(tokens) \/ ~scan[1].ok THEN NoClaim ELSE scan[1].keys

----------------------------------------------------------------------------
(* Jira. *)

MaxPathSegments == 8

IsPlainId(segment) == segment \in Keys

SearchDetails(method, tokens) ==
  LET keys == ProjectKeys(tokens)
  IN [Read("search_issues", method, "issue", "unscoped", {}) EXCEPT
        !.constraint = IF keys = {} THEN NoConstraint ELSE keys]

\* tokens: of the body's jql for a POST, of the first jql parameter for a GET.
JiraExtract(method, path, tokens) ==
  LET rest == <<"rest", "api", "3">>
  IN CASE Len(path) > MaxPathSegments -> Unclassified(method)
       [] method = "get" /\ Len(path) = 5 /\ SubSeq(path, 1, 4) = Append(rest, "issue")
            /\ IsPlainId(path[5]) -> Read("read_issue", "get", "issue", "ids", {path[5]})
       [] method = "get" /\ path = Append(rest, "project") ->
            Read("read_project", "get", "project", "collection", {})
       [] method = "get" /\ Len(path) = 5 /\ SubSeq(path, 1, 4) = Append(rest, "project")
            /\ IsPlainId(path[5]) -> Read("read_project", "get", "project", "ids", {path[5]})
       [] method \in {"get", "post"} /\ path = rest \o <<"search", "jql">> ->
            SearchDetails(method, tokens)
       [] OTHER -> Unclassified(method)

----------------------------------------------------------------------------
(* Grafana. *)

ProxyPath(uid) == <<"api", "datasources", "proxy", "uid", uid,
                    "loki", "api", "v1", "query_range">>

ListDatasources == Read("list_datasources", "get", "datasource", "collection", {})

QueryLogs(uid) ==
  IF uid \in Keys THEN Read("query_logs", "get", "datasource", "ids", {uid})
  ELSE Unclassified("get")

GrafanaExtract(method, path) ==
  CASE method # "get" -> Unclassified(method)
    [] path = <<"api", "datasources">> -> ListDatasources
    [] Len(path) = 9 /\ path = ProxyPath(path[5]) -> QueryLogs(path[5])
    [] OTHER -> Unclassified(method)

----------------------------------------------------------------------------
(* Slack: the channel is a query parameter, and must be named once.        *)

ChannelActions ==
  [info |-> "read_channel", history |-> "read_channel_history", replies |-> "read_thread"]

ChannelRead(name, channel) ==
  IF channel \in Keys
  THEN Read(ChannelActions[name], "get", "channel", "ids", {channel})
  ELSE Unclassified("get")

ListChannels == Read("list_channels", "get", "channel", "collection", {})
SearchMessages == Read("search_messages", "get", "channel", "unscoped", {})

\* An extractor that takes the first of several channel parameters.
SlackExtractFirst(method, path, channels) ==
  CASE method # "get" \/ Len(path) # 1 -> Unclassified(method)
    [] path[1] \in DOMAIN ChannelActions /\ channels # <<>> -> ChannelRead(path[1], channels[1])
    [] path[1] = "list" -> ListChannels
    [] path[1] = "search" -> SearchMessages
    [] OTHER -> Unclassified(method)

SlackExtract(method, path, channels) ==
  CASE method # "get" \/ Len(channels) > 1 \/ Len(path) # 1 -> Unclassified(method)
    [] path[1] \in DOMAIN ChannelActions ->
         ChannelRead(path[1], IF channels = <<>> THEN "" ELSE channels[1])
    [] path[1] = "list" -> ListChannels
    [] path[1] = "search" -> SearchMessages
    [] OTHER -> Unclassified(method)

----------------------------------------------------------------------------
(* The native read inventory: * is one segment, a final ** one or more.    *)

MatchesPath(pattern, path) ==
  IF Len(pattern) > 0 /\ Last(pattern) = "**"
  THEN /\ Len(path) >= Len(pattern)
       /\ \A i \in 1..(Len(pattern) - 1) : pattern[i] \in {"*", path[i]}
  ELSE /\ Len(path) = Len(pattern)
       /\ \A i \in DOMAIN pattern : pattern[i] \in {"*", path[i]}

NativeRead == Read("read_vendor_resource", "get", "vendor_resource", "unscoped", {})

NativePostRead(vendor, path) ==
  IF \/ vendor = "artifactory" /\ path = <<"api", "search", "aql">>
     \/ vendor = "mend" /\ MatchesPath(<<"api", "v3.0", "orgs", "*", "projects", "summaries">>, path)
  THEN [Unclassified("post") EXCEPT !.risk = "read", !.rtype = "vendor_resource",
                                    !.action = "read_vendor_resource"]
  ELSE Unclassified("post")

----------------------------------------------------------------------------
(* for_vendor: the request about to be sent.  for_tool: what a tool call   *)
(* asks for.  Inventory(vendor): the GET patterns of native.rs.            *)

ForVendor(vendor, method, path, channels, tokens, inventory) ==
  CASE method = "get" /\ \E pattern \in inventory : MatchesPath(pattern, path) -> NativeRead
    [] vendor \in {"mend", "artifactory"} /\ method = "post" -> NativePostRead(vendor, path)
    [] vendor = "grafana" -> GrafanaExtract(method, path)
    [] vendor = "jira" -> JiraExtract(method, path, tokens)
    [] vendor = "slack" -> SlackExtract(method, path, channels)
    [] OTHER -> Unclassified(method)

TypedTools == {"grafana_list_datasources", "grafana_query_logs", "slack_list",
               "slack_info", "slack_history", "slack_replies", "slack_search"}

ForTool(tool, id, declaredRisk) ==
  CASE tool = "grafana_list_datasources" -> ListDatasources
    [] tool = "grafana_query_logs" -> QueryLogs(id)
    [] tool = "slack_list" -> ListChannels
    [] tool = "slack_search" -> SearchMessages
    [] tool = "slack_info" -> ChannelRead("info", id)
    [] tool = "slack_history" -> ChannelRead("history", id)
    [] tool = "slack_replies" -> ChannelRead("replies", id)
    [] OTHER -> UnmappedTool(declaredRisk)

\* What the controller of a typed tool puts on the wire; it refuses an id
\* the extractor would not classify.
WireOf(tool, id) ==
  CASE tool = "grafana_list_datasources" -> [vendor |-> "grafana", path |-> <<"api", "datasources">>, channels |-> <<>>]
    [] tool = "grafana_query_logs" -> [vendor |-> "grafana", path |-> ProxyPath(id), channels |-> <<>>]
    [] tool = "slack_list" -> [vendor |-> "slack", path |-> <<"list">>, channels |-> <<>>]
    [] tool = "slack_search" -> [vendor |-> "slack", path |-> <<"search">>, channels |-> <<>>]
    [] tool = "slack_info" -> [vendor |-> "slack", path |-> <<"info">>, channels |-> <<id>>]
    [] tool = "slack_history" -> [vendor |-> "slack", path |-> <<"history">>, channels |-> <<id>>]
    [] tool = "slack_replies" -> [vendor |-> "slack", path |-> <<"replies">>, channels |-> <<id>>]

----------------------------------------------------------------------------
(* What a query means.  A query is a list of clauses, each possibly        *)
(* negated, joined by "and" and "or" ("and" binds tighter); an issue has a *)
(* project and a status.                                                   *)

ClauseTokens(c) ==
  LET field == Word(c.field)
      list == IF Len(c.values) = 1 THEN <<c.values[1]>>
              ELSE <<c.values[1], Word(","), c.values[2]>>
      body == CASE c.op = "="  -> <<field, Word("=")>> \o list
                [] c.op = "!=" -> <<field, Word("!"), Word("=")>> \o list
                [] c.op = "in" -> <<field, Word("in"), Word("(")>> \o list \o <<Word(")")>>
                [] c.op = "not in" -> <<field, Word("not"), Word("in"), Word("(")>>
                                        \o list \o <<Word(")")>>
  IN CASE c.form = "plain" -> body
       [] c.form = "not" -> <<Word("not")>> \o body
       [] c.form = "group" -> <<Word("(")>> \o body \o <<Word(")")>>
       [] c.form = "not group" -> <<Word("not"), Word("(")>> \o body \o <<Word(")")>>

QueryTokens(q) ==
  FoldLeft(LAMBDA acc, i : (IF i = 1 THEN acc ELSE Append(acc, Word(q.joins[i - 1])))
                           \o ClauseTokens(q.clauses[i]),
           <<>>, [i \in DOMAIN q.clauses |-> i])

ClauseHolds(c, issue) ==
  LET within == issue[c.field] \in {c.values[i].text : i \in DOMAIN c.values}
  IN (within = (c.op \in {"=", "in"})) = (c.form \in {"plain", "group"})

QueryHolds(q, issue) ==
  LET n == Len(q.clauses)
  IN \E from, to \in 1..n :
       /\ from <= to
       /\ from = 1 \/ q.joins[from - 1] = "or"
       /\ to = n \/ q.joins[to] = "or"
       /\ \A i \in from..(to - 1) : q.joins[i] = "and"
       /\ \A i \in from..to : ClauseHolds(q.clauses[i], issue)

\* A search that is said to be bounded by some projects returns no issue of
\* another one, whatever the query negates, groups, quotes or joins.
JqlClaimSound(q, issues) ==
  LET keys == ProjectKeys(QueryTokens(q))
  IN keys # NoClaim => \A issue \in issues : QueryHolds(q, issue) => issue.project \in keys

\* What a tool call asks for and what goes over the wire are classified
\* alike, and a classified channel read addresses one channel only.
WireAgrees(tool, id) ==
  id \in Keys \/ tool \in {"grafana_list_datasources", "slack_list", "slack_search"} =>
    LET wire == WireOf(tool, id)
    IN ForTool(tool, id, "read") = ForVendor(wire.vendor, "get", wire.path, wire.channels, <<>>, {})

OneChannel(path, channels) ==
  LET d == ForVendor("slack", "get", path, channels, <<>>, {})
  IN d.scope = "ids" => {channels[i] : i \in DOMAIN channels} = d.ids

=============================================================================
