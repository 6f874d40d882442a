------------------------------- MODULE Policy -------------------------------
(***************************************************************************)
(* The file-backed policy (policy/engine.rs) over the canonical action     *)
(* context (policy/mod.rs): what a document may say, what a rule matches,  *)
(* and what the rules of a document decide together.                       *)
(*                                                                         *)
(* The engine keeps no state: a behaviour is one question and its answer.  *)
(* A pattern and the text it is held against are sequences of bytes.  A    *)
(* rule key that is not given is NotGiven; a given key is a set of alternatives.*)
(***************************************************************************)
EXTENDS Naturals, Sequences, SequencesExt, FiniteSets

CONSTANT NotGiven   \* a key the rule, or the context, does not carry

ASSUME PolicyConstants == NotGiven \notin STRING

VARIABLE question   \* what is asked: [kind, ...]

----------------------------------------------------------------------------
(* Glob::matches, the two-pointer walk: star remembers the last wildcard   *)
(* and where its run began; a dead end lengthens that run by one byte.     *)

Star == "*"
Walk == [p |-> 1, t |-> 1, star |-> 0, run |-> 0, failed |-> FALSE]

AtByte(pattern, p, byte) == p <= Len(pattern) /\ pattern[p] = byte

\* A walk that forgets to lengthen the run.
GlobStepStuck(pattern, text, w) ==
  IF AtByte(pattern, w.p, Star) THEN [w EXCEPT !.star = w.p, !.run = w.t, !.p = @ + 1]
  ELSE IF AtByte(pattern, w.p, text[w.t]) THEN [w EXCEPT !.p = @ + 1, !.t = @ + 1]
  ELSE [w EXCEPT !.failed = TRUE]

GlobStep(pattern, text, w) ==
  IF AtByte(pattern, w.p, Star) THEN [w EXCEPT !.star = w.p, !.run = w.t, !.p = @ + 1]
  ELSE IF AtByte(pattern, w.p, text[w.t]) THEN [w EXCEPT !.p = @ + 1, !.t = @ + 1]
  ELSE IF w.star # 0 THEN [w EXCEPT !.p = w.star + 1, !.t = w.run + 1, !.run = @ + 1]
  ELSE [w EXCEPT !.failed = TRUE]

\* Every step either consumes a byte, passes a wildcard or lengthens a run,
\* so the walk ends within the product of the lengths.
GlobMatches(pattern, text) ==
  LET bound == (Len(pattern) + 2) * (Len(text) + 2)
      walk[n \in 0..bound] ==
        IF n = 0 THEN Walk
        ELSE LET w == walk[n - 1]
             IN IF w.failed \/ w.t > Len(text) THEN w ELSE GlobStep(pattern, text, w)
      end == walk[bound]
  IN /\ ~end.failed
     /\ end.t > Len(text)
     /\ \A i \in end.p..Len(pattern) : pattern[i] = Star

AnyGlob(globs, text) == \E glob \in globs : GlobMatches(glob, text)

\* What a pattern means: the text is the pattern with a run for every star.
\* from[k]: the places from which the rest of the text is what the last k
\* bytes of the pattern mean.
GlobMeans(pattern, text) ==
  LET from[k \in 0..Len(pattern)] ==
        IF k = 0 THEN {Len(text) + 1}
        ELSE LET byte == pattern[Len(pattern) + 1 - k]
             IN IF byte = Star THEN {t \in 1..Len(text) + 1 : \E s \in from[k - 1] : t <= s}
                ELSE {t \in 1..Len(text) : text[t] = byte /\ t + 1 \in from[k - 1]}
  IN 1 \in from[Len(pattern)]

----------------------------------------------------------------------------
(* ResourceScope and ResourceConstraint: an empty id list is no claim.     *)

Unscoped == [kind |-> "unscoped", ids |-> {}]
Collection == [kind |-> "collection", ids |-> {}]
ScopeIds(ids) == IF ids = {} THEN Unscoped ELSE [kind |-> "ids", ids |-> ids]

\* A check that an empty or unknown scope passes vacuously.
AllIdsAllowedVacuously(scope, globs) == \A id \in scope.ids : AnyGlob(globs, id)
AllIdsAllowed(scope, globs) ==
  scope.kind = "ids" /\ \A id \in scope.ids : AnyGlob(globs, id)

Constraint(rtype, ids) ==
  IF ids = {} THEN NotGiven ELSE [rtype |-> rtype, scope |-> ScopeIds(ids)]

----------------------------------------------------------------------------
(* Compilation: what a document may not say. *)

Given(set) == set # NotGiven

SubjectsRefused(s) ==
  LET lists == {s.groups, s.subjects, s.scopes}
      named == \E l \in lists : Given(l)
  IN s.everyone = named \/ {} \in lists

MemberKeys == {"destination_origin", "vendor", "environment", "normalized_action",
               "request_risk", "resource_type", "upstream_authority", "method"}
GlobKeys == {"tool_name", "canonical_path"}

RuleRefused(rule) ==
  \/ SubjectsRefused(rule.subjects)
  \/ "resource_type" \in DOMAIN rule.lists /\ "unknown" \in rule.lists["resource_type"]
  \/ rule.constrainedBy # NotGiven
       /\ (rule.constrainedBy.rtype = "unknown" \/ rule.constrainedBy.ids = {})
  \/ rule.resourceId = {}

\* A document whose default is not deny, or with two rules of one id, is
\* refused as a whole; nothing of it comes into force.
CompileRefused(doc) ==
  \/ doc.default # "deny"
  \/ \E i, j \in DOMAIN doc.rules : i # j /\ doc.rules[i].id = doc.rules[j].id
  \/ \E i \in DOMAIN doc.rules : RuleRefused(doc.rules[i])

----------------------------------------------------------------------------
(* Matching: every key a rule gives must match. *)

SubjectMatches(s, principal) ==
  \/ s.everyone
  \/ /\ Given(s.groups) => \E g \in principal.groups : AnyGlob(s.groups, g)
     /\ Given(s.subjects) => AnyGlob(s.subjects, principal.subject)
     /\ Given(s.scopes) => \E x \in principal.scopes : AnyGlob(s.scopes, x)

Fails(rule, context, key) ==
  CASE key = "subjects" -> ~SubjectMatches(rule.subjects, context.principal)
    [] key \in MemberKeys ->
         key \in DOMAIN rule.lists /\ context[key] \notin rule.lists[key]
    [] key \in GlobKeys ->
         key \in DOMAIN rule.globs /\ ~AnyGlob(rule.globs[key], context[key])
    [] key = "resource_id" ->
         rule.resourceId # NotGiven /\ ~AllIdsAllowed(context.scope, rule.resourceId)
    [] key = "resource_scope" ->
         rule.resourceScope # NotGiven /\ context.scope.kind # rule.resourceScope
    [] key = "constrained_by" ->
         /\ rule.constrainedBy # NotGiven
         /\ \/ context.constraint = NotGiven
            \/ context.constraint.rtype # rule.constrainedBy.rtype
            \/ ~AllIdsAllowed(context.constraint.scope, rule.constrainedBy.ids)

KeyOrder == <<"destination_origin", "subjects", "vendor", "environment", "tool_name",
              "normalized_action", "request_risk", "resource_type", "upstream_authority",
              "method", "canonical_path", "resource_id", "resource_scope",
              "constrained_by">>

\* The first key that fails, or "none": what `policy explain` prints.
Mismatch(rule, context) ==
  LET failing == {i \in DOMAIN KeyOrder : Fails(rule, context, KeyOrder[i])}
  IN IF failing = {} THEN "none" ELSE KeyOrder[Min(failing)]

Matches(rule, context) == Mismatch(rule, context) = "none"

----------------------------------------------------------------------------
(* evaluate: one pass; a matching deny ends it, the first allow is kept.   *)

DefaultDeny == [effect |-> "deny", rule |-> NotGiven]
ByRule(rule) == [effect |-> rule.effect, rule |-> rule.id]

Reaching(rules, context) == {i \in DOMAIN rules : Matches(rules[i], context)}

\* An evaluation in which the first matching rule wins.
EvaluateFirst(rules, context) ==
  LET hits == Reaching(rules, context)
  IN IF context.resource_type = "unknown" \/ hits = {} THEN DefaultDeny
     ELSE ByRule(rules[Min(hits)])

Evaluate(rules, context) ==
  LET hits == Reaching(rules, context)
      denies == {i \in hits : rules[i].effect = "deny"}
  IN IF context.resource_type = "unknown" \/ hits = {} THEN DefaultDeny
     ELSE ByRule(rules[Min(IF denies # {} THEN denies ELSE hits)])

\* explain: the same decision with the part of every rule in it.
Explain(rules, context) ==
  LET decision == Evaluate(rules, context)
  IN [decision |-> decision,
      rules |-> [i \in DOMAIN rules |->
                   [mismatch |-> Mismatch(rules[i], context),
                    decisive |-> /\ context.resource_type # "unknown"
                                 /\ rules[i].id = decision.rule]]]

RulesFor(rules, principal) ==
  {i \in DOMAIN rules : SubjectMatches(rules[i].subjects, principal)}

----------------------------------------------------------------------------
\* The walk decides what the pattern means (Glob::matches is linear and
\* allocation-free, so it is not the definition a reader would write).
GlobExact(pattern, text) == GlobMatches(pattern, text) = GlobMeans(pattern, text)

\* What a document decides: a call is allowed exactly when it is classified,
\* some allow rule reaches it and no deny rule does, whatever the order of
\* the rules; an id-scoped allow reaches it only if every id it addresses is
\* covered; the explanation names exactly one decisive rule and it matched;
\* a principal no rule names is allowed nothing.
DecisionExact(doc, context) ==
  LET rules == doc.rules
      d == Evaluate(rules, context)
      x == Explain(rules, context)
      reach(effect) == {i \in DOMAIN rules :
                          rules[i].effect = effect /\ Matches(rules[i], context)}
      decisive == {i \in DOMAIN rules : x.rules[i].decisive}
  IN CompileRefused(doc) \/
     /\ d.effect = "allow" <=>
          context.resource_type # "unknown" /\ reach("allow") # {} /\ reach("deny") = {}
     /\ d.effect = "allow" =>
          \A i \in decisive :
            /\ rules[i].resourceId # NotGiven =>
                 /\ context.scope.ids # {}
                 /\ \A id \in context.scope.ids :
                      \E glob \in rules[i].resourceId : GlobMeans(glob, id)
            /\ rules[i].constrainedBy # NotGiven =>
                 \A id \in context.constraint.scope.ids :
                   \E glob \in rules[i].constrainedBy.ids : GlobMeans(glob, id)
     /\ Cardinality(decisive) = (IF d.rule = NotGiven THEN 0 ELSE 1)
     /\ \A i \in decisive : x.rules[i].mismatch = "none" /\ rules[i].effect = d.effect
     /\ RulesFor(rules, context.principal) = {} => d.effect = "deny"
     /\ Evaluate(Reverse(rules), context).effect = d.effect

(* What the policy decides is what its document says (policy/engine.rs):   *)
(* the glob walk matches exactly what the pattern means, and a decision is *)
(* the one the rules imply whatever their order.                           *)
PolicyExact ==
  CASE question.kind = "glob"   -> GlobExact(question.pattern, question.text)
    [] question.kind = "policy" -> DecisionExact(question.doc, question.context)
    [] OTHER -> TRUE

----------------------------------------------------------------------------
(* The questions: any pattern and text; any document whose rules have      *)
(* names, effects and globs, over any context that the constructors of     *)
(* scopes and constraints can make.                                        *)

Texts == Seq(STRING)
GlobSets == (SUBSET Texts) \cup {NotGiven}

IsScope(scope) ==
  \/ scope \in {Unscoped, Collection}
  \/ scope.kind = "ids" /\ scope.ids # {} /\ scope.ids \in SUBSET Texts

IsRule(rule) ==
  /\ rule.id \in STRING /\ rule.effect \in {"allow", "deny"} /\ rule.resourceId \in GlobSets
  /\ rule.constrainedBy # NotGiven => rule.constrainedBy.ids \in SUBSET Texts

IsContext(context) ==
  /\ IsScope(context.scope)
  /\ context.constraint # NotGiven => IsScope(context.constraint.scope)

IsDocument(doc) ==
  /\ Len(doc.rules) \in Nat /\ DOMAIN doc.rules = 1..Len(doc.rules)
  /\ \A i \in DOMAIN doc.rules : IsRule(doc.rules[i])

PolicyInit ==
  \/ question.kind = "glob" /\ question.pattern \in Texts /\ question.text \in Texts
  \/ question.kind = "policy" /\ IsDocument(question.doc) /\ IsContext(question.context)

PolicySpec == PolicyInit /\ [][UNCHANGED question]_question
=============================================================================
