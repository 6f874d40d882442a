------------------------------- MODULE Inbound -------------------------------
(***************************************************************************)
(* Inbound bearer tokens: OidcJwksValidator of src/src/auth/oidc.rs behind  *)
(* require_bearer of server/auth.rs.  Requests, the background refresh and  *)
(* the revocation watcher share the key cache and the validated cache, each *)
(* behind its own lock; between two of their steps the provider (or the     *)
(* operator of a JWKS file) may publish other keys.                         *)
(***************************************************************************)
EXTENDS Claims

CONSTANTS Reqs,      \* requests, each used again and again
          Tokens,    \* tokens, and TokenOf[t] what t says
          TokenOf,
          Kids,      \* key ids
          Docs,      \* JWKS documents published over time, and DocOf[d] the entries of d
          DocOf,
          Lists,     \* bound: the revocation files that occur
          Commands,  \* commands of `mcp-devtools revoke`
          Settings,  \* configurations the server may be started with
          Capacity   \* VALIDATED_CAPACITY

ASSUME InboundConstants ==
  /\ Capacity \in Nat \ {0}
  /\ {"nobody", "refresher"} \cap Reqs = {}

Failed == "failed"   \* a fetch or a file read that gave no document
NoDoc  == "no"       \* no digest
Nobody == "nobody"
Refresher == "refresher" \* the task maybe_refresh_in_background spawns

VARIABLES
  settings,   \* OidcSettings, fixed at start
  published,  \* what the provider serves, or the file holds
  keys,       \* KeyCache.keys: the material admitted under each kid, or None
  fetched,    \* KeyCache.fetched_at is set
  digest,     \* file_digest: the document last loaded
  gate,       \* who holds fetch_gate, and the answer it is about to apply
  recent,     \* an unknown kid was refetched within jwks_min_refetch_interval
  refresher,  \* the background refresh: "off", "queued" or "busy"
  validated,  \* per token: the kid and material that verified it, or NoEntry
  list,       \* the revocation list in force, as the file that was loaded
  req         \* per request

vars == <<settings, published, keys, fetched, digest, gate, recent, refresher, validated,
          list, req>>

NoEntry == [mat |-> None, expired |-> FALSE]
NoTok   == "no token"
Resting == [pc |-> "done", tok |-> NoTok, mat |-> None, fresh |-> FALSE, why |-> None,
            vouched |-> FALSE, lacked |-> FALSE]   \* history: the keys in force since it began

AdmitKeys(doc) ==
  IF doc \in {Failed, NoDoc} THEN [k \in Kids |-> None]
  ELSE [k \in Kids |-> AdmitKey(DocOf[doc], k)]

\* The material a key set admits for the token; one without a known kid has none.
KeyOf(ks, t) == IF TokenOf[t].kid \in Kids THEN ks[TokenOf[t].kid] ELSE None

FileMode == settings.jwks = "file"

Init ==
  /\ settings \in {s \in Settings : ~SettingsRefused(s)}
  /\ published \in Docs
  /\ keys = AdmitKeys(NoDoc) /\ fetched = FALSE /\ digest = NoDoc
  /\ gate = [by |-> Nobody, answer |-> NoDoc]
  /\ recent = FALSE /\ refresher = "off"
  /\ validated = [t \in Tokens |-> NoEntry]
  /\ list \in {f \in Lists : ~FileRefused(f)}
  /\ req = [r \in Reqs |-> Resting]

-----------------------------------------------------------------------------
(* The world outside.                                                       *)

\* Every request under way has now also run under these keys.
Seeing(q, ks) ==
  [r \in Reqs |-> IF q[r].pc = "done" THEN q[r]
                  ELSE LET key == KeyOf(ks, q[r].tok)
                       IN  [q[r] EXCEPT !.vouched = @ \/ key = TokenOf[q[r].tok].mat,
                                        !.lacked = @ \/ key = None]]

Publish(d) ==
  /\ d # published
  /\ published' = d
  /\ req' = IF FileMode THEN Seeing(req, AdmitKeys(d)) ELSE req
  /\ UNCHANGED <<settings, keys, fetched, digest, gate, recent, refresher, validated, list>>

\* Time: a cached entry passes its ttl, which ends before the token does; a refetch is
\* allowed again.
Expire(t) ==
  /\ validated[t] # NoEntry /\ ~validated[t].expired
  /\ validated' = [validated EXCEPT ![t].expired = TRUE]
  /\ UNCHANGED <<settings, published, keys, fetched, digest, gate, recent, refresher,
                 list, req>>

CoolDown ==
  /\ recent /\ recent' = FALSE
  /\ UNCHANGED <<settings, published, keys, fetched, digest, gate, refresher, validated,
                 list, req>>

\* The revocation watcher finds another file: the list, and clear_validated.  One that
\* does not parse changes nothing.
WatchList(f) ==
  /\ f # list /\ ~FileRefused(f)
  /\ list' = f
  /\ validated' = [t \in Tokens |-> NoEntry]
  /\ UNCHANGED <<settings, published, keys, fetched, digest, gate, recent, refresher, req>>

\* Written by hand, or by a command.
HandEdit(f) == f \in Lists /\ WatchList(f)
Revoke(c) ==
  /\ ~CommandRefused(list, c)
  /\ Edited(list, c) \in Lists
  /\ WatchList(Edited(list, c))

-----------------------------------------------------------------------------
(* Keys.                                                                    *)

\* Mutant: the cache is pruned by kid alone.
PruneByKid(ks) == [t \in Tokens |-> IF validated[t] # NoEntry /\ KeyOf(ks, t) = None
                                    THEN NoEntry ELSE validated[t]]

\* The validated entries whose key is still admitted, material included.
Pruned(ks) == [t \in Tokens |-> IF validated[t] # NoEntry /\ KeyOf(ks, t) # validated[t].mat
                                THEN NoEntry ELSE validated[t]]

\* install_keys: keys, age, generation and the pruned cache in one critical section.
\* A generation is compared with the current one only, so fresh stands for it.
Install(ks, q) ==
  /\ keys' = ks /\ fetched' = TRUE
  /\ validated' = Pruned(ks)
  /\ LET seen == IF FileMode /\ gate.answer # Failed THEN q ELSE Seeing(q, ks)
     IN  req' = [r \in Reqs |-> [seen[r] EXCEPT !.fresh = FALSE]]

\* Mutant: a failed read of the file forgets the keys but not the digest.
ApplyKeepingDigest(q) ==
  IF gate.answer = IF FileMode THEN digest ELSE Failed
  THEN req' = q /\ UNCHANGED <<keys, fetched, validated, digest>>
  ELSE /\ Install(AdmitKeys(gate.answer), q)
       /\ digest' = IF FileMode /\ gate.answer # Failed THEN gate.answer ELSE digest

\* fetch_and_store, load_file: a failure keeps remote keys and clears those of a file;
\* a file whose digest has not changed is not installed again.
Apply(q) ==
  IF FileMode
  THEN IF gate.answer = digest
       THEN req' = q /\ UNCHANGED <<keys, fetched, validated, digest>>
       ELSE /\ Install(AdmitKeys(gate.answer), q)
            /\ digest' = IF gate.answer = Failed THEN NoDoc ELSE gate.answer
  ELSE IF gate.answer = Failed
       THEN req' = q /\ UNCHANGED <<keys, fetched, validated, digest>>
       ELSE Install(AdmitKeys(gate.answer), q) /\ UNCHANGED digest

\* Takes fetch_gate and gets an answer, of the source as it is now; through a discovery
\* document when that is how the keys are found.
Fetch(w) ==
  /\ gate.by = Nobody
  /\ \E a \in {Failed} \cup (IF settings.jwks = "discovery" /\ ~Discovered(settings.discovery, settings.issuer)
                             THEN {} ELSE {published}) : gate' = [by |-> w, answer |-> a]

Free == gate' = [by |-> Nobody, answer |-> NoDoc]

-----------------------------------------------------------------------------
(* A request: require_bearer around authenticate.                           *)

Goto(r, pc) == [req EXCEPT ![r].pc = pc]

\* The request is over; why says how.
Over(q, r, why) == [q EXCEPT ![r].pc = "done", ![r].why = why, ![r].mat = None,
                             ![r].fresh = FALSE]

\* A request with a bearer token; without one it is refused at once.
Begin(r, t) ==
  LET ks == IF FileMode THEN AdmitKeys(published) ELSE keys
  IN  /\ req[r].pc = "done"
      /\ req' = [req EXCEPT ![r] =
                   [Resting EXCEPT !.pc = IF FileMode THEN "load" ELSE "lookup", !.tok = t,
                                   !.vouched = (KeyOf(ks, t) = TokenOf[t].mat),
                                   !.lacked = (KeyOf(ks, t) = None)]]
  /\ UNCHANGED <<settings, published, keys, fetched, digest, gate, recent, refresher, validated,
                 list>>

\* authenticate over a file: refresh_keys comes before the cache.
Load(r) ==
  /\ req[r].pc = "load"
  /\ Fetch(r)
  /\ req' = Goto(r, "loading")
  /\ UNCHANGED <<settings, published, keys, fetched, digest, recent, refresher, validated,
                 list>>

Loaded(r) ==
  /\ req[r].pc = "loading"
  /\ Apply(IF gate.answer = Failed THEN Over(req, r, "unavailable") ELSE Goto(r, "lookup"))
  /\ Free
  /\ UNCHANGED <<settings, published, recent, refresher, list>>

Hit(t) == validated[t] # NoEntry /\ ~validated[t].expired

\* cached, else the header checks of validate_uncached.
Lookup(r) ==
  LET t == req[r].tok
  IN  /\ req[r].pc = "lookup"
      /\ req' = IF Hit(t) THEN [req EXCEPT ![r].pc = "bearer", ![r].mat = validated[t].mat]
                ELSE IF HeaderRefused(TokenOf[t]) THEN Over(req, r, "invalid")
                ELSE Goto(r, "snapshot")
      /\ UNCHANGED <<settings, published, keys, fetched, digest, gate, recent, refresher,
                     validated, list>>

\* Reads the keys; old ones start a refresh, missing ones make the request wait.
Snapshot(r) ==
  /\ req[r].pc = "snapshot"
  /\ req' = IF ~fetched THEN Goto(r, "first")
            ELSE IF KeyOf(keys, req[r].tok) = None THEN Goto(r, "unknown")
            ELSE [req EXCEPT ![r].pc = "verify", ![r].mat = KeyOf(keys, req[r].tok),
                             ![r].fresh = TRUE]
  /\ \/ UNCHANGED refresher
     \/ ~FileMode /\ fetched /\ refresher = "off" /\ refresher' = "queued"
  /\ UNCHANGED <<settings, published, keys, fetched, digest, gate, recent, validated, list>>

\* Nobody has fetched yet: the request pays for the first fetch, if nobody did meanwhile.
First(r) ==
  /\ req[r].pc = "first"
  /\ IF fetched THEN gate.by = Nobody /\ req' = Goto(r, "snapshot") /\ UNCHANGED gate
     ELSE Fetch(r) /\ req' = Goto(r, "firsting")
  /\ UNCHANGED <<settings, published, keys, fetched, digest, recent, refresher, validated,
                 list>>

Firsted(r) ==
  /\ req[r].pc = "firsting"
  /\ Apply(IF gate.answer = Failed THEN Over(req, r, "unavailable") ELSE Goto(r, "snapshot"))
  /\ Free
  /\ UNCHANGED <<settings, published, recent, refresher, list>>

\* refetch_for_unknown_kid.
Unknown(r) ==
  /\ req[r].pc = "unknown"
  /\ IF recent THEN gate.by = Nobody /\ req' = Goto(r, "resnapshot") /\ UNCHANGED <<gate, recent>>
     ELSE Fetch(r) /\ recent' = TRUE /\ req' = Goto(r, "refetching")
  /\ UNCHANGED <<settings, published, keys, fetched, digest, refresher, validated, list>>

Refetched(r) ==
  /\ req[r].pc = "refetching"
  /\ Apply(Goto(r, "resnapshot"))
  /\ Free
  /\ UNCHANGED <<settings, published, recent, refresher, list>>

Resnapshot(r) ==
  LET mat == KeyOf(keys, req[r].tok)
  IN  /\ req[r].pc = "resnapshot"
      /\ req' = IF mat = None THEN Over(req, r, "unknown_key")
                ELSE [req EXCEPT ![r].pc = "verify", ![r].mat = mat, ![r].fresh = TRUE]
      /\ UNCHANGED <<settings, published, keys, fetched, digest, gate, recent, refresher,
                     validated, list>>

\* Mutant: whatever was verified is remembered, old keys or not.
RememberStale(r, life) ==
  [validated EXCEPT ![req[r].tok] = [mat |-> req[r].mat, expired |-> FALSE]]

\* remember: not once the keys were replaced, not in the skew, and never over capacity.
Remember(r, life) ==
  LET t    == req[r].tok
      kept == {x \in Tokens : validated[x] # NoEntry /\ ~validated[x].expired}
      full == Cardinality({x \in Tokens : validated[x] # NoEntry}) >= Capacity
      room == IF ~full THEN validated
              ELSE [x \in Tokens |-> IF x \in kept /\ Cardinality(kept) < Capacity
                                     THEN validated[x] ELSE NoEntry]
  IN  IF ~req[r].fresh \/ life # "live" THEN validated
      ELSE [room EXCEPT ![t] = [mat |-> req[r].mat, expired |-> FALSE]]

\* decode under the snapshot's key, principal_from, remember; life is how far the token
\* has run by then.
Verify(r, life) ==
  LET t  == req[r].tok
      ok == TokenOf[t].mat = req[r].mat /\ ~ClaimsRefused(TokenOf[t], life)
  IN  /\ req[r].pc = "verify"
      /\ req' = IF ok THEN Goto(r, "bearer") ELSE Over(req, r, "invalid")
      /\ validated' = IF ok THEN Remember(r, life) ELSE validated
      /\ UNCHANGED <<settings, published, keys, fetched, digest, gate, recent, refresher,
                     list>>

\* The rest of require_bearer: revocation on every request, then scope, then the
\* kind of principal at the admin boundary.  The rate limit: module RateLimit.
Bearer(r, admin) ==
  LET t     == TokenOf[req[r].tok]
      scope == IF admin THEN "mcp:admin" ELSE "mcp:tools"
      kind  == SubjectKind(settings, t.claims)
  IN  /\ req[r].pc = "bearer"
      /\ req' = Over(req, r, IF Revoked(CompileList(list), t) THEN "revoked"
                               ELSE IF scope \notin t.scopes THEN "scope"
                               ELSE IF admin /\ ~Admits(settings.admins, kind) THEN "kind"
                               ELSE "ok")
      /\ UNCHANGED <<settings, published, keys, fetched, digest, gate, recent, refresher,
                     validated, list>>

\* The client goes away: the handler is dropped where it waits.
Cancel(r) ==
  /\ req[r].pc \in {"load", "loading", "first", "firsting", "unknown", "refetching"}
  /\ req' = [req EXCEPT ![r] = Resting]
  /\ IF gate.by = r THEN Free ELSE UNCHANGED gate
  /\ UNCHANGED <<settings, published, keys, fetched, digest, recent, refresher, validated,
                 list>>

\* The background refresh: a failure keeps serving the cached keys.
Refresh ==
  /\ refresher = "queued"
  /\ Fetch(Refresher)
  /\ refresher' = "busy"
  /\ UNCHANGED <<settings, published, keys, fetched, digest, recent, validated, list, req>>

Refreshed ==
  /\ refresher = "busy"
  /\ Apply(req)
  /\ Free
  /\ refresher' = "off"
  /\ UNCHANGED <<settings, published, recent, list>>

Request(r) ==
  \/ \E t \in Tokens : Begin(r, t)
  \/ Load(r) \/ Loaded(r) \/ Lookup(r) \/ Snapshot(r) \/ First(r) \/ Firsted(r)
  \/ Unknown(r) \/ Refetched(r) \/ Resnapshot(r) \/ Cancel(r)
  \/ \E life \in {"early", "live", "late", "expired"} : Verify(r, life)
  \/ \E admin \in BOOLEAN : Bearer(r, admin)

Next ==
  \/ \E r \in Reqs : Request(r)
  \/ Refresh \/ Refreshed
  \/ \E d \in Docs : Publish(d)
  \/ \E t \in Tokens : Expire(t)
  \/ CoolDown
  \/ \E f \in Lists : HandEdit(f)
  \/ \E c \in Commands : Revoke(c)

Spec == Init /\ [][Next]_vars

-----------------------------------------------------------------------------
(* Properties.                                                              *)

(* No cached validation outlives its key: what the validated cache vouches  *)
(* for was verified by material that is still admitted under its kid, though*)
(* verifying, installing keys and remembering interleave (install_keys,     *)
(* remember).                                                               *)
CacheFollowsKeys ==
  \A t \in Tokens : validated[t] # NoEntry => KeyOf(keys, t) = validated[t].mat

(* A request is decided by keys in force while it ran.  Let through, its    *)
(* token was signed by material that some key set in force during the       *)
(* request admits: for a JWKS file, one the file held since the request     *)
(* began.  Refused for an unknown key, some such key set lacks it, so a file*)
(* that is whole again is never taken for one that is not.                  *)
DecidedByLiveKeys ==
  \A r \in Reqs : /\ req[r].why = "ok" => req[r].vouched
                  /\ req[r].why = "unknown_key" => req[r].lacked

(* Authentication follows the keys: both of the above.                      *)
LiveKeysOnly == CacheFollowsKeys /\ DecidedByLiveKeys
===============================================================================
