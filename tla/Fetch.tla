-------------------------------- MODULE Fetch --------------------------------
(***************************************************************************)
(* Requests to a vendor's API: fetch and fetch_streamed_artifact_with_policy*)
(* of src/src/transport/mod.rs, the redirects of redirect.rs, the retries of*)
(* retry.rs and the response cache of response_cache.rs.                    *)
(*                                                                         *)
(* One vendor namespace holds data that this server's own writes change; a  *)
(* version stands for its content.  A write invalidates the namespace and   *)
(* is then sent, so a read in flight at that time stores what it got after  *)
(* the invalidation.  Every request on the wire is reported to the egress   *)
(* ticket that authorized it (the tickets themselves: module ToolCall).     *)
(***************************************************************************)
EXTENDS Integers, FiniteSets

CONSTANTS Calls,       \* tool calls, each one request
          Keys,        \* cache keys: vendor, url, credential, headers and owner
          Urls,        \* destinations, the base and those redirects name
          Base,        \* the vendor's own url
          OriginOf,    \* the origin of a url
          Secure,      \* https urls
          Denied,      \* urls the policy refuses
          Allowed,     \* MCP_DOWNLOAD_ALLOWED_ORIGINS
          MaxEntries,  \* max_entries of the cache
          MaxAttempts, \* STREAM_MAX_ATTEMPTS
          MaxHops      \* redirects followed (5 in the code)

ASSUME FetchConstants ==
  /\ Base \in Urls \ Denied
  /\ OriginOf \in [Urls -> STRING]
  /\ MaxEntries \in Nat \ {0} /\ MaxAttempts \in Nat \ {0} /\ MaxHops \in Nat
  /\ IsFiniteSet(Keys) /\ "none" \notin Calls

Kinds == {"get", "fresh", "write", "stream"}

VARIABLES
  call,      \* per call: its step and what it has seen so far
  cache,     \* per key: the entry, or NoEntry
  later,     \* per key: the keys used since it was last used (last_used, compared)
  version,   \* upstream: how many writes it has applied
  closed,    \* the cache's session has ended
  acked,     \* history: the version the last acknowledged write produced
  outcomes   \* history: per admission, the terminal outcomes recorded

fetchVars == <<call, cache, later, version, closed, acked, outcomes>>

NoEntry == [by |-> "none", ver |-> -1, expired |-> FALSE, overlap |-> FALSE]

Idle == [pc |-> "new", kind |-> "get", key |-> "none", url |-> Base, cred |-> TRUE,
         seen |-> {Base}, hops |-> 0, attempt |-> 1, got |-> -1,
         due |-> 0, writes |-> 0, overlap |-> FALSE, admitted |-> FALSE]

FetchInit ==
  /\ call = [c \in Calls |-> Idle]
  /\ cache = [k \in Keys |-> NoEntry]
  /\ later = [k \in Keys |-> {}]
  /\ version = 0 /\ closed = FALSE /\ acked = 0
  /\ outcomes = [c \in Calls |-> 0]

Resident == {k \in Keys : cache[k] # NoEntry}

InFlight(c) == call[c].pc \in {"flight", "answered", "body", "backoff"}

OpenWrites == {c \in Calls : call[c].kind = "write" /\ InFlight(c)}

-----------------------------------------------------------------------------
(* The cache.  Each operation holds its mutex throughout.                   *)

\* Every entry that leaves records its outcome.
Ends(keys) == [c \in Calls |-> outcomes[c] + Cardinality({k \in keys : cache[k].by = c})]

Without(keys) == [k \in Keys |-> IF k \in keys THEN NoEntry ELSE cache[k]]

\* Nothing is later than a key without an entry, and it is later than nothing.
Forgotten(order, keys) == [k \in Keys |-> IF k \in keys THEN {} ELSE order[k] \ keys]

\* The cache's clock moves on and k has its value: k is later than every entry.
Used(k) == [j \in Keys |-> IF j \in Resident \ {k} THEN later[j] \cup {k} ELSE {}]

\* remove, drain_matching.
Drop(keys) ==
  /\ cache' = Without(keys)
  /\ later' = Forgotten(later, keys)
  /\ outcomes' = Ends(keys \cap Resident)

Hit(k) == cache[k] # NoEntry /\ ~cache[k].expired

\* evict: the least recently used, until the limits hold.
Victims(order) == {j \in Keys : Cardinality(order[j]) >= MaxEntries}

\* store, of an admitted response: replaces the key's entry, then evicts.
StoreEntry(c, k) ==
  LET evicted == Victims(Used(k))
  IN  /\ cache' = [Without(evicted) EXCEPT
                     ![k] = [by |-> c, ver |-> call[c].got, expired |-> FALSE,
                             overlap |-> call[c].overlap]]
      /\ later' = Forgotten(Used(k), evicted)
      /\ outcomes' = Ends(evicted \cup ({k} \cap Resident))

\* Time passes the entry's lifetime (response_ttl).
Expire(k) ==
  /\ Hit(k)
  /\ cache' = [cache EXCEPT ![k].expired = TRUE]
  /\ UNCHANGED <<call, later, version, closed, acked, outcomes>>

\* maintain: once a second, and when the session ends, after the last request.
Maintain ==
  /\ ~closed
  /\ \/ /\ \E k \in Keys : cache[k].expired
        /\ Drop({k \in Keys : cache[k].expired})
        /\ UNCHANGED closed
     \/ /\ \A c \in Calls : call[c].pc \in {"new", "done"}
        /\ Drop(Keys)
        /\ closed' = TRUE
  /\ UNCHANGED <<call, version, acked>>

-----------------------------------------------------------------------------
(* A request.                                                               *)

\* Puts a call on the wire, to url u, with the vendor's credential or without.
OnWire(r, u, cred) == [r EXCEPT !.pc = "flight", !.url = u, !.cred = cred, !.due = @ + 1,
                                !.writes = IF r.kind = "write" THEN @ + 1 ELSE @]

\* What a call that has ended leaves behind.
Over(r) == [Idle EXCEPT !.pc = "done", !.kind = r.kind, !.due = r.due, !.writes = r.writes,
                        !.admitted = r.admitted]

Finish(c) == call' = [call EXCEPT ![c] = Over(@)]

\* The policy refuses the request itself: nothing is sent.
Refused(c) ==
  /\ call[c].pc = "new" /\ ~closed
  /\ Finish(c)
  /\ UNCHANGED <<cache, later, version, closed, acked, outcomes>>

\* A read served from the cache.
ServeHit(c, k) ==
  /\ call[c].pc = "new" /\ ~closed
  /\ Hit(k)
  /\ call' = [call EXCEPT ![c] = Over(Idle)]
  /\ later' = Used(k)
  /\ UNCHANGED <<cache, version, closed, acked, outcomes>>

\* Mutant: only the request's own entry is invalidated by a write.
InvalidatedKey(kind, k) == IF kind \in {"write", "fresh"} THEN {k} ELSE {}

\* What leaves the cache before a request is sent: the namespace for a write, the
\* entry for a fresh read, an expired or undecodable entry for a read that misses.
Invalidated(kind, k) ==
  CASE kind = "write"  -> Keys
    [] kind = "stream" -> {}
    [] OTHER           -> {k}

\* fetch, from the authorization to the send.
Dispatch(c, kind, k) ==
  /\ call[c].pc = "new" /\ ~closed
  /\ Drop(Invalidated(kind, k))
  /\ LET overlap == kind # "write" /\ OpenWrites # {} IN
       call' = [d \in Calls |->
         IF d = c
         THEN OnWire([Idle EXCEPT !.kind = kind, !.key = k, !.overlap = overlap], Base, TRUE)
         ELSE [call[d] EXCEPT !.overlap = @ \/ (kind = "write" /\ InFlight(d))]]
  /\ UNCHANGED <<version, closed, acked>>

\* Upstream answers; a write takes effect.
Upstream(c) ==
  /\ call[c].pc = "flight"
  /\ LET applied == call[c].kind = "write" /\ call[c].url = Base IN
       /\ version' = IF applied THEN version + 1 ELSE version
       /\ call' = [call EXCEPT ![c].pc = "answered", ![c].got = version']
  /\ UNCHANGED <<cache, later, closed, acked, outcomes>>

Retries(c) == call[c].kind = "stream" /\ call[c].attempt < MaxAttempts

\* Every attempt is reported, however it ended.
Reports(c) == TRUE

Reported(c, pc) ==
  LET r == [call[c] EXCEPT !.pc = pc, !.due = IF Reports(c) THEN @ - 1 ELSE @]
  IN  IF pc = "done" THEN Over(r) ELSE r

\* The send failed or was cut by its timeout or by cancellation.
SendFails(c) ==
  /\ call[c].pc \in {"flight", "answered"}
  /\ \/ /\ Retries(c)
        /\ call' = [call EXCEPT ![c] = Reported(c, "backoff")]
     \/ call' = [call EXCEPT ![c] = Reported(c, "done")]
  /\ UNCHANGED <<cache, later, version, closed, acked, outcomes>>

\* A final response: its body is read next.
Success(c) ==
  /\ call[c].pc = "answered"
  /\ call' = [call EXCEPT ![c] = Reported(c, "body")]
  /\ UNCHANGED <<cache, later, version, closed, acked, outcomes>>

\* A status that is an error: 429 and 502 to 504 are tried again by a download.
ErrorStatus(c) ==
  /\ call[c].pc = "answered"
  /\ call' = [call EXCEPT ![c] = Reported(c, IF Retries(c) THEN "backoff" ELSE "done")]
  /\ UNCHANGED <<cache, later, version, closed, acked, outcomes>>

\* The next attempt starts at the vendor's own url.
Afresh(r) == [r EXCEPT !.attempt = @ + 1, !.hops = 0, !.seen = {Base}]

\* retry_stream_attempt: sleeps, unless the deadline or a cancellation comes first.
Backoff(c) ==
  /\ call[c].pc = "backoff"
  /\ \/ call' = [call EXCEPT ![c] = OnWire(Afresh(@), Base, TRUE)]
     \/ Finish(c)
  /\ UNCHANGED <<cache, later, version, closed, acked, outcomes>>

\* Mutant: the credential comes back with the vendor's own origin.
KeepsCredentialHome(c, u) == OriginOf[u] = OriginOf[Base]

\* credential_allowed: once off the origin, a request never carries it again.
KeepsCredential(c, u) == call[c].cred /\ OriginOf[u] = OriginOf[call[c].url]

\* follow's checks: a GET, no downgrade, the policy, the origin, no loop.
Follows(c, u) ==
  /\ call[c].kind # "write" /\ call[c].hops < MaxHops
  /\ call[c].url \in Secure => u \in Secure
  /\ u \notin Denied
  /\ OriginOf[u] # OriginOf[Base] => OriginOf[u] \in Allowed
  /\ u \notin call[c].seen

Hop(r, u) == [r EXCEPT !.hops = @ + 1, !.seen = @ \cup {u}]

\* A redirect: reported as an answer, then the next hop, or the end.
Redirected(c, u) ==
  /\ call[c].pc = "answered"
  /\ \/ /\ Follows(c, u)
        /\ call' = [call EXCEPT ![c] =
                      OnWire(Hop(Reported(c, "flight"), u), u, KeepsCredential(c, u))]
     \/ /\ ~Follows(c, u)
        /\ call' = [call EXCEPT ![c] = Reported(c, "done")]
  /\ UNCHANGED <<cache, later, version, closed, acked, outcomes>>

\* The body: an error, data that is stored, or data that is not (too large, a
\* no-store header, a rejected admission, a fresh read or a download).
Body(c) ==
  /\ call[c].pc = "body"
  /\ acked' = IF call[c].kind = "write" /\ acked < call[c].got THEN call[c].got ELSE acked
  /\ \/ /\ call[c].kind = "get"
        /\ StoreEntry(c, call[c].key)
        /\ call' = [call EXCEPT ![c] = Over([@ EXCEPT !.admitted = TRUE])]
     \/ Finish(c) /\ UNCHANGED <<cache, later, outcomes>>
  /\ UNCHANGED <<version, closed>>

\* A rejected admission has its outcome at once.
Rejected(c) ==
  /\ call[c].pc = "body" /\ call[c].kind = "get"
  /\ call' = [call EXCEPT ![c] = Over([@ EXCEPT !.admitted = TRUE])]
  /\ outcomes' = [outcomes EXCEPT ![c] = @ + 1]
  /\ UNCHANGED <<cache, later, version, closed, acked>>

FetchNext ==
  \/ \E c \in Calls :
       \/ Refused(c) \/ Upstream(c) \/ SendFails(c) \/ Success(c) \/ ErrorStatus(c)
       \/ Backoff(c) \/ Body(c) \/ Rejected(c)
       \/ \E u \in Urls : Redirected(c, u)
       \/ \E k \in Keys : ServeHit(c, k) \/ (\E kind \in Kinds : Dispatch(c, kind, k))
  \/ \E k \in Keys : Expire(k)
  \/ Maintain

FetchSpec == FetchInit /\ [][FetchNext]_fetchVars

-----------------------------------------------------------------------------
(* Properties.                                                              *)

\* A strict linear order of the entries, and nothing else.
OrderOfUse(order, entries) ==
  /\ \A k \in Keys : order[k] \subseteq entries \ {k} /\ (k \notin entries => order[k] = {})
  /\ \A j, k \in entries : j # k => (j \in order[k] <=> k \notin order[j])
  /\ \A j, k \in entries : j \in order[k] => order[j] \subseteq order[k]

\* The cache stays within its limits, and its entries, and no others, are in order
\* of their last use.
CacheBounded ==
  /\ Cardinality(Resident) <= MaxEntries
  /\ OrderOfUse(later, Resident)

\* Data older than a write this server saw acknowledged is in the cache only if
\* its read and that write overlapped: invalidating before the send leaves no
\* other way for a stale entry.
StaleOnlyIfOverlapped ==
  \A k \in Resident : cache[k].ver < acked => cache[k].overlap

\* Every admission the cache records has one terminal outcome, once its entry is
\* gone, whichever of expiry, eviction, replacement, invalidation and the end of
\* the session came first.
OneOutcome ==
  \A c \in Calls :
    outcomes[c] = IF call[c].admitted /\ \A k \in Keys : cache[k].by # c THEN 1 ELSE 0

\* What the response cache promises a reader and its observer.
CacheCoherent == StaleOnlyIfOverlapped /\ CacheBounded /\ OneOutcome

\* Redirects never carry the credential off the vendor's origin and back, reach
\* an origin that is not listed or a url the policy refuses, or leave https.
HopsContained ==
  \A c \in Calls : call[c].pc = "flight" =>
    /\ call[c].url \notin Denied
    /\ OriginOf[call[c].url] \in Allowed \cup {OriginOf[Base]}
    /\ call[c].cred => \A u \in call[c].seen : OriginOf[u] = OriginOf[Base]
    /\ Base \in Secure => call[c].seen \subseteq Secure

\* The egress record accounts for every request on the wire, and a write goes on
\* the wire at most once.
AttemptsReported ==
  \A c \in Calls :
    /\ call[c].due = IF call[c].pc \in {"flight", "answered"} THEN 1 ELSE 0
    /\ call[c].writes <= 1

(* Whatever the redirects and retries of one call, what is on the wire was  *)
(* let through and is accounted for, and what is read back from the cache   *)
(* is what the upstream last said (fetch, follow, ResponseCache).           *)
FetchFaithful == CacheCoherent /\ HopsContained /\ AttemptsReported
=============================================================================
