----------------------------- MODULE MCTransport -----------------------------
(***************************************************************************)
(* Three parts of the transport that share no state in the program, each   *)
(* on its own (`part` says which): two downloads under the disk quota, one *)
(* of them with a manifest; three fetches and the response cache, without  *)
(* retries or redirects, and two with both; and a partitioned log query.   *)
(***************************************************************************)
EXTENDS Artifacts, Fetch, Ingest, TLC

CONSTANTS f1, f2, o1, o2

MCFiles == {f1, f2}
MCOps == {o1, o2}
MCLeases == MCFiles \X {"data", "side"}
MCFiles2Op == [f \in MCFiles |-> IF f = f1 THEN o1 ELSE o2]
MCOpOf == [l \in MCLeases |-> MCFiles2Op[l[1]]]
MCAsk == [l \in MCLeases |-> IF l = <<f2, "data">> THEN 2 ELSE 1]
MCWithManifest == {f1}

(* A vendor over https, a listed download origin, one that is not, and a   *)
(* url the policy refuses.                                                 *)
MCUrls == {"base", "page", "store", "elsewhere", "plain", "barred"}
MCOriginOf == [u \in MCUrls |-> CASE u = "store" -> "cdn" [] u = "elsewhere" -> "other"
                                  [] u = "plain" -> "cdn" [] OTHER -> "vendor"]
Spare == CHOOSE c \in Calls : TRUE

(* Windows on both sides of the epoch; answers sorted either way; a limit  *)
(* that truncates; every shape of an answer's objects.  The two streams    *)
(* are alike, so the first record is always of the same one.               *)
Query == [vendor |-> "splunk", start |-> 0, end |-> 4, count |-> 3, limit |-> NoLimit,
          reverse |-> FALSE, plain |-> TRUE, upstream |-> "oldest_first"]
MCJobs ==
  {[Query EXCEPT !.start = w[1], !.end = w[2], !.upstream = u] :
     w \in {<<0, 4>>, <<-2, 1>>}, u \in {"oldest_first", "newest_first"}}
  \cup {[Query EXCEPT !.vendor = "loki", !.limit = l, !.reverse = r] : l \in {1, 2}, r \in BOOLEAN}
  \cup {[Query EXCEPT !.end = 1, !.count = 2, !.plain = p] : p \in BOOLEAN}
LogEvents == [ts : {-1, 0, 2, 3}, stream : {"s", "t"}, payload : {"p"}]
MCStores ==
  {{[id |-> i, ts |-> e[i].ts, stream |-> e[i].stream, payload |-> e[i].payload] : i \in 1..3} :
     e \in {e \in [1..3 -> LogEvents] :
              e[1].ts <= e[2].ts /\ e[2].ts <= e[3].ts /\ e[1].stream = "s"}}
MCShapes == {<<"head", "body">>, <<"head", "body", "body">>, <<"body", "head">>,
             <<"other", "head", "body", "other">>, <<"head">>, <<"wrong_head", "body">>}

VARIABLE component   \* what this behaviour is about

AnyIngest == IngestInit /\ job = [Query EXCEPT !.plain = FALSE, !.end = 1, !.count = 2]
                        /\ \A r \in store : r.ts = 0 /\ r.stream = "s"

MCInit ==
  /\ Init /\ FetchInit
  /\ \/ component \in {"artifacts", "cache", "hops"} /\ AnyIngest
     \/ component = "ingest" /\ IngestInit

MCNext ==
  /\ \/ component = "artifacts" /\ Next /\ UNCHANGED <<fetchVars, ingestVars>>
     \/ component = "cache" /\ FetchNext /\ UNCHANGED <<vars, ingestVars>>
          /\ \A c \in Calls : call'[c].hops = 0 /\ call'[c].attempt = 1
     \/ component = "hops" /\ FetchNext /\ UNCHANGED <<vars, ingestVars>>
          /\ call'[Spare] = call[Spare]
     \/ component = "ingest" /\ IngestNext /\ UNCHANGED <<vars, fetchVars>>
  /\ UNCHANGED component

MCSpec == MCInit /\ [][MCNext]_<<vars, fetchVars, ingestVars, component>>
=============================================================================
