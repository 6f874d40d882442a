------------------------------- MODULE Ingest -------------------------------
(***************************************************************************)
(* Partitioned log queries (controllers/splunk.rs, controllers/grafana.rs, *)
(* ingestion.rs).  A query over a time window is cut into adjacent         *)
(* half-open intervals; each is requested on its own, a few at a time; the *)
(* answers are read as streams, committed as canonical partitions,         *)
(* validated, and merged into one artifact whose manifest says whether the *)
(* result is complete.                                                     *)
(***************************************************************************)
EXTENDS Integers, Sequences, FiniteSets, SequencesExt

CONSTANTS Jobs,         \* the queries: [vendor, start, end, count, limit, reverse, plain, upstream]
          Stores,       \* what the log store may hold: sets of [id, ts, stream, payload]
          Shapes,       \* key sequences an answer's objects may have
          Second,       \* nanoseconds in a second, scaled down
          Concurrency,  \* STREAMING_PARTITION_CONCURRENCY
          MaxPartitions,\* MAX_TIME_PARTITIONS
          MaxRecords,   \* MAX_STREAMED_ARTIFACT_SIZE, in records
          NoLimit, MaxFaults

ASSUME IngestAssumption ==
  /\ Second \in Nat \ {0} /\ Concurrency \in Nat \ {0}
  /\ MaxPartitions \in Nat /\ MaxRecords \in Nat /\ MaxFaults \in Nat
  /\ Shapes \subseteq Seq({"head", "wrong_head", "body", "other"})
  /\ \A s \in Stores : IsFiniteSet(s) /\ \A r \in s : r.ts \in Int
  /\ \A j \in Jobs : /\ j.start \in Int /\ j.end \in Int /\ j.count \in Nat
                     /\ j.reverse \in BOOLEAN
                     /\ j.limit = NoLimit \/ j.limit \in Nat

\* A limit is asked of Loki only, and then its answer comes in the direction
\* asked for.
ASSUME LimitsAreDirected ==
  \A j \in Jobs : j.limit # NoLimit => j.reverse \/ j.upstream = "oldest_first"

VARIABLES job, store, phase,
          next, active,   \* the next interval to request, the requests in flight
          slots,          \* interval -> its committed partition, or NoPartition
          failed,         \* first_error is set: the token is cancelled
          position, out,  \* the merge: one reader per partition, what is written
          last,           \* last_key and last_partition
          limited, complete, faults

ingestVars == <<job, store, phase, next, active, slots, failed, position, out,
                last, limited, complete, faults>>

Least(a, b) == IF a < b THEN a ELSE b
NoPartition == [committed |-> FALSE, records |-> <<>>]

-----------------------------------------------------------------------------
(* The intervals.  The first `remainder` of them are one unit wider.       *)

Cuts(start, end, requested) ==
  LET width == end - start
      count == Least(requested, width)
      cut[i \in 0..count] == IF i = 0 THEN start
                             ELSE cut[i - 1] + width \div count
                                    + (IF i - 1 < width % count THEN 1 ELSE 0)
  IN  cut

HalfOpenPartitions(start, end, requested) ==
  IF start >= end \/ requested = 0 THEN <<>>
  ELSE LET cut == Cuts(start, end, requested)
       IN  [i \in 1..Least(requested, end - start) |-> [start |-> cut[i - 1], end |-> cut[i]]]

Intervals(j) ==
  LET ordered == HalfOpenPartitions(j.start, j.end, j.count)
  IN  IF j.reverse THEN Reverse(ordered) ELSE ordered

(* An instant as sign, whole seconds and nine decimals, and back.          *)
EpochSeconds(ns) ==
  LET magnitude == IF ns < 0 THEN -ns ELSE ns
  IN  [negative |-> ns < 0, seconds |-> magnitude \div Second, nanos |-> magnitude % Second]

SplunkBound(text) ==
  LET signed(n) == IF text.negative THEN -n ELSE n
  IN  signed(text.seconds) * Second + signed(text.nanos)

(* What the vendor is asked for: Splunk gets decimal seconds, Loki integer *)
(* nanoseconds.                                                            *)
Asked(j, interval) ==
  IF j.vendor = "splunk"
  THEN [start |-> SplunkBound(EpochSeconds(interval.start)), end |-> SplunkBound(EpochSeconds(interval.end))]
  ELSE interval

-----------------------------------------------------------------------------
(* The vendor's answer, an external service: records of the interval, start *)
(* included and end excluded, at most `limit` of them and none left out    *)
(* that comes before one given; in the order asked for, records of one     *)
(* instant in any, except that Loki groups them by stream.                 *)

InOrder(j, a, b) ==
  IF j.reverse \/ j.upstream = "newest_first" THEN a.ts >= b.ts ELSE a.ts <= b.ts

Hits(j, interval) ==
  LET asked == Asked(j, interval) IN {r \in store : r.ts >= asked.start /\ r.ts < asked.end}

AnswersFrom(j, hits) ==
  LET size == IF j.limit = NoLimit THEN Cardinality(hits) ELSE Least(j.limit, Cardinality(hits))
  IN  {rows \in [1..size -> hits] :
         /\ \A a, b \in 1..size : a < b =>
              /\ rows[a] # rows[b]
              /\ j.vendor = "splunk" \/ rows[a].stream = rows[b].stream => InOrder(j, rows[a], rows[b])
              /\ j.vendor = "loki" /\ rows[a].stream = rows[b].stream =>
                   \A c \in a..b : rows[c].stream = rows[a].stream
         /\ \A r \in hits : r \in Range(rows) \/ \A a \in 1..size : InOrder(j, rows[a], r)}

UpstreamAnswers(j, interval) == AnswersFrom(j, Hits(j, interval))

(* One JSON object read as a stream: its head (status, resultType, stream, *)
(* fields) comes once and before its body (data, result, values, rows),    *)
(* which comes once; any other key is skipped.                             *)
EnvelopeStep(inner, st, key) ==
  LET body == [st EXCEPT !.body = TRUE, !.bad = inner.bad, !.rows = inner.rows]
  IN  IF st.bad \/ key \notin {"head", "wrong_head", "body"} THEN st
      ELSE IF key = "head" /\ ~st.head /\ ~st.body THEN [st EXCEPT !.head = TRUE]
      ELSE IF key = "body" /\ st.head /\ ~st.body THEN body
      ELSE [st EXCEPT !.bad = TRUE]

Envelope(keys, inner) ==
  LET read[n \in 0..Len(keys)] ==
        IF n = 0 THEN [head |-> FALSE, body |-> FALSE, bad |-> FALSE, rows |-> <<>>]
        ELSE EnvelopeStep(inner, read[n - 1], keys[n])
      end == read[Len(keys)]
  IN  [bad |-> end.bad \/ ~end.head \/ ~end.body, rows |-> end.rows]

StreamSplunkJsonRows(shape, rows, badRow) == Envelope(shape, [bad |-> badRow, rows |-> rows])

(* Loki: streams, alike in shape, within data within the response.         *)
StreamItems(shape, rows, badRow) ==
  IF rows = <<>> THEN [bad |-> FALSE, rows |-> rows] ELSE Envelope(shape, [bad |-> badRow, rows |-> rows])

StreamLokiResponse(level, shape, rows, badRow) ==
  LET shapeOf(l) == IF l = level THEN shape ELSE <<"head", "body">>
  IN  Envelope(shapeOf("root"), Envelope(shapeOf("data"), StreamItems(shapeOf("stream"), rows, badRow)))

(* normalize_streamed_response, normalize_loki_response: a partition is    *)
(* committed only when its whole answer was read.                          *)
NormalizeStreamedResponse(rows, shape, badRow) == StreamSplunkJsonRows(shape, rows, badRow)

NormalizeLokiResponse(rows, level, shape, badRow) == StreamLokiResponse(level, shape, rows, badRow)

Normalized(j, rows, level, shape, badRow) ==
  IF j.vendor = "splunk" THEN NormalizeStreamedResponse(rows, shape, badRow)
  ELSE NormalizeLokiResponse(rows, level, shape, badRow)

-----------------------------------------------------------------------------
(* Acquisition.                                                            *)

(* The query takes the partitioned path.                                   *)
Divisible(j) == j.count \in 2..MaxPartitions /\ j.start < j.end
LokiEligible(j) == j.vendor = "loki" /\ Divisible(j) /\ j.limit # NoLimit
SplunkEligible(j) == j.vendor = "splunk" /\ Divisible(j) /\ j.plain
Eligible(j) == LokiEligible(j) \/ SplunkEligible(j)

IngestInit ==
  /\ job \in Jobs /\ store \in Stores
  /\ phase = "begin" /\ next = 1 /\ active = {} /\ failed = FALSE
  /\ slots = [i \in 1..job.count |-> NoPartition]
  /\ position = [i \in 1..job.count |-> 1] /\ out = <<>>
  /\ last = [key |-> <<>>, partition |-> 0]
  /\ limited = FALSE /\ complete = FALSE /\ faults = 0

(* acquire(index) indexes the intervals, of which there are fewer than     *)
(* `count` when the window is narrower than that.                          *)
BeginPartitions ==
  /\ phase = "begin"
  /\ LET concurrency == Least(job.count, Concurrency)
     IN  IF ~Eligible(job) THEN phase' = "single" /\ UNCHANGED <<next, active>>
         ELSE IF concurrency > Len(Intervals(job)) THEN phase' = "panicked" /\ UNCHANGED <<next, active>>
         ELSE /\ phase' = "acquire"
              /\ active' = 1..concurrency
              /\ next' = concurrency + 1
  /\ UNCHANGED <<job, store, slots, failed, position, out, last, limited, complete, faults>>

(* The next interval is requested as soon as one is answered, unless one   *)
(* has failed.                                                             *)
Launch(i) ==
  IF failed \/ next > job.count
  THEN active' = active \ {i} /\ UNCHANGED <<next, phase>>
  ELSE IF next > Len(Intervals(job))
  THEN phase' = "panicked" /\ UNCHANGED <<active, next>>
  ELSE active' = (active \ {i}) \cup {next} /\ next' = next + 1 /\ UNCHANGED phase

(* After the token is cancelled a request in flight still ends either way. *)
Acquired(i, level, shape) ==
  /\ phase = "acquire" /\ i \in active
  /\ \E rows \in UpstreamAnswers(job, Intervals(job)[i]) :
       LET read == Normalized(job, rows, level, shape, FALSE)
       IN  /\ ~read.bad
           /\ slots' = [slots EXCEPT ![i] = [committed |-> TRUE, records |-> read.rows]]
  /\ Launch(i)
  /\ UNCHANGED <<job, store, failed, position, out, last, limited, complete, faults>>

FirstError(i) ==
  /\ failed' = TRUE
  /\ active' = active \ {i}
  /\ UNCHANGED <<job, store, phase, next, slots, position, out, last, limited, complete>>

(* The request fails, or its answer is not what the vendor documents.      *)
AcquireFails(i) ==
  /\ phase = "acquire" /\ i \in active
  /\ IF failed THEN UNCHANGED faults ELSE faults < MaxFaults /\ faults' = faults + 1
  /\ FirstError(i)

AnswerRefused(i, level, shape, badRow) ==
  /\ phase = "acquire" /\ i \in active /\ faults < MaxFaults
  /\ \E rows \in UpstreamAnswers(job, Intervals(job)[i]) :
       Normalized(job, rows, level, shape, badRow).bad
  /\ faults' = faults + 1
  /\ FirstError(i)

-----------------------------------------------------------------------------
(* Validation and merge.                                                   *)

Partitioned ==
  LET paths[n \in 0..Len(slots)] ==
        IF n = 0 THEN <<>>
        ELSE IF slots[n].committed THEN Append(paths[n - 1], slots[n]) ELSE paths[n - 1]
  IN  paths[Len(slots)]
Retained == FoldLeft(LAMBDA n, s : n + Len(s.records), 0, Partitioned)

(* The order the partition's manifest declares, checked record by record.  *)
Ordered(records) ==
  \A i \in 1..(Len(records) - 1) :
    IF job.reverse THEN records[i].ts >= records[i + 1].ts ELSE records[i].ts <= records[i + 1].ts

Validate ==
  /\ phase = "acquire" /\ active = {}
  /\ phase' = IF /\ ~failed
                 /\ \A i \in DOMAIN Partitioned : Ordered(Partitioned[i].records)
                 /\ Retained <= MaxRecords - Retained
              THEN "merge" ELSE "failed"
  /\ UNCHANGED <<job, store, next, active, slots, failed, position, out, last,
                 limited, complete, faults>>

Waiting == {p \in DOMAIN Partitioned : position[p] <= Len(Partitioned[p].records)}
HeadOf(p) == Partitioned[p].records[position[p]]

(* HeapRecord::cmp: by time, then partition, turned round for newest first. *)
Pops(p) ==
  \A q \in Waiting \ {p} :
    LET after == HeadOf(q).ts > HeadOf(p).ts \/ (HeadOf(q).ts = HeadOf(p).ts /\ q > p)
    IN  after # job.reverse

StableKey(r) == <<r.ts, r.stream, r.payload>>

(* A record is dropped only when the one before it, from another           *)
(* partition, was the same.                                                *)
DuplicateAnywhere(p, key) == last.key = key

Duplicate(p, key) == last.key = key /\ last.partition # p

MergeStep(p) ==
  /\ phase = "merge" /\ p \in Waiting /\ Pops(p)
  /\ job.limit = NoLimit \/ Len(out) < job.limit
  /\ LET key == StableKey(HeadOf(p))
     IN  /\ out' = IF Duplicate(p, key) THEN out ELSE Append(out, HeadOf(p))
         /\ last' = [key |-> key, partition |-> p]
  /\ position' = [position EXCEPT ![p] = @ + 1]
  /\ UNCHANGED <<job, store, phase, next, active, slots, failed, limited, complete, faults>>

(* One more record is popped than may be written.                          *)
MergeLimited ==
  /\ phase = "merge" /\ Waiting # {} /\ ~limited
  /\ job.limit # NoLimit /\ Len(out) >= job.limit
  /\ limited' = TRUE
  /\ UNCHANGED <<job, store, phase, next, active, slots, failed, position, out, last, complete, faults>>

UpstreamLimitReached ==
  job.limit # NoLimit /\ \E i \in DOMAIN Partitioned : Len(Partitioned[i].records) >= job.limit

(* The final manifest: Loki is conservative about limits, Splunk has none. *)
Completeness == ~(limited \/ UpstreamLimitReached)

CommitResult ==
  /\ phase = "merge" /\ (Waiting = {} \/ limited)
  /\ complete' = Completeness
  /\ phase' = "done"
  /\ UNCHANGED <<job, store, next, active, slots, failed, position, out, last, limited, faults>>

(* The disk refuses a write, the commit or the manifest: nothing is kept.  *)
CommitFails ==
  /\ phase = "merge" /\ faults < MaxFaults
  /\ faults' = faults + 1
  /\ phase' = "failed"
  /\ UNCHANGED <<job, store, next, active, slots, failed, position, out, last, limited, complete>>

Levels == {"root", "data", "stream"}

IngestNext ==
  \/ BeginPartitions
  \/ \E i \in active :
       \/ \E shape \in Shapes : Acquired(i, "root", shape)
       \/ AcquireFails(i)
       \/ \E level \in Levels, shape \in Shapes, badRow \in BOOLEAN : AnswerRefused(i, level, shape, badRow)
  \/ Validate
  \/ \E p \in Waiting : MergeStep(p)
  \/ MergeLimited
  \/ CommitResult
  \/ CommitFails

IngestSpec == IngestInit /\ [][IngestNext]_ingestVars

-----------------------------------------------------------------------------
Window == {r \in store : r.ts >= job.start /\ r.ts < job.end}

(* The merged artifact of a partitioned query is what one query over the   *)
(* whole window would have answered, whatever order the partitions came in *)
(* and wherever the cuts fell: ordered, only records of the window, as     *)
(* many as the limit allows, none left out that belongs before one kept,   *)
(* and identical records kept as often as they occur; and a manifest that  *)
(* says "complete" left none out.                                          *)
MergedIsWhole ==
  phase = "done" =>
    LET kept == {out[i] : i \in DOMAIN out}
    IN  /\ Ordered(out)
        /\ kept \subseteq Window /\ Cardinality(kept) = Len(out)
        /\ Len(out) = IF job.limit = NoLimit THEN Cardinality(Window)
                      ELSE Least(job.limit, Cardinality(Window))
        /\ \A k \in kept, r \in Window \ kept : IF job.reverse THEN r.ts <= k.ts ELSE r.ts >= k.ts
        /\ complete => kept = Window

(* tools/descriptions/grafana_query_logs.md: a query is partitioned when    *)
(* its bounds are exact, "so each request maps directly to an adjacent      *)
(* client interval"; so no request is for an interval that does not exist.  *)
NeverPanics == phase # "panicked"
=============================================================================
