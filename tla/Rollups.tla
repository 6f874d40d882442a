------------------------------ MODULE Rollups ------------------------------
(***************************************************************************)
(* Usage telemetry: a bounded channel that drops and counts, the consumer  *)
(* that appends its events to the rollup store in batches and prunes on a  *)
(* timer, and the named reports, as the SQLite statements answer them and  *)
(* as the in-memory reference computes them.                               *)
(***************************************************************************)
EXTENDS Naturals, Sequences, FiniteSets, FiniteSetsExt

CONSTANTS
    Capacity,     \* of the channel
    Batch,        \* most events per append
    UsageKinds,   \* what a call's row may say: [subject, vendor, env, allow, ok, ms]
    Retention,    \* how many time units rows are kept
    PruneEvery,   \* PRUNE_INTERVAL
    MaxEvents, MaxTime, MaxFailures

ASSUME RollupConstants ==
    /\ Batch \in Nat \ {0}
    /\ Retention \in Nat /\ PruneEvery \in Nat /\ MaxTime \in Nat
    /\ \A kind \in UsageKinds : kind.allow \in BOOLEAN /\ kind.ok \in BOOLEAN /\ kind.ms \in Nat

VARIABLES
    channel, pending, usage,    \* queued events, the consumer's batch, the table
    dropped, pruned,            \* counters
    recorded,                   \* how many events were recorded
    abandoned,                  \* history: events the consumer left behind, uncounted
    stage,                      \* where Consumer::run stands
    cancelled, unhealthy, pruneAt, now, storeFailures

rollupVars == <<channel, pending, usage, dropped, pruned, recorded, abandoned, stage,
                cancelled, unhealthy, pruneAt, now, storeFailures>>

RollupInit ==
    /\ channel = <<>> /\ pending = <<>> /\ usage = <<>>
    /\ dropped = 0 /\ pruned = 0 /\ recorded = 0 /\ abandoned = 0
    /\ stage = "wait" /\ cancelled = FALSE /\ unhealthy = FALSE
    /\ pruneAt = PruneEvery /\ now = 0 /\ storeFailures = 0

(* UsageRow. *)
Row(n, at, kind) ==
    [id |-> n, ts |-> at, subject |-> kind.subject, vendor |-> kind.vendor, env |-> kind.env,
     allow |-> kind.allow, ok |-> kind.ok, ms |-> kind.ms]

(* BoundedUsageChannel::record: try_send; full, or closed by the consumer. *)
Record(kind) ==
    /\ recorded < MaxEvents
    /\ recorded' = recorded + 1
    /\ IF Len(channel) < Capacity /\ stage \notin {"final", "stopped"}
       THEN channel' = Append(channel, Row(recorded', now, kind)) /\ UNCHANGED dropped
       ELSE dropped' = dropped + 1 /\ UNCHANGED channel
    /\ UNCHANGED <<pending, usage, pruned, abandoned, stage, cancelled, unhealthy,
                   pruneAt, now, storeFailures>>

(* Consumer::prune: rows before the cutoff go. *)
Expired(rows, cutoff) == {i \in DOMAIN rows : rows[i].ts < cutoff}
Without(rows, gone) ==
    LET kept[n \in 0 .. Len(rows)] ==
          IF n = 0 THEN <<>>
          ELSE IF n \in gone THEN kept[n - 1] ELSE Append(kept[n - 1], rows[n])
    IN  kept[Len(rows)]
Cutoff == IF now < Retention THEN 0 ELSE now - Retention
Prune ==
    /\ pruneAt' = now + PruneEvery
    /\ \/ /\ usage' = Without(usage, Expired(usage, Cutoff))
          /\ pruned' = pruned + Cardinality(Expired(usage, Cutoff))
          /\ UNCHANGED storeFailures
       \/ /\ storeFailures < MaxFailures /\ storeFailures' = storeFailures + 1
          /\ UNCHANGED <<usage, pruned>>

PruneDue == now >= pruneAt

(* An empty batch: the first event, the prune timer, or the end. *)
FirstEvent ==
    /\ stage = "wait" /\ channel # <<>>
    /\ pending' = <<Head(channel)>> /\ channel' = Tail(channel)
    /\ stage' = "linger"
    /\ UNCHANGED <<usage, dropped, pruned, recorded, abandoned, cancelled, unhealthy,
                   pruneAt, now, storeFailures>>

QuietPrune ==
    /\ stage = "wait" /\ PruneDue
    /\ Prune
    /\ UNCHANGED <<channel, pending, dropped, recorded, abandoned, stage, cancelled,
                   unhealthy, now>>

(* cancelled (or every sender gone) with no batch in hand: close the        *)
(* channel, take what is queued, append it once and stop.                   *)
Drain ==
    /\ stage = "wait" /\ cancelled
    /\ pending' = channel /\ channel' = <<>>
    /\ stage' = IF channel = <<>> THEN "stopped" ELSE "final"
    /\ UNCHANGED <<usage, dropped, pruned, recorded, abandoned, cancelled, unhealthy,
                   pruneAt, now, storeFailures>>

(* More events within the linger, or all at once when a refused batch is    *)
(* tried again; the batch is never larger than Batch.                       *)
TopUp ==
    /\ stage = "linger" /\ channel # <<>> /\ Len(pending) < Batch
    /\ pending' = Append(pending, Head(channel)) /\ channel' = Tail(channel)
    /\ UNCHANGED <<usage, dropped, pruned, recorded, abandoned, stage, cancelled,
                   unhealthy, pruneAt, now, storeFailures>>

(* append: all of the batch in one transaction, or none of it and the batch *)
(* is kept, the newest of it past four batches.  The append of a cancelled  *)
(* consumer is the last one: whatever it leaves, in the batch or in the     *)
(* channel, is gone with the consumer, and no counter knows.                *)
AfterAppend(ok, was) ==
    IF was \in {"final", "backoff"} THEN "stopped" ELSE IF ok THEN "wait" ELSE "backoff"

RefusedBatchDropped(batch) == <<>>
RefusedBatch(batch) ==
    IF Len(batch) > 4 * Batch THEN SubSeq(batch, Len(batch) - 4 * Batch + 1, Len(batch)) ELSE batch

AppendBatch(was) ==
    /\ \/ /\ usage' = usage \o pending
          /\ unhealthy' = FALSE /\ UNCHANGED storeFailures
       \/ /\ storeFailures < MaxFailures /\ storeFailures' = storeFailures + 1
          /\ unhealthy' = TRUE /\ UNCHANGED usage
    /\ stage' = AfterAppend(~unhealthy', was)
    /\ pending' = IF unhealthy' /\ stage' # "stopped" THEN RefusedBatch(pending) ELSE <<>>
    /\ channel' = IF stage' = "stopped" THEN <<>> ELSE channel
    /\ abandoned' = abandoned + (IF unhealthy' THEN Len(pending) - Len(pending') ELSE 0)
                              + (Len(channel) - Len(channel'))

Write ==
    /\ stage = "linger" \/ stage = "final"
    /\ AppendBatch(stage)
    /\ UNCHANGED <<dropped, pruned, recorded, cancelled, pruneAt, now>>

(* The back-off ends: retention if it is due, then the same batch again.    *)
(* (After a successful append QuietPrune does the same.)                    *)
Retry ==
    /\ stage = "backoff"
    /\ stage' = "linger"
    /\ IF PruneDue THEN Prune
       ELSE UNCHANGED <<usage, pruned, pruneAt, storeFailures>>
    /\ UNCHANGED <<channel, pending, dropped, recorded, abandoned, cancelled, unhealthy, now>>

(* cancelled during the back-off: one more append of the batch in hand, and *)
(* the consumer returns without looking at the channel.                     *)
CancelledRetry ==
    /\ stage = "backoff" /\ cancelled
    /\ AppendBatch("backoff")
    /\ UNCHANGED <<dropped, pruned, recorded, cancelled, pruneAt, now>>

Cancel ==
    /\ ~cancelled /\ cancelled' = TRUE
    /\ UNCHANGED <<channel, pending, usage, dropped, pruned, recorded, abandoned, stage,
                   unhealthy, pruneAt, now, storeFailures>>

Elapse ==
    /\ now < MaxTime /\ now' = now + 1
    /\ UNCHANGED <<channel, pending, usage, dropped, pruned, recorded, abandoned, stage,
                   cancelled, unhealthy, pruneAt, storeFailures>>

RollupNext ==
    \/ \E kind \in UsageKinds : Record(kind)
    \/ FirstEvent \/ QuietPrune \/ Drain \/ TopUp \/ Write \/ Retry
    \/ CancelledRetry \/ Cancel \/ Elapse

RollupSpec == RollupInit /\ [][RollupNext]_rollupVars

----------------------------------------------------------------------------
(* The reports.  A window is [since, until), both always bound.             *)
Within(w, row) == w.since <= row.ts /\ row.ts < w.until

(* The SQL statements: COUNT, SUM over a predicate, MIN, MAX, COUNT DISTINCT *)
(* and EXISTS, over the places of the rows they select.                      *)
In(rows, w) == {i \in DOMAIN rows : Within(w, rows[i])}

SqlSum(rows, places) ==
    LET sum[n \in 0 .. Len(rows)] ==
          IF n = 0 THEN 0
          ELSE sum[n - 1] + (IF n \in places THEN rows[n].ms ELSE 0)
    IN  sum[Len(rows)]

Times(rows, places) == {rows[i].ts : i \in places}

SqlRow(rows, places) ==
    LET allow == {i \in places : rows[i].allow}
    IN  [rows |-> Cardinality(places), allowed |-> Cardinality(allow),
         denied |-> Cardinality({i \in places : ~rows[i].allow}),
         failed |-> Cardinality({i \in allow : ~rows[i].ok}),
         ms |-> SqlSum(rows, allow),
         first |-> IF places = {} THEN 0 ELSE Min(Times(rows, places)),
         last |-> IF places = {} THEN 0 ELSE Max(Times(rows, places))]

\* Mutant: the permitted call may be outside the window.
SqlCrossAnyTime(rows, w) ==
    Cardinality({d \in In(rows, w) : ~rows[d].allow /\
        \E a \in DOMAIN rows : rows[a].allow /\ rows[a].subject = rows[d].subject /\ rows[a].vendor = rows[d].vendor
                              /\ rows[a].env # rows[d].env})
SqlCross(rows, w) ==
    Cardinality({d \in In(rows, w) : ~rows[d].allow /\
        \E a \in In(rows, w) : /\ rows[a].allow
                               /\ rows[a].subject = rows[d].subject
                               /\ rows[a].vendor = rows[d].vendor
                               /\ rows[a].env # rows[d].env})

SqlTotals(rows, w) ==
    [row |-> SqlRow(rows, In(rows, w)), cross |-> SqlCross(rows, w),
     subjects |-> Cardinality({rows[i].subject : i \in In(rows, w)}),
     vendors |-> Cardinality({rows[i].vendor : i \in In(rows, w)})]

(* key is a column: the value of each row.                                  *)
SqlGroups(rows, w, denialsOnly, key) ==
    LET places == {i \in In(rows, w) : denialsOnly => ~rows[i].allow}
    IN  [k \in {key[i] : i \in places} |-> SqlRow(rows, {i \in places : key[i] = k})]

(* The in-memory reference: one pass over the rows, group by group. *)
EmptyRow == [rows |-> 0, allowed |-> 0, denied |-> 0, failed |-> 0, ms |-> 0,
             first |-> 0, last |-> 0]
Tally(g, row) ==
    [rows |-> g.rows + 1,
     allowed |-> g.allowed + (IF row.allow THEN 1 ELSE 0),
     denied |-> g.denied + (IF row.allow THEN 0 ELSE 1),
     failed |-> g.failed + (IF row.allow /\ ~row.ok THEN 1 ELSE 0),
     ms |-> g.ms + (IF row.allow THEN row.ms ELSE 0),
     first |-> IF g.rows = 0 \/ row.ts < g.first THEN row.ts ELSE g.first,
     last |-> IF g.rows = 0 \/ row.ts > g.last THEN row.ts ELSE g.last]
Tallied(groups, k, row) ==
    [j \in DOMAIN groups \cup {k} |->
        IF j # k THEN groups[j]
        ELSE Tally(IF k \in DOMAIN groups THEN groups[k] ELSE EmptyRow, row)]
MemGroups(rows, w, denialsOnly, key) ==
    LET pass[n \in 0 .. Len(rows)] ==
          IF n = 0 THEN [k \in {} |-> EmptyRow]
          ELSE IF ~Within(w, rows[n]) \/ (denialsOnly /\ rows[n].allow) THEN pass[n - 1]
          ELSE Tallied(pass[n - 1], key[n], rows[n])
    IN  pass[Len(rows)]

AllowedEnvs(rows, w) ==
    {<<rows[i].subject, rows[i].vendor, rows[i].env>> : i \in {j \in In(rows, w) : rows[j].allow}}

(* totals tallies as grouped does, all rows in one group.                   *)
MemTotals(rows, w) ==
    LET one == MemGroups(rows, w, FALSE, [i \in DOMAIN rows |-> "all"])
    IN  [row |-> IF "all" \in DOMAIN one THEN one["all"] ELSE EmptyRow,
         cross |-> Cardinality({i \in In(rows, w) : ~rows[i].allow /\
            \E e \in AllowedEnvs(rows, w) :
              e[1] = rows[i].subject /\ e[2] = rows[i].vendor /\ e[3] # rows[i].env}),
         subjects |-> Cardinality({rows[i].subject : i \in In(rows, w)}),
         vendors |-> Cardinality({rows[i].vendor : i \in In(rows, w)})]

(* Bucket::label: the timestamp cut to the hour or the day (width units).   *)
Bucket(rows, width) == [i \in DOMAIN rows |-> rows[i].ts \div width]
SqlTimeline(rows, w, width) == SqlGroups(rows, w, FALSE, Bucket(rows, width))
MemTimeline(rows, w, width) == MemGroups(rows, w, FALSE, Bucket(rows, width))

----------------------------------------------------------------------------
(* No event is counted twice or vanishes while it is on its way: what was   *)
(* recorded is stored, pruned, in the consumer's batch, queued or counted   *)
(* as dropped, and the table keeps the order of the calls, whichever        *)
(* appends failed and were tried again.  Only a consumer that was cancelled *)
(* after the store refused a call leaves events behind.                     *)
UsageAccounted ==
    /\ Len(usage) + pruned + Len(pending) + Len(channel) + dropped + abandoned = recorded
    /\ LET all == usage \o pending \o channel
       IN  \A i, j \in DOMAIN all : i < j => all[i].id < all[j].id
    /\ abandoned > 0 => stage = "stopped" /\ cancelled /\ storeFailures > 0

(* SQLite and the in-memory reference give the same answer to every named   *)
(* report over any window up to the present of whatever the consumer stored *)
(* and kept.                                                                *)
ReportsAgree ==
    \A since \in 0..now, until \in 0..now + 1 :
        LET w == [since |-> since, until |-> until]
            subject == [i \in DOMAIN usage |-> usage[i].subject]
            vendor == [i \in DOMAIN usage |-> usage[i].vendor]
            env == [i \in DOMAIN usage |-> usage[i].env]
        IN  /\ SqlTotals(usage, w) = MemTotals(usage, w)
            /\ SqlGroups(usage, w, FALSE, subject) = MemGroups(usage, w, FALSE, subject)
            /\ SqlGroups(usage, w, FALSE, vendor) = MemGroups(usage, w, FALSE, vendor)
            /\ SqlGroups(usage, w, TRUE, env) = MemGroups(usage, w, TRUE, env)
            /\ SqlTimeline(usage, w, 2) = MemTimeline(usage, w, 2)

(* What the usage reports say is what happened, up to what was dropped,     *)
(* pruned or left behind at the stop: events are accounted for, and both    *)
(* engines answer alike.                                                    *)
UsageReported == UsageAccounted /\ ReportsAgree
=============================================================================
