------------------------------ MODULE RateLimit ------------------------------
(***************************************************************************)
(* RateLimiter of src/src/server/rate_limit.rs: a token bucket per subject  *)
(* in a map of bounded size, all under one mutex.  Tokens are counted in    *)
(* units, of which a request takes Cost, so that rates below one a second   *)
(* are integers too.                                                        *)
(***************************************************************************)
EXTENDS Integers, FiniteSets

CONSTANTS Subjects,   \* validated principals
          Cost,       \* units of one request
          Rate,       \* units a bucket gains per tick (per_second)
          Burst,      \* units a full bucket holds (burst)
          MaxTracked, \* MAX_TRACKED
          Idle,       \* IDLE_EVICTION, in ticks
          SweepGap,   \* SWEEP_MIN_GAP, in ticks
          MaxTime     \* bound: ticks the run looks at

(* from_config wants a positive rate and a burst of at least one request.   *)
ASSUME RateConstants ==
  /\ Cost \in Nat \ {0} /\ Rate \in Nat \ {0} /\ Burst \in Nat /\ Burst >= Cost
  /\ MaxTracked \in Nat \ {0} /\ Idle \in Nat /\ SweepGap \in Nat
  /\ IsFiniteSet(Subjects)

VARIABLES
  now,      \* the clock
  bucket,   \* per subject: [tokens, refilled], or Untracked
  swept,    \* last_sweep, or -1
  spent,    \* history: units allowed to each subject so far
  evicted,  \* history: how often the subject's bucket was evicted
  promise   \* history: when the last refusal told the subject to come back, or -1

rateVars == <<now, bucket, swept, spent, evicted, promise>>

Untracked == [tokens |-> -1, refilled |-> -1]
Never == -1

RateInit ==
  /\ now = 0 /\ swept = Never
  /\ bucket = [s \in Subjects |-> Untracked]
  /\ spent = [s \in Subjects |-> 0] /\ evicted = [s \in Subjects |-> 0]
  /\ promise = [s \in Subjects |-> Never]

Tracked == {s \in Subjects : bucket[s] # Untracked}

Least(a, b) == IF a < b THEN a ELSE b

\* A bucket as check_at finds it now.
Refilled(b) == [tokens |-> Least(b.tokens + (now - b.refilled) * Rate, Burst), refilled |-> now]

\* Mutant: the wait is rounded down.
RetryAfterFloor(b) == (Cost - b.tokens) \div Rate

\* retry_after: whole ticks until the missing units are there, at least one.
RetryAfter(b) == (Cost - b.tokens + Rate - 1) \div Rate

\* take, for subject s whose bucket is now b, in a map that is otherwise m.
Take(s, b, m) ==
  IF b.tokens >= Cost
  THEN /\ bucket' = [m EXCEPT ![s] = [b EXCEPT !.tokens = @ - Cost]]
       /\ spent' = [spent EXCEPT ![s] = @ + Cost]
       /\ promise' = [promise EXCEPT ![s] = Never]
  ELSE /\ bucket' = [m EXCEPT ![s] = b]
       /\ promise' = [promise EXCEPT ![s] = now + RetryAfter(b)]
       /\ UNCHANGED spent

\* Mutant: a full map makes room by dropping any bucket.
SweptAny == [s \in Subjects |-> Untracked]

\* The retain of make_room.
Swept == [s \in Subjects |-> IF bucket[s] # Untracked /\ now - bucket[s].refilled >= Idle
                             THEN Untracked ELSE bucket[s]]

MaySweep == swept = Never \/ now - swept >= SweepGap

\* check_at of a subject that has a bucket.
CheckKnown(s) ==
  /\ bucket[s] # Untracked
  /\ Take(s, Refilled(bucket[s]), bucket)
  /\ UNCHANGED <<now, swept, evicted>>

Full == [tokens |-> Burst, refilled |-> now]

\* A new subject, and the map has room.
CheckNew(s) ==
  /\ bucket[s] = Untracked /\ Cardinality(Tracked) < MaxTracked
  /\ Take(s, Full, bucket)
  /\ UNCHANGED <<now, swept, evicted>>

\* A new subject and a full map: make_room, at most once per gap.
CheckSweep(s) ==
  /\ bucket[s] = Untracked /\ Cardinality(Tracked) >= MaxTracked
  /\ MaySweep
  /\ swept' = now
  /\ IF Cardinality({x \in Subjects : Swept[x] # Untracked}) < MaxTracked
     THEN Take(s, Full, Swept)
     ELSE bucket' = Swept /\ UNCHANGED <<spent, promise>>
  /\ evicted' = [x \in Subjects |->
                   IF bucket[x] # Untracked /\ Swept[x] = Untracked THEN evicted[x] + 1 ELSE evicted[x]]
  /\ UNCHANGED now

\* A new subject, a full map and no sweep due: refused, and nothing changes.
CheckSaturated(s) ==
  /\ bucket[s] = Untracked /\ Cardinality(Tracked) >= MaxTracked
  /\ ~MaySweep
  /\ UNCHANGED rateVars

Tick == now < MaxTime /\ now' = now + 1 /\ UNCHANGED <<bucket, swept, spent, evicted, promise>>

RateNext ==
  \/ \E s \in Subjects : CheckKnown(s) \/ CheckNew(s) \/ CheckSweep(s) \/ CheckSaturated(s)
  \/ Tick

RateSpec == RateInit /\ [][RateNext]_rateVars

(* What a bucket made anew holds more than the evicted one could have       *)
(* gained while it was idle.  from_config does not compare the burst with   *)
(* the rate, so it may be anything up to the burst.                         *)
Unearned == IF Burst > Rate * Idle THEN Burst - Rate * Idle ELSE 0

(* A principal gets its burst and its rate and, each time its bucket was    *)
(* evicted and made anew with a full burst (make_room), no more than what   *)
(* the idle time had not earned it: nothing at all where an idle bucket     *)
(* refills in IDLE_EVICTION, and otherwise at most once per IDLE_EVICTION.  *)
(* The map never outgrows its bound.                                        *)
WithinBudget ==
  /\ Cardinality(Tracked) <= MaxTracked
  /\ \A s \in Subjects : /\ spent[s] <= Burst + Rate * now + evicted[s] * Unearned
                         /\ evicted[s] * Idle <= now

(* A principal that waits as long as it was told is let through (retry_after):*)
(* by then its bucket, if it still has one, holds a whole request.          *)
RetryHonoured ==
  \A s \in Tracked : promise[s] # Never /\ now >= promise[s] => Refilled(bucket[s]).tokens >= Cost

(* What a principal may count on, and what it may not exceed (check_at).    *)
BudgetKept == WithinBudget /\ RetryHonoured
===============================================================================
