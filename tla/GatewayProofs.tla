---------------------------- MODULE GatewayProofs ----------------------------
(***************************************************************************)
(* Proofs about three parts of the gateway: the rate limiter (RateLimit),   *)
(* for any number of subjects and any rate, burst and bounds, the admin API *)
(* (Admin), for any number of concurrent requests and permits, and the      *)
(* start of a process (Startup), for any configuration and any edits.       *)
(***************************************************************************)
EXTENDS RateLimit, Admin, Startup, FiniteSetTheorems, TLAPS

-----------------------------------------------------------------------------
(* Arithmetic of the bucket.                                               *)

LEMMA Distribute ==
  ASSUME NEW a \in Int, NEW b \in Int, NEW c \in Int
  PROVE  (a - b) * c = c * a - c * b
OBVIOUS

LEMMA Grows ==
  ASSUME NEW a \in Int, NEW b \in Int, NEW c \in Nat, a <= b
  PROVE  c * a <= c * b
OBVIOUS

LEMMA OneMore ==
  ASSUME NEW a \in Nat, NEW c \in Nat
  PROVE  (a + 1) * c = a * c + c /\ a * c \in Nat
OBVIOUS

\* Rounding up: as many ticks at this rate are enough.
LEMMA RoundedUp ==
  ASSUME NEW x \in Nat, NEW rate \in Nat \ {0}
  PROVE  /\ (x + rate - 1) \div rate \in Nat
         /\ ((x + rate - 1) \div rate) * rate >= x
OBVIOUS

-----------------------------------------------------------------------------
(* The rate limiter.  A tracked bucket accounts for what its subject spent  *)
(* up to its last refill; a subject without one has spent no more than the  *)
(* rate alone allows, so a fresh bucket may be full.  Both up to what its   *)
(* evictions gave it, which are Idle apart.                                 *)

Buckets == [tokens : Int, refilled : Int]

RateTypes ==
  /\ now \in Nat /\ swept \in Int
  /\ bucket \in [Subjects -> Buckets]
  /\ spent \in [Subjects -> Nat] /\ evicted \in [Subjects -> Nat] /\ promise \in [Subjects -> Int]

BucketSound(s) ==
  bucket[s] # Untracked => bucket[s].tokens \in 0..Burst /\ bucket[s].refilled \in 0..now

PromiseSound(s) ==
  bucket[s] # Untracked /\ promise[s] # Never =>
    /\ promise[s] >= bucket[s].refilled
    /\ bucket[s].tokens + (promise[s] - bucket[s].refilled) * Rate >= Cost

Extra(s) == evicted[s] * Unearned

Accounted(s) ==
  IF bucket[s] = Untracked THEN spent[s] <= Rate * now + Extra(s)
  ELSE spent[s] + bucket[s].tokens <= Burst + Rate * bucket[s].refilled + Extra(s)

Paced(s) == evicted[s] * Idle <= IF bucket[s] = Untracked THEN now ELSE bucket[s].refilled

MapBounded == Cardinality(Tracked) <= MaxTracked

RateInv ==
  /\ RateTypes /\ MapBounded
  /\ \A s \in Subjects : BucketSound(s) /\ PromiseSound(s)

BudgetInv == \A s \in Subjects : Accounted(s)
PaceInv == \A s \in Subjects : Paced(s)

LEMMA ExtraType ==
  /\ Unearned \in Nat
  /\ RateTypes => \A s \in Subjects : Extra(s) \in Nat /\ evicted[s] * Idle \in Nat
<1>1. Rate * Idle \in Nat
  BY RateConstants
<1>2. Unearned \in Nat
  BY <1>1, RateConstants DEF Unearned
<1> QED
  BY <1>2, RateConstants DEF Extra, RateTypes

LEMMA RateInitial == RateInit => RateInv /\ BudgetInv /\ PaceInv
<1> SUFFICES ASSUME RateInit PROVE RateInv /\ BudgetInv /\ PaceInv
  OBVIOUS
<1> USE DEF RateInit, Untracked, Never
<1>1. RateTypes
  BY DEF RateTypes, Buckets
<1>2. MapBounded
  <2>1. Tracked = {}
    BY DEF Tracked
  <2> QED
    BY <2>1, FS_EmptySet, RateConstants DEF MapBounded
<1>3. \A s \in Subjects : BucketSound(s) /\ PromiseSound(s)
  BY DEF BucketSound, PromiseSound
<1>4. BudgetInv
  BY RateConstants, ExtraType DEF BudgetInv, Accounted, Extra
<1>5. PaceInv
  BY RateConstants DEF PaceInv, Paced
<1> QED
  BY <1>1, <1>2, <1>3, <1>4, <1>5 DEF RateInv

(* take, on a bucket that is up to date and accounts for its subject. *)
LEMMA TakeKeeps ==
  ASSUME RateTypes, NEW s \in Subjects, NEW b, NEW m \in [Subjects -> Buckets],
         b = [tokens |-> b.tokens, refilled |-> now], b.tokens \in 0..Burst,
         Take(s, b, m), now' = now, swept' \in Int,
         evicted' \in [Subjects -> Nat], evicted'[s] = evicted[s]
  PROVE  /\ RateTypes' /\ BucketSound(s)' /\ PromiseSound(s)'
         /\ bucket'[s] # Untracked
         /\ spent[s] + b.tokens <= Burst + Rate * now + Extra(s) => Accounted(s)'
         /\ \A x \in Subjects : x # s => /\ bucket'[x] = m[x] /\ spent'[x] = spent[x]
                                         /\ promise'[x] = promise[x]
<1> USE RateConstants
<1>1. b \in Buckets /\ b.refilled = now /\ now \in Nat
  BY DEF Buckets, RateTypes
<1>x. PICK g \in Nat : g = Extra(s) /\ g = Extra(s)'
  BY ExtraType DEF Extra
<1>2. CASE b.tokens >= Cost
  <2> DEFINE new == [b EXCEPT !.tokens = @ - Cost]
  <2>1. new \in Buckets /\ new.tokens = b.tokens - Cost /\ new.refilled = now
    BY <1>1 DEF Buckets
  <2>2. /\ bucket' = [m EXCEPT ![s] = new] /\ spent' = [spent EXCEPT ![s] = @ + Cost]
        /\ promise' = [promise EXCEPT ![s] = Never]
    BY <1>2, Zenon DEF Take
  <2>3. new # Untracked
    BY <1>2, <2>1 DEF Untracked
  <2> HIDE DEF new
  <2>4. RateTypes'
    BY <2>1, <2>2 DEF RateTypes, Never
  <2>5. bucket'[s] = new /\ spent'[s] = spent[s] + Cost /\ promise'[s] = Never
    BY <2>2 DEF RateTypes
  <2>6. BucketSound(s)' /\ PromiseSound(s)' /\ bucket'[s] # Untracked
    BY <1>1, <1>2, <2>1, <2>3, <2>5 DEF BucketSound, PromiseSound
  <2>7. spent[s] + b.tokens <= Burst + Rate * now + Extra(s) => Accounted(s)'
    BY <1>1, <1>x, <2>1, <2>3, <2>5 DEF Accounted, RateTypes
  <2> QED
    BY <2>2, <2>4, <2>6, <2>7 DEF RateTypes
<1>3. CASE ~(b.tokens >= Cost)
  <2> DEFINE wait == RetryAfter(b)
  <2>1. /\ bucket' = [m EXCEPT ![s] = b] /\ spent' = spent
        /\ promise' = [promise EXCEPT ![s] = now + wait]
    BY <1>3 DEF Take
  <2>2. wait \in Nat /\ b.tokens + wait * Rate >= Cost
    <3>1. Cost - b.tokens \in Nat
      BY <1>1, <1>3
    <3> DEFINE x == Cost - b.tokens
    <3>2. wait = (x + Rate - 1) \div Rate
      BY DEF RetryAfter
    <3>3. wait \in Nat /\ wait * Rate >= x
      BY <3>1, <3>2, RoundedUp
    <3> QED
      BY <3>1, <3>3, <1>1
  <2> HIDE DEF wait
  <2>3. b # Untracked
    BY DEF Untracked
  <2>4. RateTypes'
    BY <1>1, <2>1, <2>2 DEF RateTypes
  <2>5. bucket'[s] = b /\ spent'[s] = spent[s] /\ promise'[s] = now + wait
    BY <2>1 DEF RateTypes
  <2>6. BucketSound(s)' /\ bucket'[s] # Untracked
    BY <1>1, <2>3, <2>5 DEF BucketSound
  <2>7. PromiseSound(s)'
    BY <1>1, <2>2, <2>5 DEF PromiseSound
  <2>8. spent[s] + b.tokens <= Burst + Rate * now + Extra(s) => Accounted(s)'
    BY <1>1, <1>x, <2>3, <2>5 DEF Accounted
  <2> QED
    BY <2>1, <2>4, <2>6, <2>7, <2>8 DEF RateTypes
<1> QED
  BY <1>2, <1>3

(* Of the other subjects nothing changes. *)
LEMMA OthersKeep ==
  ASSUME NEW x \in Subjects, bucket'[x] = bucket[x], spent'[x] = spent[x],
         promise'[x] = promise[x], now' = now
  PROVE  /\ BucketSound(x) => BucketSound(x)'
         /\ PromiseSound(x) => PromiseSound(x)'
         /\ evicted'[x] = evicted[x] /\ Accounted(x) => Accounted(x)'
BY DEF BucketSound, PromiseSound, Accounted, Extra

LEMMA TrackedFinite == IsFiniteSet(Tracked)
<1>1. Tracked \subseteq Subjects
  BY DEF Tracked
<1> QED
  BY <1>1, RateConstants, FS_Subset

LEMMA StepCheckKnown ==
  ASSUME RateInv, NEW s \in Subjects, CheckKnown(s)
  PROVE  RateInv' /\ (BudgetInv => BudgetInv')
<1> DEFINE b == Refilled(bucket[s])
           gain == (now - bucket[s].refilled) * Rate
<1>1. /\ bucket[s].tokens \in 0..Burst /\ bucket[s].refilled \in 0..now
      /\ now \in Nat /\ bucket[s] # Untracked
  BY DEF RateInv, RateTypes, BucketSound, CheckKnown
<1>2. gain \in Nat /\ gain = Rate * now - Rate * bucket[s].refilled
  BY <1>1, RateConstants, Distribute
<1>3. /\ b = [tokens |-> b.tokens, refilled |-> now]
      /\ b.tokens <= bucket[s].tokens + gain /\ b.tokens \in 0..Burst
  BY <1>1, <1>2, RateConstants DEF Refilled, Least
<1>4. Take(s, b, bucket) /\ now' = now /\ swept' \in Int /\ evicted' = evicted /\ evicted \in [Subjects -> Nat]
  BY DEF CheckKnown, RateInv, RateTypes
<1>5. BudgetInv => spent[s] + b.tokens <= Burst + Rate * now + Extra(s)
  <2>1. Rate * now \in Nat /\ Rate * bucket[s].refilled \in Nat /\ spent[s] \in Nat /\ Extra(s) \in Nat
    BY <1>1, RateConstants, ExtraType DEF RateInv, RateTypes
  <2>2. BudgetInv => spent[s] + bucket[s].tokens <= Burst + Rate * bucket[s].refilled + Extra(s)
    BY <1>1 DEF BudgetInv, Accounted
  <2> HIDE DEF gain, b
  <2> QED
    BY <1>1, <1>2, <1>3, <2>1, <2>2, RateConstants
<1> HIDE DEF b
<1>6. /\ RateTypes' /\ BucketSound(s)' /\ PromiseSound(s)' /\ bucket'[s] # Untracked
      /\ BudgetInv => Accounted(s)'
      /\ \A x \in Subjects : x # s => /\ bucket'[x] = bucket[x] /\ spent'[x] = spent[x]
                                      /\ promise'[x] = promise[x]
  BY <1>3, <1>4, <1>5, TakeKeeps DEF RateInv, RateTypes
<1>7. Tracked' = Tracked
  BY <1>1, <1>6 DEF Tracked
<1> QED
  BY <1>4, <1>6, <1>7, OthersKeep DEF RateInv, BudgetInv, MapBounded

(* A fresh bucket, put into a map m that has room for it. *)
LEMMA FreshBucket ==
  ASSUME RateInv, NEW s \in Subjects, bucket[s] = Untracked, NEW m \in [Subjects -> Buckets],
         \A x \in Subjects : m[x] = bucket[x] \/ m[x] = Untracked,
         Cardinality({x \in Subjects : m[x] # Untracked}) < MaxTracked,
         Take(s, Full, m), now' = now, swept' \in Int,
         evicted' \in [Subjects -> Nat], evicted'[s] = evicted[s]
  PROVE  /\ RateInv' /\ bucket'[s] # Untracked
         /\ Accounted(s) => Accounted(s)'
         /\ \A x \in Subjects : x # s => bucket'[x] = m[x] /\ spent'[x] = spent[x]
<1> DEFINE kept == {x \in Subjects : m[x] # Untracked}
<1>1. /\ Full = [tokens |-> Full.tokens, refilled |-> now] /\ Full.tokens = Burst
      /\ Full.tokens \in 0..Burst
  BY RateConstants DEF Full
<1>2. Accounted(s) => spent[s] + Full.tokens <= Burst + Rate * now + Extra(s)
  BY <1>1, RateConstants, ExtraType DEF Accounted, RateInv, RateTypes
<1>3. /\ RateTypes' /\ BucketSound(s)' /\ PromiseSound(s)' /\ bucket'[s] # Untracked
      /\ spent[s] + Full.tokens <= Burst + Rate * now + Extra(s) => Accounted(s)'
      /\ \A x \in Subjects : x # s => /\ bucket'[x] = m[x] /\ spent'[x] = spent[x]
                                      /\ promise'[x] = promise[x]
  BY <1>1, TakeKeeps DEF RateInv
<1>4. ASSUME NEW x \in Subjects, x # s PROVE BucketSound(x)' /\ PromiseSound(x)'
  <2>1. CASE m[x] = Untracked
    BY <1>3, <1>4, <2>1 DEF BucketSound, PromiseSound
  <2>2. CASE m[x] = bucket[x]
    BY <1>3, <1>4, <2>2, OthersKeep DEF RateInv, BucketSound, PromiseSound
  <2> QED
    BY <2>1, <2>2
<1>5. MapBounded'
  <2>1. Tracked' = kept \cup {s}
    BY <1>3 DEF Tracked
  <2>2. IsFiniteSet(kept)
    BY RateConstants, FS_Subset
  <2>3. Cardinality(kept) < MaxTracked
    OBVIOUS
  <2> HIDE DEF kept
  <2>4. Cardinality(kept) \in Nat
    BY <2>2, FS_CardinalityType
  <2>5. Cardinality(kept \cup {s}) <= Cardinality(kept) + 1
    <3>1. Cardinality(kept \cup {s}) = IF s \in kept THEN Cardinality(kept) ELSE Cardinality(kept) + 1
      BY <2>2, FS_AddElement, Zenon
    <3> QED
      BY <2>4, <3>1
  <2>6. IsFiniteSet(kept \cup {s})
    BY <2>2, FS_AddElement
  <2>7. Cardinality(kept \cup {s}) \in Nat
    BY <2>6, FS_CardinalityType
  <2>8. Cardinality(kept \cup {s}) <= MaxTracked
    BY <2>3, <2>4, <2>5, <2>7, RateConstants
  <2> QED
    BY <2>1, <2>8 DEF MapBounded
<1> QED
  BY <1>2, <1>3, <1>4, <1>5 DEF RateInv

LEMMA StepCheckNew ==
  ASSUME RateInv, NEW s \in Subjects, CheckNew(s)
  PROVE  RateInv' /\ (BudgetInv => BudgetInv')
<1>1. /\ bucket[s] = Untracked /\ Cardinality(Tracked) < MaxTracked
      /\ Take(s, Full, bucket) /\ now' = now /\ swept' \in Int
      /\ bucket \in [Subjects -> Buckets] /\ evicted' = evicted /\ evicted' \in [Subjects -> Nat]
  BY DEF CheckNew, RateInv, RateTypes
<1>2. /\ RateInv' /\ (Accounted(s) => Accounted(s)')
      /\ \A x \in Subjects : x # s => bucket'[x] = bucket[x] /\ spent'[x] = spent[x]
  BY <1>1, FreshBucket DEF Tracked
<1>3. ASSUME BudgetInv, NEW x \in Subjects PROVE Accounted(x)'
  BY <1>1, <1>2, <1>3 DEF BudgetInv, Accounted, Extra
<1> QED
  BY <1>2, <1>3 DEF BudgetInv

(* The sweep of make_room: an evicted bucket was idle for Idle. *)
LEMMA SweptSound ==
  ASSUME RateInv, NEW x \in Subjects
  PROVE  /\ Swept[x] = bucket[x] \/ Swept[x] = Untracked
         /\ Swept[x] \in Buckets
         /\ Accounted(x) /\ bucket[x] # Untracked /\ Swept[x] = Untracked
              => spent[x] <= Rate * now + Extra(x) + Unearned
         /\ Paced(x) /\ bucket[x] # Untracked /\ Swept[x] = Untracked
              => evicted[x] * Idle + Idle <= now
<1>1. /\ bucket[x] \in Buckets /\ now \in Nat /\ spent[x] \in Nat /\ Extra(x) \in Nat
      /\ evicted[x] * Idle \in Nat /\ Unearned \in Nat
      /\ bucket[x] # Untracked => bucket[x].tokens \in 0..Burst /\ bucket[x].refilled \in 0..now
  BY ExtraType DEF RateInv, RateTypes, BucketSound
<1>2. (Swept[x] = bucket[x] \/ Swept[x] = Untracked) /\ Swept[x] \in Buckets
  BY <1>1 DEF Swept, Untracked, Buckets
<1>3. ASSUME bucket[x] # Untracked, Swept[x] = Untracked
      PROVE  /\ Accounted(x) => spent[x] <= Rate * now + Extra(x) + Unearned
             /\ Paced(x) => evicted[x] * Idle + Idle <= now
  <2> DEFINE ref == bucket[x].refilled
  <2>1. now - ref >= Idle
    BY <1>3 DEF Swept
  <2>2. Rate * Idle <= Rate * (now - ref)
    <3>1. now - ref \in Nat /\ Idle \in Nat /\ Rate \in Nat
      BY <1>1, <1>3, RateConstants
    <3> HIDE DEF ref
    <3> QED
      BY <2>1, <3>1, Grows
  <2>3. Rate * (now - ref) = Rate * now - Rate * ref
    BY <1>1, <1>3, RateConstants, Distribute
  <2>4. Accounted(x) => spent[x] <= Burst + Rate * ref + Extra(x)
    <3>1. Rate * ref \in Int
      BY <1>1, <1>3, RateConstants
    <3> QED
      BY <1>1, <1>3, <3>1, RateConstants DEF Accounted
  <2>5. Rate * now \in Int /\ Rate * ref \in Int /\ Rate * Idle \in Int /\ Rate * (now - ref) \in Int
    BY <1>1, <1>3, RateConstants
  <2>6. Burst <= Rate * Idle + Unearned
    BY <2>5, RateConstants DEF Unearned
  <2>7. Accounted(x) => spent[x] <= Rate * now + Extra(x) + Unearned
    BY <1>1, <2>2, <2>3, <2>4, <2>5, <2>6, RateConstants
  <2>8. Paced(x) => evicted[x] * Idle <= ref
    BY <1>3 DEF Paced
  <2>9. ref \in Nat /\ Idle \in Nat
    BY <1>1, <1>3, RateConstants
  <2> HIDE DEF ref
  <2> QED
    BY <1>1, <2>1, <2>7, <2>8, <2>9
<1> QED
  BY <1>2, <1>3

(* What the sweep does to the account and the pace of any subject. *)
LEMMA SweepKeeps ==
  ASSUME RateInv, NEW x \in Subjects, now' = now, spent'[x] = spent[x], bucket'[x] = Swept[x],
         evicted'[x] = IF bucket[x] # Untracked /\ Swept[x] = Untracked THEN evicted[x] + 1 ELSE evicted[x]
  PROVE  (Accounted(x) => Accounted(x)') /\ (Paced(x) => Paced(x)')
<1>1. CASE bucket[x] # Untracked /\ Swept[x] = Untracked
  <2>1. evicted[x] \in Nat /\ Idle \in Nat /\ Unearned \in Nat
    BY RateConstants, ExtraType DEF RateInv, RateTypes
  <2>2. evicted'[x] * Unearned = evicted[x] * Unearned + Unearned /\ evicted'[x] * Idle = evicted[x] * Idle + Idle
    BY <1>1, <2>1, OneMore
  <2>3. Accounted(x) => Accounted(x)'
    <3>1. PICK g \in Nat : g = Extra(x) /\ Extra(x)' = g + Unearned
      BY <2>2, ExtraType DEF Extra, RateInv
    <3>2. spent[x] \in Nat /\ now \in Nat /\ Rate * now \in Int
      BY RateConstants DEF RateInv, RateTypes
    <3> QED
      BY <1>1, <2>1, <3>1, <3>2, SweptSound DEF Accounted
  <2>4. Paced(x) => Paced(x)'
    BY <1>1, <2>2, SweptSound DEF Paced
  <2> QED
    BY <2>3, <2>4
<1>2. CASE ~(bucket[x] # Untracked /\ Swept[x] = Untracked)
  <2>1. bucket'[x] = bucket[x] /\ evicted'[x] = evicted[x]
    BY <1>2, SweptSound
  <2> QED
    BY <2>1 DEF Accounted, Paced, Extra
<1> QED
  BY <1>1, <1>2

LEMMA StepCheckSweep ==
  ASSUME RateInv, NEW s \in Subjects, CheckSweep(s)
  PROVE  RateInv' /\ (BudgetInv => BudgetInv')
<1>1. /\ bucket[s] = Untracked /\ now' = now /\ swept' \in Int /\ evicted' \in [Subjects -> Nat]
      /\ \A x \in Subjects : evicted'[x] = IF bucket[x] # Untracked /\ Swept[x] = Untracked
                                           THEN evicted[x] + 1 ELSE evicted[x]
  BY DEF CheckSweep, RateInv, RateTypes
<1>2. /\ Swept \in [Subjects -> Buckets]
      /\ \A x \in Subjects : Swept[x] = bucket[x] \/ Swept[x] = Untracked
  <2>1. Swept = [x \in Subjects |-> Swept[x]]
    BY DEF Swept
  <2> QED
    BY <2>1, SweptSound
<1>3. CASE Cardinality({x \in Subjects : Swept[x] # Untracked}) < MaxTracked
  <2>1. Take(s, Full, Swept) /\ evicted'[s] = evicted[s]
    BY <1>1, <1>3 DEF CheckSweep
  <2>2. /\ RateInv' /\ (Accounted(s) => Accounted(s)')
        /\ \A x \in Subjects : x # s => bucket'[x] = Swept[x] /\ spent'[x] = spent[x]
    BY <1>1, <1>2, <1>3, <2>1, FreshBucket
  <2>3. ASSUME BudgetInv, NEW x \in Subjects PROVE Accounted(x)'
    BY <1>1, <2>2, <2>3, SweepKeeps DEF BudgetInv
  <2> QED
    BY <2>2, <2>3 DEF BudgetInv
<1>4. CASE ~(Cardinality({x \in Subjects : Swept[x] # Untracked}) < MaxTracked)
  <2>1. bucket' = Swept /\ spent' = spent /\ promise' = promise
    BY <1>4 DEF CheckSweep
  <2>2. RateTypes'
    BY <1>1, <1>2, <2>1 DEF RateInv, RateTypes
  <2>3. MapBounded'
    <3>1. Tracked' \subseteq Tracked
      BY <1>2, <2>1 DEF Tracked
    <3>2. Cardinality(Tracked') <= Cardinality(Tracked)
      BY <3>1, TrackedFinite, FS_Subset
    <3>3. Cardinality(Tracked') \in Nat /\ Cardinality(Tracked) \in Nat
      BY <3>1, TrackedFinite, FS_Subset, FS_CardinalityType
    <3> QED
      BY <3>2, <3>3, RateConstants DEF RateInv, MapBounded
  <2>4. ASSUME NEW x \in Subjects PROVE BucketSound(x)' /\ PromiseSound(x)'
    BY <1>1, <1>2, <2>1 DEF RateInv, BucketSound, PromiseSound
  <2>5. ASSUME BudgetInv, NEW x \in Subjects PROVE Accounted(x)'
    BY <1>1, <2>1, <2>5, SweepKeeps DEF BudgetInv
  <2> QED
    BY <2>2, <2>3, <2>4, <2>5 DEF RateInv, BudgetInv
<1> QED
  BY <1>3, <1>4

LEMMA StepTick ==
  ASSUME RateInv, Tick
  PROVE  RateInv' /\ (BudgetInv => BudgetInv')
<1>1. /\ now \in Nat /\ now' = now + 1 /\ swept' = swept
      /\ bucket' = bucket /\ spent' = spent /\ evicted' = evicted /\ promise' = promise
  BY DEF Tick, RateInv, RateTypes
<1>2. RateTypes'
  BY <1>1 DEF RateInv, RateTypes
<1>3. MapBounded'
  BY <1>1 DEF RateInv, MapBounded, Tracked
<1>4. ASSUME NEW s \in Subjects PROVE BucketSound(s)' /\ PromiseSound(s)'
  BY <1>1 DEF RateInv, RateTypes, BucketSound, PromiseSound
<1>5. ASSUME BudgetInv, NEW s \in Subjects PROVE Accounted(s)'
  <2>1. Rate * now <= Rate * (now + 1)
    BY <1>1, RateConstants, Grows
  <2>2. /\ Rate * now \in Int /\ Rate * (now + 1) \in Int /\ spent[s] \in Nat
        /\ Extra(s) \in Nat /\ Extra(s)' = Extra(s)
    BY <1>1, RateConstants, ExtraType DEF RateInv, RateTypes, Extra
  <2> QED
    BY <1>1, <1>5, <2>1, <2>2 DEF BudgetInv, Accounted
<1> QED
  BY <1>2, <1>3, <1>4, <1>5 DEF RateInv, BudgetInv

LEMMA RateStep ==
  ASSUME RateInv, [RateNext]_rateVars
  PROVE  RateInv' /\ (BudgetInv => BudgetInv')
<1>1. CASE UNCHANGED rateVars
  BY <1>1 DEF rateVars, RateInv, BudgetInv, RateTypes, MapBounded, Tracked, BucketSound,
              PromiseSound, Accounted, Extra
<1>2. ASSUME NEW s \in Subjects, CheckSaturated(s) PROVE UNCHANGED rateVars
  BY <1>2 DEF CheckSaturated
<1> QED
  BY <1>1, <1>2, StepCheckKnown, StepCheckNew, StepCheckSweep, StepTick DEF RateNext

\* A bucket in use, or made anew, is as new as the clock.
LEMMA PaceStep ==
  ASSUME RateInv, PaceInv, [RateNext]_rateVars
  PROVE  PaceInv'
<1> SUFFICES ASSUME NEW x \in Subjects PROVE Paced(x)'
  BY DEF PaceInv
<1>1. /\ Paced(x) /\ now \in Nat /\ evicted[x] * Idle \in Nat /\ bucket[x] \in Buckets
      /\ bucket[x] # Untracked => bucket[x].refilled \in 0..now
      /\ bucket \in [Subjects -> Buckets]
  BY ExtraType DEF PaceInv, RateInv, RateTypes, BucketSound
<1>2. evicted[x] * Idle <= now
  BY <1>1 DEF Paced
<1>3. ASSUME NEW s \in Subjects, NEW b, NEW m \in [Subjects -> Buckets], Take(s, b, m), now' = now,
             b = [tokens |-> b.tokens, refilled |-> now]
      PROVE  /\ bucket'[s].refilled = now
             /\ x # s => bucket'[x] = m[x] /\ spent'[x] = spent[x]
  <2>1. CASE b.tokens >= Cost
    <3>1. PICK new : new = [b EXCEPT !.tokens = @ - Cost]
      OBVIOUS
    <3>2. new.refilled = now
      BY <1>3, <3>1
    <3>3. bucket' = [m EXCEPT ![s] = new] /\ spent' = [spent EXCEPT ![s] = @ + Cost]
      BY <1>3, <2>1, <3>1, Zenon DEF Take
    <3>4. bucket'[s] = new /\ (x # s => bucket'[x] = m[x] /\ spent'[x] = spent[x])
      BY <1>3, <3>3, Zenon DEF RateInv, RateTypes
    <3> QED
      BY <3>2, <3>4, Zenon
  <2>2. CASE ~(b.tokens >= Cost)
    <3>1. bucket' = [m EXCEPT ![s] = b] /\ spent' = spent
      BY <1>3, <2>2, Zenon DEF Take
    <3>2. bucket'[s] = b /\ (x # s => bucket'[x] = m[x] /\ spent'[x] = spent[x])
      BY <1>3, <3>1, Zenon DEF RateInv, RateTypes
    <3>3. b.refilled = now
      BY <1>3
    <3> QED
      BY <3>2, <3>3, Zenon
  <2> QED
    BY <2>1, <2>2
<1>4. ASSUME now' = now, evicted'[x] = evicted[x], bucket'[x] = bucket[x] \/ bucket'[x].refilled = now
      PROVE  Paced(x)'
  BY <1>1, <1>2, <1>4 DEF Paced
<1>5. ASSUME NEW s \in Subjects, CheckKnown(s) PROVE Paced(x)'
  <2>1. Refilled(bucket[s]) = [tokens |-> Refilled(bucket[s]).tokens, refilled |-> now]
    BY DEF Refilled
  <2>2. Take(s, Refilled(bucket[s]), bucket) /\ now' = now /\ evicted' = evicted
    BY <1>5 DEF CheckKnown
  <2> QED
    BY <1>1, <1>3, <1>4, <2>1, <2>2
<1>6. Full = [tokens |-> Full.tokens, refilled |-> now]
  BY DEF Full
<1>7. ASSUME NEW s \in Subjects, CheckNew(s) PROVE Paced(x)'
  <2>1. Take(s, Full, bucket) /\ now' = now /\ evicted' = evicted
    BY <1>7 DEF CheckNew
  <2> QED
    BY <1>1, <1>3, <1>4, <1>6, <2>1
<1>8. ASSUME NEW s \in Subjects, CheckSweep(s) PROVE Paced(x)'
  <2>1. /\ bucket[s] = Untracked /\ now' = now
        /\ evicted'[x] = IF bucket[x] # Untracked /\ Swept[x] = Untracked THEN evicted[x] + 1 ELSE evicted[x]
        /\ Take(s, Full, Swept) \/ (bucket' = Swept /\ spent' = spent)
    BY <1>8 DEF CheckSweep
  <2>2. Swept \in [Subjects -> Buckets]
    <3>1. Swept = [y \in Subjects |-> Swept[y]]
      BY DEF Swept
    <3> QED
      BY <3>1, SweptSound
  <2>3. CASE bucket' = Swept /\ spent' = spent
    BY <1>1, <2>1, <2>3, SweepKeeps
  <2>4. CASE Take(s, Full, Swept)
    <3>1. CASE x = s
      BY <1>3, <1>4, <1>6, <2>1, <2>2, <2>4, <3>1
    <3>2. CASE x # s
      <4>1. bucket'[x] = Swept[x] /\ spent'[x] = spent[x]
        BY <1>3, <1>6, <2>1, <2>2, <2>4, <3>2
      <4> QED
        BY <1>1, <2>1, <4>1, SweepKeeps
    <3> QED
      BY <3>1, <3>2
  <2> QED
    BY <2>1, <2>3, <2>4
<1>9. CASE Tick
  BY <1>1, <1>9 DEF Tick, Paced
<1>10. ASSUME UNCHANGED rateVars PROVE Paced(x)'
  BY <1>1, <1>10 DEF rateVars, Paced
<1> QED
  BY <1>5, <1>7, <1>8, <1>9, <1>10 DEF RateNext, CheckSaturated

(* Whatever the burst is, the map of buckets never outgrows MAX_TRACKED and *)
(* a principal that waits as long as retry_after told it is let through.    *)
THEOREM RetriesHold == RateSpec => [](MapBounded /\ RetryHonoured)
<1>1. RateInit => RateInv
  BY RateInitial
<1>2. RateInv /\ [RateNext]_rateVars => RateInv'
  BY RateStep
<1>3. RateInv => MapBounded /\ RetryHonoured
  <2> SUFFICES ASSUME RateInv, NEW s \in Tracked, promise[s] # Never, now >= promise[s]
               PROVE  Refilled(bucket[s]).tokens >= Cost
    BY DEF RateInv, RetryHonoured
  <2> DEFINE b == bucket[s]
  <2>1. /\ b.tokens \in 0..Burst /\ b.refilled \in 0..now /\ now \in Nat /\ promise[s] \in Int
        /\ promise[s] >= b.refilled /\ b.tokens + (promise[s] - b.refilled) * Rate >= Cost
    BY DEF RateInv, RateTypes, BucketSound, PromiseSound, Tracked
  <2>2. Rate * (promise[s] - b.refilled) <= Rate * (now - b.refilled)
    BY <2>1, RateConstants, Grows
  <2>3. b.tokens + (now - b.refilled) * Rate >= Cost
    BY <2>1, <2>2, RateConstants
  <2> QED
    BY <2>1, <2>3, RateConstants DEF Refilled, Least
<1> QED
  BY <1>1, <1>2, <1>3, PTL DEF RateSpec

(* For every rate and burst the settings accept, a principal gets no more   *)
(* than its burst, its rate and, for each time its bucket was evicted and   *)
(* made anew, what its idle time had not earned; its evictions are an       *)
(* IDLE_EVICTION apart (check_at, make_room).                               *)
THEOREM BudgetsHold == RateSpec => []BudgetKept
<1>1. RateInit => RateInv /\ BudgetInv /\ PaceInv
  BY RateInitial
<1>2. RateInv /\ BudgetInv /\ PaceInv /\ [RateNext]_rateVars => RateInv' /\ BudgetInv' /\ PaceInv'
  BY RateStep, PaceStep
<1>3. RateInv /\ BudgetInv /\ PaceInv => WithinBudget
  <2> SUFFICES ASSUME RateInv, BudgetInv, PaceInv, NEW s \in Subjects
               PROVE  /\ spent[s] <= Burst + Rate * now + Extra(s)
                      /\ evicted[s] * Idle <= now
    BY DEF RateInv, MapBounded, WithinBudget, Extra
  <2>1. /\ now \in Nat /\ spent[s] \in Nat /\ Rate * now \in Int /\ Extra(s) \in Nat
        /\ evicted[s] * Idle \in Nat
    BY RateConstants, ExtraType DEF RateInv, RateTypes
  <2>2. CASE bucket[s] = Untracked
    BY <2>1, <2>2, RateConstants DEF BudgetInv, PaceInv, Accounted, Paced
  <2>3. CASE bucket[s] # Untracked
    <3>1. bucket[s].tokens \in 0..Burst /\ bucket[s].refilled \in 0..now
      BY <2>3 DEF RateInv, BucketSound
    <3>2. Rate * bucket[s].refilled <= Rate * now /\ Rate * bucket[s].refilled \in Int
      BY <2>1, <3>1, RateConstants, Grows
    <3>3. spent[s] <= Burst + Rate * now + Extra(s)
      BY <2>1, <2>3, <3>1, <3>2, RateConstants DEF BudgetInv, Accounted
    <3>4. evicted[s] * Idle <= now
      BY <2>1, <2>3, <3>1 DEF PaceInv, Paced
    <3> QED
      BY <3>3, <3>4
  <2> QED
    BY <2>2, <2>3
<1> QED
  BY <1>1, <1>2, <1>3, RetriesHold, PTL DEF RateSpec, BudgetKept

-----------------------------------------------------------------------------
(* The admin API.  A task that records a mutation of a document holds that  *)
(* document's mutex until it has committed, so its record is the last.      *)

Answers == {"none", "busy", "invalid", "too large", "method not allowed", "not found", "ok",
            "unavailable", "deferred", "conflict", "audit failed"}

AdminRequest == [pc : Steps \cup {"new", "body", "done", "gone"}, kind : Kinds \cup {"none"},
                 approved : BOOLEAN, target : Targets \cup {"none", "unchanged"},
                 seq : Nat, answer : Answers]

AdminRecord == [ask : Asks, kind : Kinds \cup {"none"},
                target : Targets \cup {"none", "unchanged"}]

AdminTypes ==
  /\ areq \in [Asks -> AdminRequest]
  /\ held \in [Mutexes -> Asks \cup {Unheld}]
  /\ trail \in Seq(AdminRecord)
  /\ late \subseteq Asks
  /\ force \in [Documents -> [version : Targets \cup {"none", "unchanged"}, seq : Nat]]

\* Where a mutation's task holds its mutex.
Locked(r) ==
  \/ areq[r].pc \in {"backend", "stage", "record", "effect"}
  \/ areq[r].pc = "gate" /\ areq[r].kind \notin {"policy/reload", "policy/install"}

AskSound(r) ==
  /\ areq[r].pc \in Steps => areq[r].kind \in Kinds
  /\ areq[r].pc = "verify" => areq[r].kind = "policy/install"
  /\ Locked(r) => held[MutexOf(areq[r].kind)] = r
  /\ areq[r].pc = "effect" => areq[r].seq # 0
  /\ areq[r].seq # 0 => areq[r].pc \in {"effect", "done"} /\ Recorded(r)
  /\ r \in late => areq[r].pc = "done"

\* Only a task that came to its record is in the journal.
TrailSound == \A n \in 1..Len(trail) : areq[trail[n].ask].pc \in {"effect", "done"}

\* While a mutation of a document takes effect, nobody has recorded one after it.
LastRecorded ==
  \A r, q \in Asks :
    /\ AtStep(r, "effect") /\ ~OnStock(areq[r].kind) /\ q # r /\ areq[q].seq # 0
    /\ ~OnStock(areq[q].kind) /\ DocumentOf(areq[q].kind) = DocumentOf(areq[r].kind)
    => areq[q].seq < areq[r].seq

ForceRecorded ==
  \A d \in Documents : force[d].seq # 0 =>
    /\ force[d].seq \in 1..Len(trail)
    /\ trail[force[d].seq].target = force[d].version
    /\ DocumentOf(trail[force[d].seq].kind) = d

TasksBounded == Cardinality(Holding) <= Permits

AdminInv ==
  /\ AdminTypes /\ TrailSound /\ LastRecorded /\ ForceRecorded /\ LastIntentInForce
  /\ TasksBounded /\ \A r \in Asks : AskSound(r)

-----------------------------------------------------------------------------
LEMMA AdminInitial == AdminInit => AdminInv
<1> SUFFICES ASSUME AdminInit PROVE AdminInv
  OBVIOUS
<1>1. /\ areq = [r \in Asks |-> Arriving] /\ trail = <<>> /\ Len(trail) = 0 /\ late = {}
      /\ held = [m \in Mutexes |-> Unheld]
      /\ force = [d \in Documents |-> [version |-> "none", seq |-> 0]]
  BY DEF AdminInit
<1>2. Arriving \in AdminRequest /\ Arriving.pc = "new" /\ Arriving.seq = 0
  BY DEF Arriving, AdminRequest, Answers
<1>3. AdminTypes
  BY <1>1, <1>2 DEF AdminTypes
<1>4. TrailSound /\ ForceRecorded
  BY <1>1 DEF TrailSound, ForceRecorded
<1>5. LastRecorded /\ LastIntentInForce
  BY <1>1, <1>2 DEF LastRecorded, LastIntentInForce, AtStep, Effective
<1>6. TasksBounded
  <2>1. Holding = {}
    BY <1>1, <1>2 DEF Holding, Steps
  <2> QED
    BY <2>1, FS_EmptySet, AdminConstants DEF TasksBounded
<1>7. \A r \in Asks : AskSound(r)
  BY <1>1, <1>2 DEF AskSound, Locked, Steps
<1> QED
  BY <1>3, <1>4, <1>5, <1>6, <1>7 DEF AdminInv

LEMMA HoldingShrinks ==
  ASSUME AdminInv, Holding' \subseteq Holding
  PROVE  TasksBounded'
<1>1. IsFiniteSet(Holding)
  <2>1. Holding \subseteq Asks
    BY DEF Holding
  <2> QED
    BY <2>1, AdminConstants, FS_Subset
<1>2. Cardinality(Holding') <= Cardinality(Holding) /\ IsFiniteSet(Holding')
  BY <1>1, FS_Subset
<1>3. Cardinality(Holding') \in Nat /\ Cardinality(Holding) \in Nat
  BY <1>1, <1>2, FS_CardinalityType
<1> QED
  BY <1>2, <1>3, AdminConstants DEF AdminInv, TasksBounded

(* Another request's task is not disturbed: its mutexes stay its own, and its records stand. *)
LEMMA AsksFrame ==
  ASSUME AdminInv, NEW q \in Asks, areq'[q] = areq[q],
         \A m \in Mutexes : held[m] = q => held'[m] = q,
         \A n \in 1..Len(trail) : n \in 1..Len(trail') /\ trail'[n] = trail[n],
         q \in late' => q \in late
  PROVE  AskSound(q)'
<1>1. AskSound(q)
  BY DEF AdminInv
<1>2. Locked(q)' = Locked(q) /\ Intent(q)' = Intent(q)
  BY DEF Locked, Intent
<1>3. Locked(q) => held'[MutexOf(areq[q].kind)] = q
  BY <1>1 DEF AskSound, MutexOf, Mutexes, DocumentOf, Documents
<1>4. areq[q].seq # 0 => Recorded(q)'
  BY <1>1, <1>2 DEF AskSound, Recorded
<1> QED
  BY <1>1, <1>2, <1>3, <1>4 DEF AskSound

(* A step of a task that has not recorded yet, and does not now. *)
LEMMA BeforeRecord ==
  ASSUME AdminInv, NEW r \in Asks, NEW new \in AdminRequest,
         areq[r].pc \notin {"effect", "done"},
         areq' = [areq EXCEPT ![r] = new], new.seq = areq[r].seq, new.pc # "effect",
         held' \in [Mutexes -> Asks \cup {Unheld}],
         \A q \in Asks \ {r}, m \in Mutexes : held[m] = q => held'[m] = q,
         trail' = trail, force' = force, late' \subseteq late \cup {r},
         r \in late' => new.pc = "done",
         new.pc \in Steps => new.kind \in Kinds,
         new.pc = "verify" => new.kind = "policy/install",
         Locked(r)' => held'[MutexOf(new.kind)] = r,
         TasksBounded'
  PROVE  AdminInv'
<1>1. areq \in [Asks -> AdminRequest] /\ areq'[r] = new /\ \A q \in Asks \ {r} : areq'[q] = areq[q]
  BY DEF AdminInv, AdminTypes
<1>2. areq[r].seq = 0
  BY DEF AdminInv, AskSound
<1>3. AdminTypes'
  BY <1>1 DEF AdminInv, AdminTypes
<1>4. TrailSound'
  <2>1. \A n \in 1..Len(trail) : trail[n].ask # r /\ trail[n].ask \in Asks
    <3>1. ASSUME NEW n \in 1..Len(trail) PROVE trail[n] \in AdminRecord
      BY DEF AdminInv, AdminTypes
    <3> QED
      BY <3>1 DEF AdminRecord, AdminInv, TrailSound
  <2> QED
    BY <1>1, <2>1 DEF AdminInv, TrailSound
<1>5. ForceRecorded'
  BY DEF AdminInv, ForceRecorded
<1>6. LastRecorded'
  BY <1>1, <1>2 DEF AdminInv, LastRecorded, AtStep
<1>7. LastIntentInForce'
  BY <1>1, <1>2 DEF AdminInv, LastIntentInForce, Effective
<1>8. ASSUME NEW q \in Asks PROVE AskSound(q)'
  <2>1. CASE q = r
    BY <1>1, <1>2, <2>1 DEF AskSound
  <2>2. CASE q # r
    BY <1>1, <2>2, AsksFrame
  <2> QED
    BY <2>1, <2>2
<1> QED
  BY <1>3, <1>4, <1>5, <1>6, <1>7, <1>8 DEF AdminInv

(* The steps of a task up to its record; before that it has no lock to lose but its own. *)
Early == (Steps \cup {"body"}) \ {"effect"}

LEMMA MovesOn ==
  ASSUME AdminInv, NEW r \in Asks, NEW new \in AdminRequest, areq[r].pc \in Early,
         areq' = [areq EXCEPT ![r] = new], new.seq = areq[r].seq, new.pc # "effect",
         held' \in [Mutexes -> Asks \cup {Unheld}],
         \A q \in Asks \ {r}, m \in Mutexes : held[m] = q => held'[m] = q,
         trail' = trail, force' = force, late' \subseteq late \cup {r},
         r \in late' => r \in late \/ new.pc = "done",
         new.pc \in Steps => new.kind \in Kinds,
         new.pc = "verify" => new.kind = "policy/install",
         Locked(r)' => held'[MutexOf(new.kind)] = r
  PROVE  AdminInv'
<1>1. areq[r].pc \notin {"effect", "done"}
  BY DEF Early, Steps
<1>2. r \in late' => new.pc = "done"
  BY <1>1 DEF AdminInv, AskSound
<1>3. Holding' \subseteq Holding
  BY DEF Holding, AdminInv, AdminTypes, Early
<1>4. TasksBounded'
  BY <1>3, HoldingShrinks
<1> QED
  BY <1>1, <1>2, <1>4, BeforeRecord

LEMMA Unlocks ==
  ASSUME AdminInv, NEW r \in Asks, held' = Unlocked(r)
  PROVE  /\ held' \in [Mutexes -> Asks \cup {Unheld}]
         /\ \A q \in Asks \ {r}, m \in Mutexes : held[m] = q => held'[m] = q
BY DEF Unlocked, AdminInv, AdminTypes

LEMMA AnswersEarly ==
  ASSUME AdminInv, NEW r \in Asks, areq[r].pc \in Early, NEW x \in Answers, Answer(r, x),
         trail' = trail, force' = force, late' \subseteq late \cup {r}
  PROVE  AdminInv'
<1> DEFINE new == [areq[r] EXCEPT !.pc = "done", !.answer = x]
<1>1. areq \in [Asks -> AdminRequest] /\ areq[r] \in AdminRequest
  BY DEF AdminInv, AdminTypes
<1>2. new \in AdminRequest /\ new.pc = "done" /\ new.seq = areq[r].seq
  BY <1>1 DEF AdminRequest
<1>3. areq' = [areq EXCEPT ![r] = new] /\ held' = Unlocked(r)
  BY <1>1 DEF Answer, AdminRequest
<1>4. areq'[r].pc = "done"
  BY <1>1, <1>2, <1>3
<1>5. ~Locked(r)'
  BY <1>4 DEF Locked
<1> HIDE DEF new
<1> QED
  BY <1>2, <1>3, <1>5, Unlocks, MovesOn DEF Steps

(* A task goes from one early step to another, with what it holds. *)
LEMMA GoesOn ==
  ASSUME AdminInv, NEW r \in Asks, areq[r].pc \in Early, NEW step \in Early \cup {"gone"}, step # "verify",
         ToStep(r, step), UNCHANGED <<trail, late, force>>,
         held' \in [Mutexes -> Asks \cup {Unheld}],
         \A q \in Asks \ {r}, m \in Mutexes : held[m] = q => held'[m] = q,
         step \in Steps => areq[r].kind \in Kinds,
         \/ step \in {"backend", "stage", "record"}
         \/ step = "gate" /\ areq[r].kind \notin {"policy/reload", "policy/install"}
         => held'[MutexOf(areq[r].kind)] = r
  PROVE  AdminInv'
<1> DEFINE new == [areq[r] EXCEPT !.pc = step]
<1>1. areq \in [Asks -> AdminRequest] /\ areq[r] \in AdminRequest
  BY DEF AdminInv, AdminTypes
<1>2. new \in AdminRequest /\ new.pc = step /\ new.seq = areq[r].seq /\ new.kind = areq[r].kind
  BY <1>1 DEF AdminRequest, Early
<1>3. areq' = [areq EXCEPT ![r] = new]
  BY <1>1 DEF ToStep, AdminRequest
<1>4. areq'[r] = new
  BY <1>1, <1>3
<1> HIDE DEF new
<1>5. new.pc # "effect" /\ (new.pc \in Steps => new.kind \in Kinds)
  BY <1>2 DEF Early
<1>6. Locked(r)' => held'[MutexOf(new.kind)] = r
  BY <1>2, <1>4, <1>5 DEF Locked
<1>7. r \in late' => r \in late \/ new.pc = "done"
  OBVIOUS
<1> QED
  BY <1>2, <1>3, <1>5, <1>6, <1>7, MovesOn

-----------------------------------------------------------------------------
LEMMA StepArrive ==
  ASSUME AdminInv, NEW r \in Asks, Arrive(r)
  PROVE  AdminInv'
<1> DEFINE room == Cardinality(Holding) < Permits
           new == [areq[r] EXCEPT !.pc = IF room THEN "body" ELSE "done",
                                  !.answer = IF room THEN "none" ELSE "busy"]
<1>1. areq \in [Asks -> AdminRequest] /\ areq[r] \in AdminRequest /\ areq[r].pc = "new"
  BY DEF AdminInv, AdminTypes, Arrive, AtStep
<1>2. /\ new \in AdminRequest /\ new.seq = areq[r].seq
      /\ new.pc = IF room THEN "body" ELSE "done"
  BY <1>1 DEF AdminRequest, Answers
<1>3. areq' = [areq EXCEPT ![r] = new] /\ UNCHANGED <<held, trail, late, force>>
  BY <1>1 DEF Arrive, AdminRequest
<1>4. areq'[r] = new /\ \A q \in Asks \ {r} : areq'[q] = areq[q]
  BY <1>1, <1>3
<1> HIDE DEF new
<1>5. new.pc \notin Steps /\ new.pc # "effect" /\ ~Locked(r)'
  BY <1>2, <1>4 DEF Steps, Locked
<1>6. r \notin late
  BY <1>1 DEF AdminInv, AskSound
<1>7. IsFiniteSet(Holding)
  <2>1. Holding \subseteq Asks
    BY DEF Holding
  <2> QED
    BY <2>1, AdminConstants, FS_Subset
<1>8. TasksBounded'
  <2>1. CASE room
    <3>1. Holding' = Holding \cup {r}
      BY <1>2, <1>4, <2>1 DEF Holding
    <3>2. /\ IsFiniteSet(Holding \cup {r})
          /\ Cardinality(Holding \cup {r}) =
               IF r \in Holding THEN Cardinality(Holding) ELSE Cardinality(Holding) + 1
      BY <1>7, FS_AddElement, Zenon
    <3>3. Cardinality(Holding) \in Nat
      BY <1>7, FS_CardinalityType
    <3>4. Cardinality(Holding \cup {r}) <= Permits
      BY <2>1, <3>2, <3>3, AdminConstants
    <3> QED
      BY <3>1, <3>4 DEF TasksBounded
  <2>2. CASE ~room
    <3>1. Holding' \subseteq Holding
      BY <1>2, <1>4, <2>2 DEF Holding, Steps
    <3> QED
      BY <3>1, HoldingShrinks
  <2> QED
    BY <2>1, <2>2
<1>9. /\ held' \in [Mutexes -> Asks \cup {Unheld}]
      /\ \A q \in Asks \ {r}, m \in Mutexes : held[m] = q => held'[m] = q
  BY <1>3 DEF AdminInv, AdminTypes
<1> QED
  BY <1>1, <1>2, <1>3, <1>5, <1>6, <1>8, <1>9, BeforeRecord

LEMMA HeldStays ==
  ASSUME AdminInv, held' = held
  PROVE  /\ held' \in [Mutexes -> Asks \cup {Unheld}]
         /\ \A q \in Asks, m \in Mutexes : held[m] = q => held'[m] = q
BY DEF AdminInv, AdminTypes

(* What a request decodes to: a mutation and the step it begins with. *)
LEMMA Begins ==
  ASSUME AdminInv, NEW r \in Asks, areq[r].pc = "body", NEW kind \in Kinds,
         NEW approved \in BOOLEAN, NEW new \in AdminRequest,
         new.pc = FirstStep(kind, approved), new.kind = kind, new.seq = areq[r].seq,
         areq' = [areq EXCEPT ![r] = new], UNCHANGED <<held, trail, late, force>>
  PROVE  AdminInv'
<1>1. /\ new.pc \in {"lock", "gate", "verify"}
      /\ new.pc = "gate" => kind = "policy/reload"
      /\ new.pc = "verify" => kind = "policy/install"
  BY DEF FirstStep
<1>2. areq'[r] = new
  BY DEF AdminInv, AdminTypes
<1>3. ~Locked(r)' /\ new.pc # "effect"
  BY <1>1, <1>2 DEF Locked
<1>4. areq[r].pc \in Early
  BY DEF Early
<1> QED
  BY <1>1, <1>3, <1>4, HeldStays, MovesOn

LEMMA StepRefuse ==
  ASSUME AdminInv, NEW r \in Asks, Refuse(r)
  PROVE  AdminInv'
<1>1. PICK x \in {"invalid", "too large"} : Answer(r, x)
  BY DEF Refuse
<1>2. areq[r].pc \in Early /\ UNCHANGED <<trail, late, force>> /\ x \in Answers
  BY DEF Refuse, AtStep, Early, Answers
<1> QED
  BY <1>1, <1>2, AnswersEarly

LEMMA StepClientGoes ==
  ASSUME AdminInv, NEW r \in Asks, ClientGoes(r)
  PROVE  AdminInv'
<1>1. areq[r].pc \in Early /\ ToStep(r, "gone") /\ UNCHANGED <<held, trail, late, force>>
  BY DEF ClientGoes, AtStep, Early
<1> QED
  BY <1>1, HeldStays, GoesOn DEF Steps

LEMMA StepExecute ==
  ASSUME AdminInv, NEW r \in Asks, NEW method \in Methods, NEW name \in Names,
         Execute(r, method, name)
  PROVE  AdminInv'
<1> DEFINE kind == KindOf(method, name)
<1>1. areq[r].pc = "body" /\ areq[r].pc \in Early /\ UNCHANGED <<trail, late, force>>
  BY DEF Execute, AtStep, Early
<1>2. areq \in [Asks -> AdminRequest] /\ areq[r] \in AdminRequest
  BY DEF AdminInv, AdminTypes
<1>3. ASSUME NEW x \in Answers, Answer(r, x) PROVE AdminInv'
  BY <1>1, <1>3, AnswersEarly
<1>4. ASSUME NEW t \in Targets, kind # "read", held' = held,
             areq' = [areq EXCEPT ![r].pc = FirstStep(kind, FALSE), ![r].kind = kind,
                                  ![r].target = t]
      PROVE  AdminInv'
  <2> DEFINE step == FirstStep(kind, FALSE)
             new == [areq[r] EXCEPT !.pc = step, !.kind = kind, !.target = t]
  <2>1. kind \in Kinds
    BY <1>4 DEF KindOf, Kinds
  <2>2. step \in Steps
    BY DEF FirstStep, Steps
  <2> HIDE DEF step, kind
  <2>3. new \in AdminRequest /\ new.pc = step /\ new.kind = kind /\ new.seq = areq[r].seq
    BY <1>2, <2>1, <2>2 DEF AdminRequest
  <2>4. areq' = [areq EXCEPT ![r] = new]
    BY <1>2, <1>4 DEF AdminRequest, step
  <2> HIDE DEF new
  <2> QED
    BY <1>1, <1>4, <2>1, <2>3, <2>4, Begins, ZenonT(60) DEF step
<1>5. \/ \E x \in Answers : Answer(r, x)
      \/ /\ kind # "read" /\ held' = held
         /\ \E t \in Targets :
              areq' = [areq EXCEPT ![r].pc = FirstStep(kind, FALSE), ![r].kind = kind,
                                   ![r].target = t]
  <2>1. CASE <<method, name>> \notin AdminRoutes
    <3>1. Answer(r, IF name \in Operations THEN "method not allowed" ELSE "not found")
      BY <2>1, Zenon DEF Execute
    <3>2. (IF name \in Operations THEN "method not allowed" ELSE "not found") \in Answers
      BY DEF Answers
    <3> QED
      BY <3>1, <3>2, Zenon
  <2>2. ReadAnswers(method) \subseteq Answers /\ {"invalid", "unavailable"} \subseteq Answers
    BY DEF ReadAnswers, Answers
  <2> QED
    BY <2>1, <2>2, Zenon DEF Execute
<1> QED
  BY <1>3, <1>4, <1>5

LEMMA StepApplyCandidate ==
  ASSUME AdminInv, NEW r \in Asks, NEW kind \in Kinds, ApplyCandidate(r, kind)
  PROVE  AdminInv'
<1>1. areq[r].pc = "body" /\ areq[r].pc \in Early /\ UNCHANGED <<trail, late, force>>
  BY DEF ApplyCandidate, AtStep, Early
<1>2. areq \in [Asks -> AdminRequest] /\ areq[r] \in AdminRequest
  BY DEF AdminInv, AdminTypes
<1>3. CASE OnStock(kind) \/ kind = "policy/reload"
  <2>1. Answer(r, "unavailable")
    BY <1>3 DEF ApplyCandidate
  <2> QED
    BY <1>1, <2>1, AnswersEarly DEF Answers
<1>4. CASE ~(OnStock(kind) \/ kind = "policy/reload")
  <2> DEFINE step == FirstStep(kind, TRUE)
  <2>1. PICK t \in Targets :
          /\ areq' = [areq EXCEPT ![r].pc = step, ![r].kind = kind, ![r].approved = TRUE,
                                  ![r].target = t]
          /\ held' = held
    BY <1>4, Zenon DEF ApplyCandidate
  <2>2. step \in Steps
    BY DEF FirstStep, Steps
  <2> HIDE DEF step
  <2> DEFINE new == [areq[r] EXCEPT !.pc = step, !.kind = kind, !.approved = TRUE, !.target = t]
  <2>3. new \in AdminRequest /\ new.pc = step /\ new.kind = kind /\ new.seq = areq[r].seq
    BY <1>2, <2>2 DEF AdminRequest
  <2>4. areq' = [areq EXCEPT ![r] = new]
    BY <1>2, <2>1 DEF AdminRequest
  <2> HIDE DEF new
  <2> QED
    BY <1>1, <2>1, <2>3, <2>4, Begins DEF step
<1> QED
  BY <1>3, <1>4

LEMMA StepVerifyCandidate ==
  ASSUME AdminInv, NEW r \in Asks, VerifyCandidate(r)
  PROVE  AdminInv'
<1>1. /\ areq[r].pc \in Early /\ UNCHANGED <<trail, late, force>>
      /\ areq[r].kind \in Kinds /\ areq[r].kind = "policy/install"
  BY DEF VerifyCandidate, AtStep, Early, Steps, AdminInv, AskSound
<1>2. CASE ToStep(r, "gate") /\ held' = held
  BY <1>1, <1>2, HeldStays, GoesOn DEF Early, Steps
<1>3. CASE \E x \in {"invalid", "unavailable"} : Answer(r, x)
  BY <1>1, <1>3, AnswersEarly DEF Answers
<1> QED
  BY <1>2, <1>3 DEF VerifyCandidate

LEMMA StepAdmit ==
  ASSUME AdminInv, NEW r \in Asks, Admit(r)
  PROVE  AdminInv'
<1> DEFINE step == AfterGate(areq[r].kind)
<1>1. /\ areq[r].pc \in Early /\ UNCHANGED <<trail, late, force>> /\ areq[r].pc = "gate"
      /\ areq[r].kind \in Kinds
      /\ areq[r].kind \notin {"policy/reload", "policy/install"} => held[MutexOf(areq[r].kind)] = r
  BY DEF Admit, AtStep, Early, Steps, AdminInv, AskSound, Locked
<1>2. CASE ToStep(r, step) /\ held' = held
  <2>1. /\ step \in {"lock", "record"}
        /\ step = "record" => areq[r].kind \notin {"policy/reload", "policy/install"}
    BY DEF AfterGate
  <2> HIDE DEF step
  <2>2. step \in Early
    BY <2>1 DEF Early, Steps
  <2> QED
    BY <1>1, <1>2, <2>1, <2>2, HeldStays, GoesOn
<1>3. CASE \E x \in {"deferred", "conflict", "audit failed"} : Answer(r, x)
  BY <1>1, <1>3, AnswersEarly DEF Answers
<1> QED
  BY <1>2, <1>3 DEF Admit

LEMMA MutexThere == \A kind : MutexOf(kind) \in Mutexes
BY DEF MutexOf, Mutexes, DocumentOf, Documents

LEMMA StepTakeMutex ==
  ASSUME AdminInv, NEW r \in Asks, TakeMutex(r)
  PROVE  AdminInv'
<1> DEFINE step == AfterLock(areq[r].kind)
           mutex == MutexOf(areq[r].kind)
<1>1. /\ areq[r].pc \in Early /\ UNCHANGED <<trail, late, force>> /\ areq[r].kind \in Kinds
      /\ held[mutex] = Unheld /\ held' = [held EXCEPT ![mutex] = r] /\ ToStep(r, step)
  BY DEF TakeMutex, AtStep, Early, Steps, AdminInv, AskSound
<1>2. step \in {"backend", "stage"} /\ mutex \in Mutexes
  BY MutexThere DEF AfterLock
<1> HIDE DEF step, mutex
<1>3. step \in Early /\ step # "verify"
  BY <1>2 DEF Early, Steps
<1>4. /\ held' \in [Mutexes -> Asks \cup {Unheld}] /\ held'[mutex] = r
      /\ \A q \in Asks \ {r}, m \in Mutexes : held[m] = q => held'[m] = q
  BY <1>1, <1>2, AdminConstants DEF AdminInv, AdminTypes
<1> QED
  BY <1>1, <1>3, <1>4, GoesOn DEF mutex

LEMMA StepBackend ==
  ASSUME AdminInv, NEW r \in Asks, Backend(r)
  PROVE  AdminInv'
<1>1. /\ areq[r].pc \in Early /\ UNCHANGED <<trail, late, force>>
      /\ areq[r].kind \in Kinds /\ held[MutexOf(areq[r].kind)] = r
  BY DEF Backend, AtStep, Early, Steps, AdminInv, AskSound, Locked
<1>2. CASE ToStep(r, "gate") /\ held' = held
  BY <1>1, <1>2, HeldStays, GoesOn DEF Early, Steps
<1>3. CASE Answer(r, "unavailable")
  BY <1>1, <1>3, AnswersEarly DEF Answers
<1> QED
  BY <1>2, <1>3 DEF Backend

LEMMA StepStage ==
  ASSUME AdminInv, NEW r \in Asks, Stage(r)
  PROVE  AdminInv'
<1> DEFINE step == AfterStage(areq[r].kind, areq[r].approved)
<1>1. /\ areq[r].pc \in Early /\ UNCHANGED <<trail, late, force>>
      /\ areq[r].kind \in Kinds /\ held[MutexOf(areq[r].kind)] = r
  BY DEF Stage, AtStep, Early, Steps, AdminInv, AskSound, Locked
<1>2. areq \in [Asks -> AdminRequest] /\ areq[r] \in AdminRequest
  BY DEF AdminInv, AdminTypes
<1>3. ASSUME NEW t \in Targets \cup {"none", "unchanged"}, held' = held,
             areq' = [areq EXCEPT ![r].target = t, ![r].pc = step]
      PROVE  AdminInv'
  <2>1. step \in {"gate", "record"}
    BY DEF AfterStage
  <2> HIDE DEF step
  <2> DEFINE new == [areq[r] EXCEPT !.target = t, !.pc = step]
  <2>2. new \in AdminRequest /\ new.pc = step /\ new.kind = areq[r].kind /\ new.seq = areq[r].seq
    BY <1>2, <2>1 DEF AdminRequest, Steps
  <2>3. areq' = [areq EXCEPT ![r] = new]
    BY <1>2, <1>3 DEF AdminRequest
  <2> HIDE DEF new
  <2>4. /\ held' \in [Mutexes -> Asks \cup {Unheld}] /\ held'[MutexOf(new.kind)] = r
        /\ \A q \in Asks \ {r}, m \in Mutexes : held[m] = q => held'[m] = q
    BY <1>1, <1>3, <2>2, HeldStays
  <2> QED
    BY <1>1, <2>1, <2>2, <2>3, <2>4, MovesOn
<1>4. CASE \E x \in {"invalid", "unavailable"} : Answer(r, x)
  BY <1>1, <1>4, AnswersEarly DEF Answers
<1>5. areq[r].target \in Targets \cup {"none", "unchanged"}
  BY <1>2 DEF AdminRequest
<1>6. \/ \E x \in {"invalid", "unavailable"} : Answer(r, x)
      \/ /\ held' = held
         /\ \E t \in Targets \cup {"none", "unchanged"} :
              areq' = [areq EXCEPT ![r].target = t, ![r].pc = step]
  <2>1. (IF areq[r].kind = "policy/reload" THEN Targets \cup {"unchanged"} ELSE {areq[r].target})
          \subseteq Targets \cup {"none", "unchanged"}
    BY <1>5
  <2> QED
    BY <2>1, Zenon DEF Stage
<1> QED
  BY <1>3, <1>4, <1>6

-----------------------------------------------------------------------------
(* The record, and what follows it. *)

LEMMA TrailGrows ==
  ASSUME AdminInv, NEW r \in Asks, trail' = Append(trail, Intent(r)), force' = force
  PROVE  /\ trail' \in Seq(AdminRecord) /\ Len(trail') = Len(trail) + 1 /\ Len(trail) \in Nat
         /\ \A n \in 1..Len(trail) : n \in 1..Len(trail') /\ trail'[n] = trail[n]
         /\ trail'[Len(trail) + 1] = Intent(r) /\ Intent(r).ask = r
         /\ ForceRecorded'
<1>1. trail \in Seq(AdminRecord) /\ areq[r] \in AdminRequest
  BY DEF AdminInv, AdminTypes
<1>2. Intent(r) \in AdminRecord /\ Intent(r).ask = r
  BY <1>1 DEF Intent, AdminRecord, AdminRequest
<1>3. /\ trail' \in Seq(AdminRecord) /\ Len(trail') = Len(trail) + 1 /\ Len(trail) \in Nat
      /\ \A n \in 1..Len(trail) : n \in 1..Len(trail') /\ trail'[n] = trail[n]
      /\ trail'[Len(trail) + 1] = Intent(r)
  BY <1>1, <1>2
<1>4. ForceRecorded'
  BY <1>3 DEF AdminInv, ForceRecorded
<1> QED
  BY <1>2, <1>3, <1>4

LEMMA StepRecord ==
  ASSUME AdminInv, NEW r \in Asks, Record(r)
  PROVE  AdminInv'
<1> DEFINE new == [areq[r] EXCEPT !.pc = "effect", !.seq = Len(trail) + 1]
<1>1. /\ areq[r].pc \in Early /\ areq[r].pc = "record" /\ force' = force
      /\ areq[r].kind \in Kinds /\ held[MutexOf(areq[r].kind)] = r
  BY DEF Record, AtStep, Early, Steps, AdminInv, AskSound, Locked
<1>2. areq \in [Asks -> AdminRequest] /\ areq[r] \in AdminRequest
  BY DEF AdminInv, AdminTypes
<1>3. CASE Answer(r, "audit failed") /\ late' \in {late, late \cup {r}} /\ trail' = trail
  BY <1>1, <1>3, AnswersEarly DEF Answers
<1>4. ASSUME trail' = Append(trail, Intent(r)), held' = held, late' = late,
             areq' = [areq EXCEPT ![r].pc = "effect", ![r].seq = Len(trail) + 1]
      PROVE  AdminInv'
  <2>1. /\ trail' \in Seq(AdminRecord) /\ Len(trail') = Len(trail) + 1 /\ Len(trail) \in Nat
        /\ \A n \in 1..Len(trail) : n \in 1..Len(trail') /\ trail'[n] = trail[n]
        /\ trail'[Len(trail) + 1] = Intent(r) /\ Intent(r).ask = r
        /\ ForceRecorded'
    BY <1>1, <1>4, TrailGrows
  <2>2. /\ new \in AdminRequest /\ new.pc = "effect" /\ new.seq = Len(trail) + 1
        /\ new.kind = areq[r].kind /\ new.target = areq[r].target
    <3> DEFINE k == Len(trail) + 1
    <3>1. k \in Nat
      BY <2>1
    <3> HIDE DEF k
    <3>2. [areq[r] EXCEPT !.pc = "effect", !.seq = k] \in AdminRequest
      BY <1>2, <3>1 DEF AdminRequest, Steps
    <3> QED
      BY <1>2, <3>2 DEF AdminRequest, k
  <2>3. areq' = [areq EXCEPT ![r] = new]
    BY <1>2, <1>4 DEF AdminRequest
  <2>4. areq'[r] = new /\ \A q \in Asks \ {r} : areq'[q] = areq[q]
    BY <1>2, <2>3
  <2> HIDE DEF new
  <2>5. AdminTypes'
    BY <1>1, <1>2, <1>4, <2>1, <2>2, <2>3 DEF AdminInv, AdminTypes
  <2>6. TrailSound'
    <3>1. ASSUME NEW n \in 1..Len(trail) PROVE trail[n].ask \in Asks
      <4>1. trail[n] \in AdminRecord
        BY DEF AdminInv, AdminTypes
      <4> QED
        BY <4>1 DEF AdminRecord
    <3>2. ASSUME NEW n \in 1..Len(trail) PROVE areq'[trail'[n].ask].pc \in {"effect", "done"}
      BY <2>1, <2>2, <2>4, <3>1 DEF AdminInv, TrailSound
    <3>3. areq'[trail'[Len(trail) + 1].ask].pc = "effect"
      BY <2>1, <2>2, <2>4
    <3> QED
      BY <2>1, <3>2, <3>3 DEF TrailSound
  <2>7. LastRecorded'
    <3> SUFFICES ASSUME NEW x \in Asks, NEW q \in Asks, areq'[x].pc = "effect",
                        ~OnStock(areq'[x].kind), q # x, areq'[q].seq # 0,
                        ~OnStock(areq'[q].kind),
                        DocumentOf(areq'[q].kind) = DocumentOf(areq'[x].kind)
                 PROVE  areq'[q].seq < areq'[x].seq
      BY DEF LastRecorded, AtStep
    <3>1. CASE x = r
      <4>1. areq'[q] = areq[q] /\ areq[q].seq \in 1..Len(trail)
        BY <2>4, <3>1 DEF AdminInv, AskSound, Recorded
      <4> QED
        BY <2>1, <2>2, <2>4, <3>1, <4>1
    <3>2. CASE q = r
      <4>1. areq'[x] = areq[x] /\ held[MutexOf(areq[x].kind)] = x
        BY <2>4, <3>2 DEF AdminInv, AskSound, Locked
      <4>2. MutexOf(areq[x].kind) = MutexOf(areq[r].kind)
        BY <2>2, <2>4, <3>2, <4>1 DEF MutexOf
      <4> QED
        BY <1>1, <3>2, <4>1, <4>2
    <3>3. CASE x # r /\ q # r
      BY <2>4, <3>3 DEF AdminInv, LastRecorded, AtStep
    <3> QED
      BY <3>1, <3>2, <3>3
  <2>8. LastIntentInForce'
    BY <1>1, <2>2, <2>4 DEF AdminInv, LastIntentInForce, Effective
  <2>9. Holding' \subseteq Holding
    BY <1>1, <2>4 DEF Holding, Early
  <2>10. ASSUME NEW q \in Asks PROVE AskSound(q)'
    <3>1. CASE q = r
      <4>1. r \notin late'
        BY <1>1, <1>4 DEF AdminInv, AskSound
      <4>2. Intent(r)' = Intent(r)
        BY <2>2, <2>4 DEF Intent
      <4>3. Recorded(r)'
        BY <2>1, <2>2, <2>4, <4>2 DEF Recorded
      <4> QED
        BY <1>1, <1>4, <2>2, <2>4, <3>1, <4>1, <4>3 DEF AskSound
    <3>2. CASE q # r
      BY <1>4, <2>1, <2>4, <3>2, HeldStays, AsksFrame
    <3> QED
      BY <3>1, <3>2
  <2> QED
    BY <2>1, <2>5, <2>6, <2>7, <2>8, <2>9, <2>10, HoldingShrinks DEF AdminInv
<1> QED
  BY <1>3, <1>4 DEF Record

LEMMA StepLateRecord ==
  ASSUME AdminInv, NEW r \in Asks, LateRecord(r)
  PROVE  AdminInv'
<1>1. /\ trail' = Append(trail, Intent(r)) /\ late' \subseteq late /\ r \in late
      /\ areq' = areq /\ held' = held /\ force' = force
  BY DEF LateRecord
<1>2. /\ trail' \in Seq(AdminRecord) /\ Len(trail') = Len(trail) + 1 /\ Len(trail) \in Nat
      /\ \A n \in 1..Len(trail) : n \in 1..Len(trail') /\ trail'[n] = trail[n]
      /\ trail'[Len(trail) + 1] = Intent(r) /\ Intent(r).ask = r
      /\ ForceRecorded'
  BY <1>1, TrailGrows
<1>3. AdminTypes'
  BY <1>1, <1>2 DEF AdminInv, AdminTypes
<1>4. areq[r].pc = "done"
  BY <1>1 DEF AdminInv, AskSound
<1>5. TrailSound'
  <2>1. ASSUME NEW n \in 1..Len(trail) PROVE areq'[trail'[n].ask].pc \in {"effect", "done"}
    BY <1>1, <1>2 DEF AdminInv, TrailSound
  <2>2. areq'[trail'[Len(trail) + 1].ask].pc = "done"
    BY <1>1, <1>2, <1>4
  <2> QED
    BY <1>2, <2>1, <2>2 DEF TrailSound
<1>6. LastRecorded' /\ LastIntentInForce'
  BY <1>1 DEF AdminInv, LastRecorded, LastIntentInForce, Effective, AtStep
<1>7. Holding' \subseteq Holding
  BY <1>1 DEF Holding
<1>8. ASSUME NEW q \in Asks PROVE AskSound(q)'
  BY <1>1, <1>2, HeldStays, AsksFrame
<1> QED
  BY <1>2, <1>3, <1>5, <1>6, <1>7, <1>8, HoldingShrinks DEF AdminInv

(* A task answers once its mutation took effect, or failed to. *)
LEMMA AnswersAfter ==
  ASSUME AdminInv, NEW r \in Asks, areq[r].pc = "effect", NEW x \in Answers, Answer(r, x),
         trail' = trail, late' = late,
         force' \in [Documents -> [version : Targets \cup {"none", "unchanged"}, seq : Nat]],
         ForceRecorded', LastIntentInForce'
  PROVE  AdminInv'
<1> DEFINE new == [areq[r] EXCEPT !.pc = "done", !.answer = x]
<1>1. areq \in [Asks -> AdminRequest] /\ areq[r] \in AdminRequest
  BY DEF AdminInv, AdminTypes
<1>2. /\ new \in AdminRequest /\ new.pc = "done" /\ new.seq = areq[r].seq
      /\ new.kind = areq[r].kind /\ new.target = areq[r].target
  BY <1>1 DEF AdminRequest
<1>3. areq' = [areq EXCEPT ![r] = new] /\ held' = Unlocked(r)
  BY <1>1 DEF Answer, AdminRequest
<1>4. areq'[r] = new /\ \A q \in Asks \ {r} : areq'[q] = areq[q]
  BY <1>1, <1>3
<1> HIDE DEF new
<1>5. /\ held' \in [Mutexes -> Asks \cup {Unheld}]
      /\ \A q \in Asks \ {r}, m \in Mutexes : held[m] = q => held'[m] = q
  BY <1>3, Unlocks
<1>6. AdminTypes'
  BY <1>1, <1>2, <1>3, <1>5 DEF AdminInv, AdminTypes
<1>7. TrailSound'
  <2>1. ASSUME NEW n \in 1..Len(trail) PROVE trail[n].ask \in Asks
    <3>1. trail[n] \in AdminRecord
      BY DEF AdminInv, AdminTypes
    <3> QED
      BY <3>1 DEF AdminRecord
  <2> QED
    BY <1>2, <1>4, <2>1 DEF AdminInv, TrailSound
<1>8. LastRecorded'
  BY <1>2, <1>4 DEF AdminInv, LastRecorded, AtStep
<1>9. Holding' \subseteq Holding
  BY <1>2, <1>4 DEF Holding, Steps
<1>10. ASSUME NEW q \in Asks PROVE AskSound(q)'
  <2>1. CASE q = r
    <3>1. Recorded(r) /\ r \notin late
      BY DEF AdminInv, AskSound
    <3>2. Intent(r)' = Intent(r)
      BY <1>2, <1>4 DEF Intent
    <3>3. Recorded(r)' /\ ~Locked(r)'
      BY <1>2, <1>4, <3>1, <3>2 DEF Recorded, Locked
    <3> QED
      BY <1>2, <1>4, <2>1, <3>1, <3>3 DEF AskSound, Steps
  <2>2. CASE q # r
    BY <1>4, <1>5, <2>2, AsksFrame
  <2> QED
    BY <2>1, <2>2
<1> QED
  BY <1>6, <1>7, <1>8, <1>9, <1>10, HoldingShrinks DEF AdminInv

LEMMA AnsweredAs ==
  ASSUME AdminInv, NEW r \in Asks, NEW x \in Answers, Answer(r, x)
  PROVE  /\ areq'[r].answer = x /\ areq'[r].kind = areq[r].kind /\ areq'[r].seq = areq[r].seq
         /\ areq'[r].target = areq[r].target
         /\ \A q \in Asks \ {r} : areq'[q] = areq[q]
<1>1. areq \in [Asks -> AdminRequest] /\ areq[r] \in AdminRequest
  BY DEF AdminInv, AdminTypes
<1> QED
  BY <1>1 DEF Answer, AdminRequest

(* An answer that changes nothing in force, of a mutation that did not have to. *)
LEMMA NothingInForce ==
  ASSUME AdminInv, NEW r \in Asks, NEW x \in Answers, Answer(r, x), force' = force,
         OnStock(areq[r].kind) \/ areq[r].target = "unchanged" \/ x = "unavailable"
  PROVE  LastIntentInForce'
<1>1. /\ areq'[r].answer = x /\ areq'[r].kind = areq[r].kind /\ areq'[r].target = areq[r].target
      /\ \A q \in Asks \ {r} : areq'[q] = areq[q]
  BY AnsweredAs
<1> SUFFICES ASSUME NEW q \in Asks, Effective(q)', areq'[q].answer \in {"ok", "not found"},
                    ~OnStock(areq'[q].kind), areq'[q].target # "unchanged"
             PROVE  areq'[q].seq <= force'[DocumentOf(areq'[q].kind)].seq
  BY DEF LastIntentInForce
<1>2. q # r
  BY <1>1
<1> QED
  BY <1>1, <1>2 DEF AdminInv, LastIntentInForce, Effective

LEMMA StepTakesEffect ==
  ASSUME AdminInv, NEW r \in Asks, TakesEffect(r)
  PROVE  AdminInv'
<1>1. areq[r].pc = "effect" /\ OnStock(areq[r].kind) /\ UNCHANGED <<trail, late, force>>
  BY DEF TakesEffect, AtStep
<1>2. PICK x \in {"ok", "unavailable", "not found"} : Answer(r, x)
  BY DEF TakesEffect
<1>3. x \in Answers
  BY DEF Answers
<1>4. LastIntentInForce'
  BY <1>1, <1>2, <1>3, NothingInForce
<1>5. ForceRecorded'
  BY <1>1 DEF AdminInv, ForceRecorded
<1> QED
  BY <1>1, <1>2, <1>3, <1>4, <1>5, AnswersAfter DEF AdminInv, AdminTypes

LEMMA AtMost == \A m, n \in Nat : m <= m /\ (m < n => m <= n)
OBVIOUS

LEMMA StepCommitsDocument ==
  ASSUME AdminInv, NEW r \in Asks, CommitsDocument(r)
  PROVE  AdminInv'
<1> DEFINE d == DocumentOf(areq[r].kind)
           new == [version |-> areq[r].target, seq |-> areq[r].seq]
           Versions == [version : Targets \cup {"none", "unchanged"}, seq : Nat]
<1>1. areq[r].pc = "effect" /\ ~OnStock(areq[r].kind) /\ trail' = trail /\ late' = late
  BY DEF CommitsDocument, AtStep
<1>2. force \in [Documents -> Versions] /\ areq[r] \in AdminRequest
  BY DEF AdminInv, AdminTypes
<1>3. CASE Answer(r, "unavailable") /\ force' = force
  <2>1. LastIntentInForce'
    BY <1>3, NothingInForce DEF Answers
  <2>2. ForceRecorded'
    BY <1>1, <1>3 DEF AdminInv, ForceRecorded
  <2> QED
    BY <1>1, <1>2, <1>3, <2>1, <2>2, AnswersAfter DEF Answers
<1>4. ASSUME NEW x \in Answers, Answer(r, x),
             force' = IF areq[r].target = "unchanged" THEN force ELSE [force EXCEPT ![d] = new]
      PROVE  AdminInv'
  <2>1. CASE areq[r].target = "unchanged"
    <3>1. force' = force
      BY <1>4, <2>1
    <3>2. LastIntentInForce'
      BY <1>4, <2>1, <3>1, NothingInForce
    <3>3. ForceRecorded'
      BY <1>1, <3>1 DEF AdminInv, ForceRecorded
    <3> QED
      BY <1>1, <1>2, <1>4, <3>1, <3>2, <3>3, AnswersAfter
  <2>2. CASE areq[r].target # "unchanged"
    <3>1. force' = [force EXCEPT ![d] = new] /\ d \in Documents
      BY <1>4, <2>2 DEF DocumentOf, Documents
    <3>2. new \in Versions /\ new.seq = areq[r].seq /\ new.version = areq[r].target
      BY <1>2 DEF AdminRequest
    <3>3. force' \in [Documents -> Versions]
      BY <1>2, <3>1, <3>2
    <3>4. force'[d].seq = areq[r].seq /\ \A e \in Documents \ {d} : force'[e] = force[e]
      BY <1>2, <3>1, <3>2
    <3>5. force'[d].version = areq[r].target
      BY <1>2, <3>1, <3>2
    <3>6. areq[r].seq # 0 /\ areq[r].seq \in 1..Len(trail) /\ trail[areq[r].seq] = Intent(r)
      BY <1>1 DEF AdminInv, AskSound, Recorded
    <3>7. Intent(r).target = areq[r].target /\ Intent(r).kind = areq[r].kind
      BY DEF Intent
    <3> HIDE DEF new
    <3>8. ForceRecorded'
      BY <1>1, <3>4, <3>5, <3>6, <3>7 DEF AdminInv, ForceRecorded
    <3>9. LastIntentInForce'
      <4> SUFFICES ASSUME NEW q \in Asks, Effective(q)', areq'[q].answer \in {"ok", "not found"},
                          ~OnStock(areq'[q].kind), areq'[q].target # "unchanged"
                   PROVE  areq'[q].seq <= force'[DocumentOf(areq'[q].kind)].seq
        BY DEF LastIntentInForce
      <4>1. CASE q = r
        <5>1. areq'[r].seq = areq[r].seq /\ areq'[r].kind = areq[r].kind
          BY <1>4, AnsweredAs
        <5>2. areq[r].seq \in Nat
          BY <1>2 DEF AdminRequest
        <5> HIDE DEF d
        <5>3. DocumentOf(areq'[q].kind) = d
          BY <4>1, <5>1 DEF d
        <5>4. areq[r].seq <= areq[r].seq
          BY <5>2, AtMost, Zenon
        <5> QED
          BY <3>4, <4>1, <5>1, <5>3, <5>4
      <4>2. CASE q # r /\ DocumentOf(areq[q].kind) = d
        <5>1. areq'[q] = areq[q] /\ areq[q].seq # 0
          BY <1>4, <4>2, AnsweredAs DEF Effective
        <5>2. areq[q].seq < areq[r].seq
          BY <1>1, <4>2, <5>1 DEF AdminInv, LastRecorded, AtStep
        <5>3. areq[q].seq \in Nat /\ areq[r].seq \in Nat
          BY DEF AdminInv, AdminTypes, AdminRequest
        <5> HIDE DEF d
        <5>4. areq[q].seq <= areq[r].seq
          BY <5>2, <5>3, AtMost, Zenon
        <5> QED
          BY <3>4, <4>2, <5>1, <5>4
      <4>3. CASE q # r /\ DocumentOf(areq[q].kind) # d
        <5>1. areq'[q] = areq[q] /\ DocumentOf(areq[q].kind) \in Documents
          BY <1>4, <4>3, AnsweredAs DEF DocumentOf, Documents
        <5> QED
          BY <3>4, <4>3, <5>1 DEF AdminInv, LastIntentInForce, Effective
      <4> QED
        BY <4>1, <4>2, <4>3
    <3> QED
      BY <1>1, <1>4, <3>3, <3>8, <3>9, AnswersAfter
  <2> QED
    BY <2>1, <2>2
<1>5. \/ Answer(r, "unavailable") /\ force' = force
      \/ /\ \E x \in {"ok", "not found"} : Answer(r, x)
         /\ force' = IF areq[r].target = "unchanged" THEN force ELSE [force EXCEPT ![d] = new]
  BY DEF CommitsDocument
<1> QED
  BY <1>3, <1>4, <1>5 DEF Answers

LEMMA AdminStutters ==
  ASSUME AdminInv, UNCHANGED <<areq, held, trail, late, force>>
  PROVE  AdminInv'
BY DEF AdminInv, AdminTypes, TrailSound, LastRecorded, ForceRecorded, LastIntentInForce,
       TasksBounded, Holding, AskSound, Locked, Recorded, Intent, Effective, AtStep

LEMMA AdminInductive == AdminInv /\ [AdminNext]_adminVars => AdminInv'
<1> SUFFICES ASSUME AdminInv, [AdminNext]_adminVars PROVE AdminInv'
  OBVIOUS
<1>1. CASE UNCHANGED adminVars
  BY <1>1, AdminStutters DEF adminVars
<1>2. ASSUME NEW s \in Stocks, NEW t \in Targets, Comes(s, t) PROVE AdminInv'
  BY <1>2, AdminStutters DEF Comes
<1>3. ASSUME NEW r \in Asks, AdminStep(r) PROVE AdminInv'
  BY <1>3, StepArrive, StepClientGoes, StepRefuse, StepExecute, StepApplyCandidate,
     StepVerifyCandidate, StepAdmit, StepTakeMutex, StepBackend, StepStage, StepRecord,
     StepLateRecord, StepTakesEffect, StepCommitsDocument DEF AdminStep
<1> QED
  BY <1>1, <1>2, <1>3 DEF AdminNext

(* For any number of concurrent administrators: an admin mutation that took *)
(* effect was recorded before, what is in force is what the last record of  *)
(* such a mutation says, a client that goes away leaves no record behind,   *)
(* and there are never more tasks than permits (dispatch, execute).         *)
THEOREM MutationsEvidenced == AdminSpec => []AdminEvidenced
<1>1. AdminInv => AdminEvidenced
  <2> SUFFICES ASSUME AdminInv PROVE AdminEvidenced
    OBVIOUS
  <2>1. IntentFirst
    BY DEF AdminInv, ForceRecorded, AskSound, IntentFirst, Effective, AtStep
  <2>2. TasksDetached
    BY DEF AdminInv, TasksBounded, TrailSound, TasksDetached, AtStep
  <2> QED
    BY <2>1, <2>2 DEF AdminInv, AdminEvidenced
<1> QED
  BY <1>1, AdminInitial, AdminInductive, PTL DEF AdminSpec

-----------------------------------------------------------------------------
(* Startup.  What EnterpriseComplete says of a serving process is settled   *)
(* phase by phase: each refusal lets through only what is sound, and what   *)
(* the builder opened is what the configuration it loaded asks for.  The    *)
(* two loads are compared without the secrets, which are filled in later.   *)

Loaded(c) == \E sh, bv : c = [shared |-> sh, byVendor |-> bv, secrets |-> Nothing]

BuiltPhases == {"auth", "setup", "resolve", "evidence", "evidence_auth", "control", "bind", "serving"}
PastAuth == BuiltPhases \ {"auth"}
PastPolicy == {"evidence_auth", "control", "bind", "serving"}
PastRevocations == {"control", "bind", "serving"}

\* The transport's own load: it has refused what it cannot serve.
TransportSound ==
  launch.transport = "http" /\ phase \notin {"load", "refused"} /\ Mode = "off" =>
    Addr = "loopback"

\* The builder's load, whatever secrets were filled in since.
BuiltSound ==
  phase \in BuiltPhases =>
    \E c, secrets : /\ Loaded(c) /\ own = [c EXCEPT !.secrets = secrets]
                    /\ journal = JournalOf(c) /\ policy = PolicyOf(c)

AuthSound ==
  phase \in PastAuth /\ Mode # "off" => RequireEnterpriseEvidence(first) /\ revocations

RecordsSound ==
  /\ phase \in PastPolicy /\ journal # "none" /\ policy # "allow_all" => "policy" \in evidence
  /\ phase \in PastRevocations /\ revocations /\ journal # "none" => "revocations" \in evidence
  /\ evidence \subseteq {"policy", "revocations"}

StartupInv == TransportSound /\ BuiltSound /\ AuthSound /\ RecordsSound

LEMMA StartupInitial == StartupInit => StartupInv
BY DEF StartupInit, StartupInv, TransportSound, BuiltSound, AuthSound, RecordsSound, BuiltPhases,
       PastAuth, PastPolicy, PastRevocations

LEMMA LoadedIsLoaded == Loaded(LoadedConfig)
BY DEF Loaded, LoadedConfig, LoadFromSources

(* A step that only moves the phase, or refuses.                            *)
LEMMA PhaseMoves ==
  ASSUME StartupInv, UNCHANGED <<launch, first, own, journal, policy, revocations, evidence>>,
         \/ phase' \in {phase, "refused"}
         \/ phase = "setup" /\ phase' = "resolve"
         \/ phase = "control" /\ phase' = "bind"
         \/ phase = "bind" /\ phase' = "serving"
  PROVE  StartupInv'
<1>1. Mode' = Mode /\ Addr' = Addr
  BY DEF Mode, Addr
<1>2. TransportSound'
  BY <1>1 DEF StartupInv, TransportSound
<1>3. BuiltSound'
  BY DEF StartupInv, BuiltSound, BuiltPhases
<1>4. AuthSound' /\ RecordsSound'
  BY <1>1 DEF StartupInv, AuthSound, RecordsSound, BuiltPhases, PastAuth, PastPolicy, PastRevocations
<1> QED
  BY <1>2, <1>3, <1>4 DEF StartupInv

LEMMA StepLoad == StartupInv /\ (LoadHttp \/ LoadStdio) => StartupInv'
<1> SUFFICES ASSUME StartupInv, LoadHttp \/ LoadStdio PROVE StartupInv'
  OBVIOUS
<1>1. phase' \in {"build", "refused"} /\ launch' = launch /\ evidence' = evidence
  BY DEF LoadHttp, LoadStdio, Proceed
<1>2. BuiltSound' /\ AuthSound' /\ RecordsSound'
  BY <1>1 DEF StartupInv, BuiltSound, AuthSound, RecordsSound, BuiltPhases, PastAuth, PastPolicy,
              PastRevocations
<1>3. TransportSound'
  <2>1. CASE LoadHttp
    <3>1. ~(phase' \in {"load", "refused"}) =>
            ValidateStartupSecurity(AuthModeParse(Get(first', "MCP_AUTH_MODE")), Addr)
      BY <2>1, Zenon DEF LoadHttp, Proceed
    <3>2. launch'.transport = "http" /\ Addr' = Addr
      BY <2>1 DEF LoadHttp, Addr
    <3>3. Mode' = AuthModeParse(Get(first', "MCP_AUTH_MODE"))
      BY <3>2 DEF Mode
    <3> QED
      BY <3>1, <3>2, <3>3 DEF TransportSound, ValidateStartupSecurity
  <2>2. CASE LoadStdio
    BY <2>2 DEF LoadStdio, TransportSound
  <2> QED
    BY <2>1, <2>2
<1> QED
  BY <1>2, <1>3 DEF StartupInv

LEMMA StepBuild == StartupInv /\ Build => StartupInv'
<1> SUFFICES ASSUME StartupInv, Build PROVE StartupInv'
  OBVIOUS
<1>1. UNCHANGED <<launch, first, evidence, revocations>> /\ Mode' = Mode /\ Addr' = Addr
  BY DEF Build, Mode, Addr
<1>2. PICK c : c = LoadedConfig
  OBVIOUS
<1>3. /\ phase = "build" /\ phase' \in {"setup", "auth", "refused"}
      /\ phase' = "setup" => Mode = "off"
      /\ phase' # "refused" => own' = c /\ journal' = JournalOf(c) /\ policy' = PolicyOf(c)
  BY <1>2, Zenon DEF Build, Proceed
<1>4. PICK sh, bv : c = [shared |-> sh, byVendor |-> bv, secrets |-> Nothing]
  BY <1>2, LoadedIsLoaded DEF Loaded
<1>5. Loaded(c)
  BY <1>2, LoadedIsLoaded
<1>6. c = [c EXCEPT !.secrets = Nothing]
  BY <1>4
<1>7. BuiltSound'
  BY <1>3, <1>5, <1>6, Zenon DEF BuiltSound, BuiltPhases
<1>8. TransportSound' /\ AuthSound' /\ RecordsSound'
  BY <1>1, <1>3 DEF StartupInv, TransportSound, AuthSound, RecordsSound, BuiltPhases, PastAuth,
                    PastPolicy, PastRevocations
<1> QED
  BY <1>7, <1>8 DEF StartupInv

LEMMA StepAuth == StartupInv /\ Auth => StartupInv'
<1> SUFFICES ASSUME StartupInv, Auth PROVE StartupInv'
  OBVIOUS
<1>1. UNCHANGED <<launch, first, own, journal, policy, evidence>> /\ Mode' = Mode /\ Addr' = Addr
  BY DEF Auth, Mode, Addr
<1>2. /\ phase = "auth" /\ phase' \in {"setup", "refused"}
      /\ phase' = "setup" => EnterpriseInboundAuth(first, Mode) /\ revocations'
  BY Zenon DEF Auth, Proceed
<1>3. AuthSound'
  BY <1>1, <1>2 DEF AuthSound, EnterpriseInboundAuth, PastAuth, BuiltPhases
<1>4. TransportSound' /\ RecordsSound'
  BY <1>1, <1>2 DEF StartupInv, TransportSound, RecordsSound, PastPolicy, PastRevocations
<1>5. BuiltSound'
  BY <1>1, <1>2 DEF StartupInv, BuiltSound, BuiltPhases
<1> QED
  BY <1>3, <1>4, <1>5 DEF StartupInv

LEMMA StepResolve ==
  ASSUME StartupInv, NEW answered \in BOOLEAN, ResolveSecrets(answered)
  PROVE  StartupInv'
<1>1. /\ UNCHANGED <<launch, first, journal, policy, revocations, evidence>>
      /\ Mode' = Mode /\ Addr' = Addr
      /\ phase = "resolve" /\ phase' \in {"evidence", "refused"}
  BY DEF ResolveSecrets, Mode, Addr, Proceed
<1>2. PICK new : own' = own \/ own' = [own EXCEPT !.secrets = new]
  BY DEF ResolveSecrets, WithSecrets
<1>3. PICK c, secrets : /\ Loaded(c) /\ own = [c EXCEPT !.secrets = secrets]
                        /\ journal = JournalOf(c) /\ policy = PolicyOf(c)
  BY <1>1 DEF StartupInv, BuiltSound, BuiltPhases
<1>4. PICK sh, bv : c = [shared |-> sh, byVendor |-> bv, secrets |-> Nothing]
  BY <1>3 DEF Loaded
<1>5. [own EXCEPT !.secrets = new] = [c EXCEPT !.secrets = new]
  BY <1>3, <1>4
<1>6. BuiltSound'
  BY <1>1, <1>2, <1>3, <1>5, Zenon DEF BuiltSound
<1>7. TransportSound' /\ AuthSound' /\ RecordsSound'
  BY <1>1 DEF StartupInv, TransportSound, AuthSound, RecordsSound, BuiltPhases, PastAuth,
              PastPolicy, PastRevocations
<1> QED
  BY <1>6, <1>7 DEF StartupInv

LEMMA StepRecords ==
  ASSUME StartupInv, NEW durable \in BOOLEAN, JournalPolicy(durable) \/ JournalRevocations(durable)
  PROVE  StartupInv'
<1>1. /\ UNCHANGED <<launch, first, own, journal, policy, revocations>>
      /\ Mode' = Mode /\ Addr' = Addr
  BY DEF JournalPolicy, JournalRevocations, Mode, Addr
<1>2. \/ phase = "evidence" /\ phase' \in {"evidence_auth", "refused"}
      \/ phase = "evidence_auth" /\ phase' \in {"control", "refused"}
  BY DEF JournalPolicy, JournalRevocations, Proceed
<1>3. TransportSound' /\ AuthSound'
  BY <1>1, <1>2 DEF StartupInv, TransportSound, AuthSound, BuiltPhases, PastAuth
<1>4. BuiltSound'
  BY <1>1, <1>2 DEF StartupInv, BuiltSound, BuiltPhases
<1>5. RecordsSound'
  BY <1>1 DEF StartupInv, RecordsSound, JournalPolicy, JournalRevocations, Proceed, PastPolicy,
              PastRevocations
<1> QED
  BY <1>3, <1>4, <1>5 DEF StartupInv

LEMMA StartupStep == StartupInv /\ [StartupNext]_startupVars => StartupInv'
<1> SUFFICES ASSUME StartupInv, [StartupNext]_startupVars PROVE StartupInv'
  OBVIOUS
<1>1. CASE EditFile \/ UNCHANGED startupVars
  BY <1>1, PhaseMoves DEF EditFile, startupVars
<1>2. CASE StartControl
  BY <1>2, PhaseMoves DEF StartControl, Proceed
<1>3. ASSUME NEW fine \in BOOLEAN, Setup(fine) \/ Bind(fine) PROVE StartupInv'
  BY <1>3, PhaseMoves DEF Setup, Bind, Proceed
<1> QED
  BY <1>1, <1>2, <1>3, StepLoad, StepBuild, StepAuth, StepResolve, StepRecords DEF StartupNext

(* What the two loads agree on is signed.                                   *)
LEMMA SignedEvidence ==
  ASSUME NEW c, RequireEnterpriseEvidence(c)
  PROVE  JournalOf(c) = "signed" /\ PolicyOf(c) = "signed"
BY DEF RequireEnterpriseEvidence, JournalOf, PolicyOf

(* Enterprise mode is complete (run_http_with_edition, ServerBuilder::build): *)
(* for any launch, any contents of the global file and any number of edits, *)
(* through any failure on the way, EnterpriseComplete holds of the process  *)
(* that serves.                                                             *)
THEOREM StartsComplete == StartupSpec => []EnterpriseComplete
<1>1. StartupInv => EnterpriseComplete
  <2> SUFFICES ASSUME StartupInv, phase = "serving", launch.transport = "http"
               PROVE  /\ Addr # "loopback" =>
                           Mode # "off" /\ \A r \in DOMAIN Routes \ {"/", "/metrics"} : Routes[r] = "bearer"
                      /\ Mode # "off" /\ [own EXCEPT !.secrets = Nothing] = first =>
                           /\ journal = "signed" /\ policy = "signed" /\ revocations
                           /\ evidence = {"policy", "revocations"}
    BY Zenon DEF EnterpriseComplete
  <2>1. Addr # "loopback" => Mode # "off"
    BY DEF StartupInv, TransportSound
  <2>2. Mode # "off" => \A r \in DOMAIN Routes \ {"/", "/metrics"} : Routes[r] = "bearer"
    BY DEF Routes, Guard
  <2>3. ASSUME Mode # "off", [own EXCEPT !.secrets = Nothing] = first
        PROVE  /\ journal = "signed" /\ policy = "signed" /\ revocations
               /\ evidence = {"policy", "revocations"}
    <3>1. PICK c, secrets : /\ Loaded(c) /\ own = [c EXCEPT !.secrets = secrets]
                            /\ journal = JournalOf(c) /\ policy = PolicyOf(c)
      BY DEF StartupInv, BuiltSound, BuiltPhases
    <3>2. PICK sh, bv : c = [shared |-> sh, byVendor |-> bv, secrets |-> Nothing]
      BY <3>1 DEF Loaded
    <3>3. first = c
      <4>1. own = [shared |-> sh, byVendor |-> bv, secrets |-> secrets]
        BY <3>1, <3>2
      <4>2. [own EXCEPT !.secrets = Nothing] = c
        BY <3>2, <4>1
      <4> QED
        BY <2>3, <4>2, Zenon
    <3>4. RequireEnterpriseEvidence(first) /\ revocations
      BY <2>3 DEF StartupInv, AuthSound, PastAuth, BuiltPhases
    <3>5. journal = "signed" /\ policy = "signed"
      BY <3>1, <3>3, <3>4, SignedEvidence
    <3> QED
      BY <3>4, <3>5 DEF StartupInv, RecordsSound, PastPolicy, PastRevocations
  <2> QED
    BY <2>1, <2>2, <2>3
<1> QED
  BY <1>1, StartupInitial, StartupStep, PTL DEF StartupSpec
=============================================================================
