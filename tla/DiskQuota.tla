------------------------------ MODULE DiskQuota ------------------------------
(***************************************************************************)
(* The server-wide reservation of disk bytes for streamed artifacts:        *)
(* StreamingDiskCoordinator, StreamingDiskQuota (one transaction) and       *)
(* StreamingDiskLease of src/src/transport/mod.rs.  Everything here happens *)
(* under one mutex, so each operation is a function from the coordinator's  *)
(* state to the next one; the waits in between are actions of Artifacts.    *)
(*                                                                         *)
(* A lease asks for the same amount each time, so a waiter is its lease.    *)
(***************************************************************************)
EXTENDS Integers, Sequences, SequencesExt, FiniteSetsExt

CONSTANTS Ops,        \* transactions: one per streamed operation
          Leases,     \* reservations, each of one writer or committed file
          OpOf,       \* the transaction a lease belongs to
          Ask,        \* how many bytes a lease asks for at a time
          Limit       \* the server-wide ceiling, also each transaction's limit

ASSUME QuotaConstants ==
  /\ IsFiniteSet(Leases)
  /\ OpOf \in [Leases -> Ops]
  /\ Ask \in [Leases -> Nat \ {0}]
  /\ Limit \in Nat

Closed == -1          \* no such transaction or lease

Empty == [reserved |-> 0, tx |-> [o \in Ops |-> Closed], amount |-> [l \in Leases |-> Closed],
          waiters |-> <<>>, granted |-> {}, refused |-> {}]

Registered(q) == {l \in Leases : q.amount[l] # Closed}

RegisterTransaction(q, o) == [q EXCEPT !.tx[o] = 0]

RegisterReservation(q, l) == [q EXCEPT !.amount[l] = 0]

CanGrant(q, l) == q.reserved + Ask[l] <= Limit

\* The checks of grant_locked.
Grantable(q, l) ==
  /\ q.tx[OpOf[l]] # Closed
  /\ q.tx[OpOf[l]] + Ask[l] <= Limit
  /\ CanGrant(q, l)
  /\ q.amount[l] # Closed

Add(q, l, n) ==
  [q EXCEPT !.reserved = @ + n, !.tx[OpOf[l]] = @ + n, !.amount[l] = @ + n]

Grant(q, l) == Add(q, l, Ask[l])

\* One turn of wake_waiters_locked: the front waiter is granted or told it failed.
Answer(q, l) ==
  LET popped == [q EXCEPT !.waiters = Tail(@)]
  IN  IF Grantable(popped, l)
      THEN [Grant(popped, l) EXCEPT !.granted = @ \cup {l}]
      ELSE [popped EXCEPT !.refused = @ \cup {l}]

Turn(q) ==
  IF q.waiters # <<>> /\ CanGrant(q, Head(q.waiters)) THEN Answer(q, Head(q.waiters)) ELSE q

\* wake_waiters_locked: in order, up to the first that does not fit.
Wake(q) ==
  LET after[n \in 0 .. Len(q.waiters)] == IF n = 0 THEN q ELSE Turn(after[n - 1])
  IN  after[Len(q.waiters)]

\* acquire, up to its wait.
TooLarge(q, l) == q.tx[OpOf[l]] + Ask[l] > Limit

AtOnce(q, l) == q.waiters = <<>> /\ CanGrant(q, l)

Enqueue(q, l) == [q EXCEPT !.waiters = Append(@, l)]

Waits(q, l) == Contains(q.waiters, l)

ReleaseLocked(q, l, n) == Add(q, l, -n)

\* position and remove: the waiter leaves from wherever it stands.
Leave(waiters, l) == RemoveAt(waiters, CHOOSE i \in 1 .. Len(waiters) : waiters[i] = l)

\* What a waiter was told no longer matters.
Forget(q, l) == [q EXCEPT !.granted = @ \ {l}, !.refused = @ \ {l}]

\* Mutant: a waiter that gives up leaves the queue without waking the next.
AbandonSilently(q, l) ==
  IF Waits(q, l) THEN [q EXCEPT !.waiters = Leave(@, l)] ELSE Forget(q, l)

\* acquire, when the wait ended in cancellation, the deadline or a refusal: what
\* was granted in the meantime goes back.
Abandon(q, l) ==
  IF Waits(q, l) THEN Wake([Forget(q, l) EXCEPT !.waiters = Leave(@, l)])
  ELSE IF l \in q.granted THEN Wake(ReleaseLocked(Forget(q, l), l, Ask[l]))
  ELSE Forget(q, l)

\* Drop of StreamingDiskQuota, when the operation and all its leases are gone.
Removable(q, o) ==
  q.tx[o] = 0 /\ \A l \in Leases : OpOf[l] = o => q.amount[l] = Closed /\ ~Waits(q, l)

CloseTransactions(q, ops) ==
  [q EXCEPT !.tx = [o \in Ops |-> IF o \in ops /\ Removable(q, o) THEN Closed ELSE @[o]]]

\* Drop of a lease: shrink by its amount (which wakes), then unregister it.
DropLease(q, l) ==
  LET shrunk == IF q.amount[l] > 0 THEN Wake(ReleaseLocked(q, l, q.amount[l])) ELSE q
  IN  [shrunk EXCEPT !.amount[l] = Closed]

\* Leases in the order in which a map of them is walked: some order.
Order == SetToSeq(Leases)

Count == Cardinality(Leases)

\* Several leases go, one after the other.
DropLeases(q, ls) ==
  LET after[n \in 0 .. Count] ==
        IF n = 0 THEN q
        ELSE IF Order[n] \in ls THEN DropLease(after[n - 1], Order[n]) ELSE after[n - 1]
  IN  after[Count]

Held(q, l) == IF q.amount[l] = Closed THEN 0 ELSE q.amount[l]

\* The sum of what the leases of a set hold.
HeldBy(q, ls) ==
  LET upto[n \in 0 .. Count] ==
        IF n = 0 THEN 0
        ELSE upto[n - 1] + (IF Order[n] \in ls THEN Held(q, Order[n]) ELSE 0)
  IN  upto[Count]
=============================================================================
