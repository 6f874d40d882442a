--------------------------- MODULE TransportProofs ---------------------------
(***************************************************************************)
(* Proofs about the transport: requests, redirects, retries and the         *)
(* response cache (Fetch), for any number of calls, keys and urls, a cache  *)
(* of any size and any number of retries and hops; and streamed artifacts   *)
(* with their disk reservations (Artifacts over DiskQuota), for any number  *)
(* of files, operations and reads, any ceiling and any sizes of chunks; and *)
(* partitioned log queries (Ingest), for any window, number of partitions,  *)
(* limit, direction and contents of the log store.                          *)
(***************************************************************************)
EXTENDS Artifacts, Fetch, Ingest, FiniteSetTheorems, WellFoundedInduction, SequenceTheorems, TLAPS

-----------------------------------------------------------------------------
(* The order of last use.                                                   *)

\* An entry leaves the order and the order stays one.
LEMMA ForgottenOrdered ==
  ASSUME NEW order, NEW entries \in SUBSET Keys, OrderOfUse(order, entries), NEW keys
  PROVE  OrderOfUse(Forgotten(order, keys), entries \ keys)
<1>1. \A k \in Keys : Forgotten(order, keys)[k] = IF k \in keys THEN {} ELSE order[k] \ keys
  BY DEF Forgotten
<1> DEFINE new == Forgotten(order, keys)
<1>2. \A k \in Keys : /\ order[k] \subseteq entries \ {k}
                      /\ k \notin entries => order[k] = {}
  BY DEF OrderOfUse
<1>3. ASSUME NEW k \in Keys PROVE new[k] \subseteq (entries \ keys) \ {k}
                                  /\ (k \notin entries \ keys => new[k] = {})
  BY <1>1, <1>2
<1>4. ASSUME NEW j \in entries \ keys, NEW k \in entries \ keys
      PROVE  /\ j # k => (j \in new[k] <=> k \notin new[j])
             /\ j \in new[k] => new[j] \subseteq new[k]
  <2>1. new[k] = order[k] \ keys /\ new[j] = order[j] \ keys
    BY <1>1
  <2>2. /\ j # k => (j \in order[k] <=> k \notin order[j])
        /\ j \in order[k] => order[j] \subseteq order[k]
    BY DEF OrderOfUse
  <2> HIDE DEF new
  <2> QED
    BY <2>1, <2>2
<1> HIDE DEF new
<1>5. OrderOfUse(new, entries \ keys)
  BY <1>3, <1>4 DEF OrderOfUse
<1> QED
  BY <1>5 DEF new

\* What is used, or stored, becomes the last one.
LEMMA UsedOrdered ==
  ASSUME OrderOfUse(later, Resident), NEW k \in Keys
  PROVE  OrderOfUse(Used(k), Resident \cup {k})
<1>1. \A j \in Keys : Used(k)[j] = IF j \in Resident \ {k} THEN later[j] \cup {k} ELSE {}
  BY DEF Used
<1>2. Resident \subseteq Keys
  BY DEF Resident
<1> DEFINE new == Used(k)
           all == Resident \cup {k}
<1>3. ASSUME NEW j \in Keys PROVE new[j] \subseteq all \ {j} /\ (j \notin all => new[j] = {})
  <2>1. new[j] = (IF j \in Resident \ {k} THEN later[j] \cup {k} ELSE {})
    BY <1>1
  <2>2. later[j] \subseteq Resident \ {j}
    BY DEF OrderOfUse
  <2> HIDE DEF new
  <2> QED
    BY <2>1, <2>2
<1>4. ASSUME NEW i \in all, NEW j \in all
      PROVE  /\ i # j => (i \in new[j] <=> j \notin new[i])
             /\ i \in new[j] => new[i] \subseteq new[j]
  <2>1. i \in Keys /\ j \in Keys
    BY <1>2
  <2>2. new[k] = {} /\ \A x \in Resident \ {k} : new[x] = later[x] \cup {k}
    BY <1>1, <1>2
  <2>3. CASE i = k
    BY <1>3, <2>1, <2>2, <2>3
  <2>4. CASE j = k
    BY <1>3, <2>1, <2>2, <2>4
  <2>5. CASE i \in Resident \ {k} /\ j \in Resident \ {k}
    <3>1. /\ i # j => (i \in later[j] <=> j \notin later[i])
          /\ i \in later[j] => later[i] \subseteq later[j]
      BY <2>5 DEF OrderOfUse
    <3>2. new[i] = later[i] \cup {k} /\ new[j] = later[j] \cup {k} /\ i # k /\ j # k
      BY <2>2, <2>5
    <3> HIDE DEF new
    <3> QED
      BY <3>1, <3>2
  <2> QED
    BY <2>3, <2>4, <2>5
<1> HIDE DEF new, all
<1>5. OrderOfUse(new, all)
  BY <1>3, <1>4 DEF OrderOfUse
<1> QED
  BY <1>5 DEF new, all

\* In a finite order one entry is before all the others.
LEMMA OldestExists ==
  ASSUME NEW order, NEW entries \in SUBSET Keys, OrderOfUse(order, entries), entries # {}
  PROVE  \E k \in entries : order[k] = entries \ {k}
<1>1. IsFiniteSet(entries) /\ \A k \in entries : IsFiniteSet(order[k]) /\ Cardinality(order[k]) \in Nat
  <2>1. IsFiniteSet(entries)
    BY FetchConstants, FS_Subset
  <2>2. ASSUME NEW k \in entries PROVE IsFiniteSet(order[k]) /\ Cardinality(order[k]) \in Nat
    BY <2>1, FS_Subset, FS_CardinalityType DEF OrderOfUse
  <2> QED
    BY <2>1, <2>2
<1> DEFINE Rank(k) == Cardinality(entries) - Cardinality(order[k])
           Ranks == {Rank(k) : k \in entries}
<1>2. Cardinality(entries) \in Nat
  BY <1>1, FS_CardinalityType
<1>3. \A k \in entries : Rank(k) \in Nat
  <2> SUFFICES ASSUME NEW k \in entries PROVE Rank(k) \in Nat
    OBVIOUS
  <2>1. order[k] \subseteq entries
    BY DEF OrderOfUse
  <2>2. Cardinality(order[k]) <= Cardinality(entries)
    BY <1>1, <2>1, FS_Subset
  <2> QED
    BY <1>1, <1>2, <2>2
<1>4. PICK n \in Ranks : \A m \in Ranks : ~ (m < n)
  <2>1. Ranks \subseteq Nat /\ Ranks # {}
    BY <1>3
  <2> HIDE DEF Ranks
  <2>2. PICK n \in Ranks : \A m \in Ranks : <<m, n>> \notin OpToRel(<, Nat)
    BY <2>1, NatLessThanWellFounded, WFMin
  <2> QED
    BY <2>1, <2>2 DEF OpToRel
<1>5. PICK k \in entries : Rank(k) = n
  OBVIOUS
<1>6. ASSUME NEW j \in entries, j # k, j \notin order[k] PROVE FALSE
  <2>1. k \in order[j] /\ order[k] \subseteq order[j] /\ k \notin order[k]
    BY <1>6 DEF OrderOfUse
  <2>2. Cardinality(order[k] \cup {k}) = Cardinality(order[k]) + 1
    BY <1>1, <2>1, FS_AddElement
  <2>3. Cardinality(order[k] \cup {k}) <= Cardinality(order[j])
    BY <1>1, <2>1, FS_Subset
  <2>4. Rank(j) < Rank(k)
    BY <1>1, <1>2, <2>2, <2>3
  <2> QED
    BY <1>4, <1>5, <2>4
<1>7. order[k] \subseteq entries \ {k}
  BY DEF OrderOfUse
<1> QED
  BY <1>6, <1>7

\* Evicting what has MaxEntries entries after it leaves at most MaxEntries.
LEMMA EvictionBounds ==
  ASSUME NEW order, NEW entries \in SUBSET Keys, OrderOfUse(order, entries),
         Cardinality(entries) <= MaxEntries + 1
  PROVE  /\ Victims(order) \subseteq entries
         /\ Cardinality(entries \ Victims(order)) <= MaxEntries
<1>1. MaxEntries \in Nat /\ 0 < MaxEntries /\ IsFiniteSet(entries) /\ Cardinality({}) = 0
  BY FetchConstants, FS_Subset, FS_EmptySet
<1>2. Victims(order) \subseteq entries
  <2> SUFFICES ASSUME NEW k \in Victims(order), k \notin entries PROVE FALSE
    OBVIOUS
  <2>1. k \in Keys /\ Cardinality(order[k]) >= MaxEntries
    BY DEF Victims
  <2>2. order[k] = {}
    BY <2>1 DEF OrderOfUse
  <2> QED
    BY <1>1, <2>1, <2>2
<1>3. IsFiniteSet(entries \ Victims(order))
  BY <1>1, FS_Subset
<1>4. Cardinality(entries) \in Nat /\ Cardinality(entries \ Victims(order)) <= Cardinality(entries)
      /\ Cardinality(entries \ Victims(order)) \in Nat
  BY <1>1, <1>3, FS_Subset, FS_CardinalityType
<1>5. CASE Cardinality(entries) <= MaxEntries
  BY <1>1, <1>2, <1>4, <1>5
<1>6. CASE Cardinality(entries) > MaxEntries
  <2>1. Cardinality(entries) = MaxEntries + 1 /\ entries # {}
    <3>1. Cardinality(entries) = MaxEntries + 1 /\ Cardinality(entries) # 0
      BY <1>1, <1>4, <1>6
    <3> QED
      BY <1>1, <3>1
  <2>2. PICK k \in entries : order[k] = entries \ {k}
    BY <2>1, OldestExists
  <2>3. Cardinality(entries \ {k}) = MaxEntries
    <3>1. Cardinality(entries \ {k}) = Cardinality(entries) - 1
      BY <1>1, <2>2, FS_RemoveElement
    <3> QED
      BY <1>1, <2>1, <3>1
  <2>4. k \in Victims(order)
    <3>1. k \in Keys /\ Cardinality(order[k]) >= MaxEntries
      BY <1>1, <2>2, <2>3
    <3> QED
      BY <3>1 DEF Victims
  <2>5. entries \ Victims(order) \subseteq entries \ {k} /\ IsFiniteSet(entries \ {k})
    BY <1>1, <2>4, FS_RemoveElement
  <2>6. Cardinality(entries \ Victims(order)) <= Cardinality(entries \ {k})
    BY <2>5, FS_Subset
  <2> QED
    BY <1>2, <2>3, <2>6
<1> QED
  BY <1>1, <1>4, <1>5, <1>6

-----------------------------------------------------------------------------
(* One request: what its record says of the hops and attempts so far.       *)

OnItsWay == {"flight", "answered", "body", "backoff"}

Request == [pc : OnItsWay \cup {"new", "done"}, kind : Kinds, key : Keys \cup {"none"},
            url : Urls, cred : BOOLEAN, seen : SUBSET Urls, hops : Nat, attempt : Nat,
            got : Int, due : Int, writes : Nat, overlap : BOOLEAN, admitted : BOOLEAN]

\* HopsContained and AttemptsReported, of every step of a request, and what they
\* need: a hop is checked against the ones before it, only downloads are tried
\* again, and what is admitted is over.
Hops(r) ==
  /\ r.url \in r.seen /\ r.url \notin Denied
  /\ OriginOf[r.url] \in Allowed \cup {OriginOf[Base]}
  /\ r.cred => \A u \in r.seen : OriginOf[u] = OriginOf[Base]
  /\ Base \in Secure => r.seen \subseteq Secure

Attempts(r) ==
  /\ r.due = IF r.pc \in {"flight", "answered"} THEN 1 ELSE 0
  /\ r.writes <= 1
  /\ r.pc = "backoff" => r.kind = "stream"
  /\ r.pc \in OnItsWay => r.key \in Keys
  /\ r.admitted => r.pc = "done"

CallSound(r) == r \in Request /\ Hops(r) /\ Attempts(r)

LEMMA IdleSound == CallSound(Idle)
<1>1. Idle \in Request
  <2>1. "new" \in OnItsWay \cup {"new", "done"} /\ "get" \in Kinds /\ Base \in Urls
    BY FetchConstants DEF Kinds
  <2> QED
    BY <2>1 DEF Request, Idle
<1>2. Hops(Idle)
  BY FetchConstants DEF Hops, Idle
<1>3. Attempts(Idle)
  BY DEF Attempts, Idle, OnItsWay
<1> QED
  BY <1>1, <1>2, <1>3 DEF CallSound

LEMMA OverSound ==
  ASSUME NEW r \in Request, r.writes <= 1, r.due = 0
  PROVE  /\ CallSound(Over(r)) /\ Over(r).pc = "done" /\ Over(r).admitted = r.admitted
         /\ Over(r).got <= 0
<1>0. PICK o, idle : o = Over(r) /\ idle = Idle
  OBVIOUS
<1>1. o = [pc |-> "done", kind |-> r.kind, key |-> "none", url |-> Base, cred |-> TRUE,
           seen |-> {Base}, hops |-> 0, attempt |-> 1, got |-> -1, due |-> r.due,
           writes |-> r.writes, overlap |-> FALSE, admitted |-> r.admitted]
  <2>1. idle = [pc |-> "new", kind |-> "get", key |-> "none", url |-> Base, cred |-> TRUE,
                seen |-> {Base}, hops |-> 0, attempt |-> 1, got |-> -1, due |-> 0,
                writes |-> 0, overlap |-> FALSE, admitted |-> FALSE]
    BY <1>0 DEF Idle
  <2>2. o = [idle EXCEPT !.pc = "done", !.kind = r.kind, !.due = r.due, !.writes = r.writes,
                         !.admitted = r.admitted]
    BY <1>0 DEF Over
  <2> QED
    BY <2>1, <2>2
<1>2. o \in Request
  <2>1. "done" \in OnItsWay \cup {"new", "done"} /\ Base \in Urls
    BY FetchConstants
  <2> QED
    BY <1>1, <2>1 DEF Request
<1>3. Hops(o)
  BY <1>1, FetchConstants DEF Hops
<1>4. Attempts(o)
  BY <1>1 DEF Attempts, OnItsWay
<1> QED
  BY <1>0, <1>1, <1>2, <1>3, <1>4 DEF CallSound

\* A request goes on the wire.
LEMMA OnWireSound ==
  ASSUME NEW r \in Request, NEW u \in Urls, NEW cred \in BOOLEAN, r.key \in Keys,
         r.due = 0, r.writes <= 1, r.kind = "write" => r.writes = 0, ~r.admitted,
         NEW h, h.url = u /\ h.cred = cred /\ h.seen = r.seen, Hops(h)
  PROVE  LET w == OnWire(r, u, cred)
         IN  /\ CallSound(w) /\ w.pc = "flight" /\ w.kind = r.kind /\ w.overlap = r.overlap
             /\ w.admitted = r.admitted /\ w.got = r.got
<1>0. PICK w, n : /\ w = OnWire(r, u, cred)
                  /\ n = IF r.kind = "write" THEN r.writes + 1 ELSE r.writes
  OBVIOUS
<1>1. w = [pc |-> "flight", kind |-> r.kind, key |-> r.key, url |-> u, cred |-> cred,
           seen |-> r.seen, hops |-> r.hops, attempt |-> r.attempt, got |-> r.got,
           due |-> r.due + 1, writes |-> n, overlap |-> r.overlap, admitted |-> r.admitted]
  <2>1. w = [r EXCEPT !.pc = "flight", !.url = u, !.cred = cred, !.due = @ + 1, !.writes = n]
    BY <1>0 DEF OnWire
  <2> QED
    BY <2>1 DEF Request
<1>2. n \in Nat /\ n <= 1
  BY <1>0 DEF Request
<1>4. w \in Request
  <2>1. "flight" \in OnItsWay \cup {"new", "done"} /\ r.due + 1 \in Int
    BY DEF OnItsWay
  <2> QED
    BY <1>1, <1>2, <2>1 DEF Request
<1>5. Hops(w)
  BY <1>1 DEF Hops
<1>6. Attempts(w)
  BY <1>1, <1>2 DEF Attempts, OnItsWay
<1> QED
  BY <1>0, <1>1, <1>4, <1>5, <1>6 DEF CallSound

\* An attempt is over, and reported once.
LEMMA ReportedFields ==
  ASSUME NEW c \in Calls, CallSound(call[c]), call[c].pc \in {"flight", "answered"}, NEW step
  PROVE  LET k == call[c]
             b == [pc |-> step, kind |-> k.kind, key |-> k.key, url |-> k.url, cred |-> k.cred,
                   seen |-> k.seen, hops |-> k.hops, attempt |-> k.attempt, got |-> k.got,
                   due |-> 0, writes |-> k.writes, overlap |-> k.overlap, admitted |-> FALSE]
         IN  /\ Reported(c, step) = IF step = "done" THEN Over(b) ELSE b
             /\ k \in Request /\ Hops(k) /\ k.writes <= 1 /\ k.key \in Keys
<1>0. PICK k, b : k = call[c] /\ b = [k EXCEPT !.pc = step, !.due = k.due - 1]
  OBVIOUS
<1>1. k \in Request /\ Hops(k) /\ Attempts(k) /\ k.pc # "done" /\ k.pc \in OnItsWay
  BY <1>0 DEF CallSound, OnItsWay
<1>2. k.due - 1 = 0 /\ k.writes <= 1 /\ k.key \in Keys /\ k.admitted = FALSE
  <2>1. k.due = 1 /\ k.writes <= 1 /\ k.key \in Keys /\ ~k.admitted
    BY <1>0, <1>1 DEF Attempts
  <2>2. k.admitted \in BOOLEAN
    BY <1>1 DEF Request
  <2> QED
    BY <2>1, <2>2
<1>3. b = [pc |-> step, kind |-> k.kind, key |-> k.key, url |-> k.url, cred |-> k.cred,
           seen |-> k.seen, hops |-> k.hops, attempt |-> k.attempt, got |-> k.got,
           due |-> k.due - 1, writes |-> k.writes, overlap |-> k.overlap, admitted |-> k.admitted]
  BY <1>0, <1>1 DEF Request
<1>4. Reported(c, step) = IF step = "done" THEN Over(b) ELSE b
  BY <1>0 DEF Reported, Reports
<1> QED
  BY <1>0, <1>1, <1>2, <1>3, <1>4

\* It is read, tried again or the end.
LEMMA ReportedSound ==
  ASSUME NEW c \in Calls, CallSound(call[c]), call[c].pc \in {"flight", "answered"},
         NEW step \in {"body", "backoff", "done"},
         step = "backoff" => call[c].kind = "stream"
  PROVE  LET r == Reported(c, step)
         IN  /\ CallSound(r) /\ r.pc = step /\ ~r.admitted
             /\ step # "done" => r.kind = call[c].kind /\ r.overlap = call[c].overlap /\ r.got = call[c].got
             /\ r.got <= 0 \/ r.got = call[c].got
<1>0. PICK k : k = call[c]
  OBVIOUS
<1>1. PICK b : /\ b = [pc |-> step, kind |-> k.kind, key |-> k.key, url |-> k.url, cred |-> k.cred,
                       seen |-> k.seen, hops |-> k.hops, attempt |-> k.attempt, got |-> k.got,
                       due |-> 0, writes |-> k.writes, overlap |-> k.overlap, admitted |-> FALSE]
               /\ Reported(c, step) = IF step = "done" THEN Over(b) ELSE b
               /\ k \in Request /\ Hops(k) /\ k.writes <= 1 /\ k.key \in Keys
  BY <1>0, ReportedFields
<1>2. b \in Request
  <2>1. step \in OnItsWay \cup {"new", "done"}
    BY DEF OnItsWay
  <2> QED
    BY <1>1, <2>1 DEF Request
<1>3. CASE step = "done"
  <2>1. CallSound(Over(b)) /\ Over(b).pc = "done" /\ Over(b).admitted = b.admitted /\ Over(b).got <= 0
    BY <1>1, <1>2, OverSound
  <2> QED
    BY <1>1, <1>3, <2>1
<1>4. CASE step # "done"
  <2>1. Hops(b)
    BY <1>1 DEF Hops
  <2>2. Attempts(b)
    BY <1>0, <1>1, <1>4 DEF Attempts, OnItsWay
  <2> QED
    BY <1>0, <1>1, <1>2, <1>4, <2>1, <2>2 DEF CallSound
<1> QED
  BY <1>3, <1>4

-----------------------------------------------------------------------------
(* What a step does to the request it is about.                             *)

Seen == {"answered", "body"}

CallsInv == call \in [Calls -> Request] /\ \A c \in Calls : CallSound(call[c])

\* The request stays the one it was; what it got, it got from upstream now or before.
Moves(c, r) ==
  /\ call' = [call EXCEPT ![c] = r] /\ CallSound(r)
  /\ r.pc \in OnItsWay =>
       call[c].pc \in OnItsWay /\ r.kind = call[c].kind /\ r.overlap = call[c].overlap
  /\ r.got <= 0 \/ r.got = call[c].got \/ r.got = version'
  /\ r.pc \in Seen => r.got = version' \/ (call[c].pc \in Seen /\ r.got = call[c].got)

LEMMA CallsMove ==
  ASSUME CallsInv, NEW c \in Calls, NEW r, Moves(c, r)
  PROVE  /\ CallsInv' /\ call'[c] = r /\ \A d \in Calls : d # c => call'[d] = call[d]
<1>1. r \in Request /\ call \in [Calls -> Request] /\ call' = [call EXCEPT ![c] = r]
  BY DEF CallsInv, Moves, CallSound
<1>2. call' \in [Calls -> Request] /\ call'[c] = r /\ \A d \in Calls : d # c => call'[d] = call[d]
  BY <1>1
<1>3. \A d \in Calls : CallSound(call'[d])
  BY <1>2 DEF CallsInv, Moves
<1> QED
  BY <1>2, <1>3 DEF CallsInv, CallSound, Hops, Attempts

\* Requests that end where no attempt is under way.
LEMMA EndsQuietly ==
  ASSUME CallsInv, NEW c \in Calls, call[c].pc \notin {"flight", "answered"}
  PROVE  /\ CallSound(Over(call[c])) /\ Over(call[c]).pc = "done" /\ Over(call[c]).got <= 0
         /\ Over(call[c]).admitted = call[c].admitted
<1>1. call[c] \in Request /\ call[c].due = 0 /\ call[c].writes <= 1
  BY DEF CallsInv, CallSound, Attempts
<1> QED
  BY <1>1, OverSound

LEMMA Admits ==
  ASSUME CallsInv, NEW c \in Calls, call[c].pc = "body"
  PROVE  LET r == Over([call[c] EXCEPT !.admitted = TRUE])
         IN  CallSound(r) /\ r.pc = "done" /\ r.got <= 0 /\ r.admitted
<1>0. PICK b : b = [call[c] EXCEPT !.admitted = TRUE]
  OBVIOUS
<1>1. call[c] \in Request /\ call[c].due = 0 /\ call[c].writes <= 1
  BY DEF CallsInv, CallSound, Attempts
<1>2. b \in Request /\ b.due = 0 /\ b.writes <= 1 /\ b.admitted = TRUE
  BY <1>0, <1>1 DEF Request
<1> QED
  BY <1>0, <1>2, OverSound

LEMMA MovesEnd ==
  ASSUME CallsInv, NEW c \in Calls, Refused(c) \/ (\E k \in Keys : ServeHit(c, k))
  PROVE  \E r : Moves(c, r) /\ r.pc = "done" /\ r.admitted = call[c].admitted
<1>1. call[c].pc = "new" /\ (call' = [call EXCEPT ![c] = Over(call[c])]
                              \/ call' = [call EXCEPT ![c] = Over(Idle)])
  BY DEF Refused, ServeHit, Finish
<1>2. CallSound(Over(call[c])) /\ Over(call[c]).pc = "done" /\ Over(call[c]).got <= 0
      /\ Over(call[c]).admitted = call[c].admitted
  BY <1>1, EndsQuietly
<1>3. CallSound(Over(Idle)) /\ Over(Idle).pc = "done" /\ Over(Idle).got <= 0
      /\ Over(Idle).admitted = FALSE
  <2>1. Idle \in Request /\ Idle.due = 0 /\ Idle.writes = 0 /\ Idle.admitted = FALSE
    BY IdleSound DEF CallSound, Idle
  <2> QED
    BY <2>1, OverSound
<1>4. call[c].admitted = FALSE
  <2>1. ~call[c].admitted /\ call[c].admitted \in BOOLEAN
    BY <1>1 DEF CallsInv, CallSound, Attempts, Request
  <2> QED
    BY <2>1
<1>5. "done" \notin OnItsWay /\ "done" \notin Seen
  BY DEF OnItsWay, Seen
<1>6. CASE call' = [call EXCEPT ![c] = Over(call[c])]
  BY <1>2, <1>5, <1>6 DEF Moves
<1>7. CASE call' = [call EXCEPT ![c] = Over(Idle)]
  BY <1>3, <1>4, <1>5, <1>7 DEF Moves
<1> QED
  BY <1>1, <1>6, <1>7

LEMMA MovesUpstream ==
  ASSUME CallsInv, NEW c \in Calls, Upstream(c), version \in Nat
  PROVE  \E r : Moves(c, r) /\ r.admitted = call[c].admitted
<1>1. PICK k, r : k = call[c] /\ r = [k EXCEPT !.pc = "answered", !.got = version']
  OBVIOUS
<1>2. k \in Request /\ Hops(k) /\ Attempts(k) /\ k.pc = "flight" /\ version' \in Int
  BY <1>1 DEF CallsInv, CallSound, Upstream
<1>3. r = [pc |-> "answered", kind |-> k.kind, key |-> k.key, url |-> k.url, cred |-> k.cred,
           seen |-> k.seen, hops |-> k.hops, attempt |-> k.attempt, got |-> version',
           due |-> k.due, writes |-> k.writes, overlap |-> k.overlap, admitted |-> k.admitted]
  BY <1>1, <1>2 DEF Request
<1>4. r \in Request
  <2>1. "answered" \in OnItsWay \cup {"new", "done"}
    BY DEF OnItsWay
  <2> QED
    BY <1>2, <1>3, <2>1 DEF Request
<1>5. Hops(r)
  BY <1>2, <1>3 DEF Hops
<1>6. Attempts(r)
  BY <1>2, <1>3 DEF Attempts, OnItsWay
<1>7. call' = [call EXCEPT ![c] = r]
  BY <1>1 DEF Upstream, CallsInv
<1>8. call[c].pc \in OnItsWay
  BY <1>1, <1>2 DEF OnItsWay
<1> QED
  BY <1>1, <1>3, <1>4, <1>5, <1>6, <1>7, <1>8 DEF Moves, CallSound

LEMMA MovesReported ==
  ASSUME CallsInv, NEW c \in Calls, SendFails(c) \/ Success(c) \/ ErrorStatus(c)
  PROVE  \E r : Moves(c, r) /\ r.admitted = call[c].admitted
<1>1. PICK step \in {"body", "backoff", "done"} :
        /\ call' = [call EXCEPT ![c] = Reported(c, step)]
        /\ step = "backoff" => call[c].kind = "stream"
        /\ step = "body" => call[c].pc = "answered"
  <2>1. CASE SendFails(c)
    BY <2>1 DEF SendFails, Retries
  <2>2. CASE Success(c)
    BY <2>2 DEF Success
  <2>3. CASE ErrorStatus(c)
    BY <2>3 DEF ErrorStatus, Retries
  <2> QED
    BY <2>1, <2>2, <2>3
<1>2. call[c].pc \in {"flight", "answered"} /\ CallSound(call[c])
  BY DEF SendFails, Success, ErrorStatus, CallsInv
<1>3. PICK r : /\ r = Reported(c, step) /\ CallSound(r) /\ r.pc = step /\ ~r.admitted
               /\ step # "done" => r.kind = call[c].kind /\ r.overlap = call[c].overlap /\ r.got = call[c].got
               /\ r.got <= 0 \/ r.got = call[c].got
  BY <1>1, <1>2, ReportedSound
<1>4. r.admitted = call[c].admitted
  <2>1. ~call[c].admitted /\ r.admitted \in BOOLEAN /\ call[c].admitted \in BOOLEAN
    BY <1>2, <1>3 DEF CallSound, Attempts, Request
  <2> QED
    BY <1>3, <2>1
<1>5. call[c].pc \in OnItsWay /\ "done" \notin OnItsWay
      /\ (r.pc \in Seen => step = "body" /\ call[c].pc \in Seen)
  BY <1>1, <1>2, <1>3 DEF OnItsWay, Seen
<1> QED
  BY <1>1, <1>3, <1>4, <1>5 DEF Moves

LEMMA MovesBackoff ==
  ASSUME CallsInv, NEW c \in Calls, Backoff(c)
  PROVE  \E r : Moves(c, r) /\ r.admitted = call[c].admitted
<1>1. PICK k, b : k = call[c] /\ b = Afresh(k)
  OBVIOUS
<1>2. k \in Request /\ Attempts(k) /\ k.pc = "backoff"
  BY <1>1 DEF CallsInv, CallSound, Backoff
<1>3. k.kind = "stream" /\ k.key \in Keys /\ k.due = 0 /\ k.writes <= 1 /\ ~k.admitted
  BY <1>2 DEF Attempts, OnItsWay
<1>4. CASE call' = [call EXCEPT ![c] = OnWire(b, Base, TRUE)]
  <2>1. b = [pc |-> k.pc, kind |-> k.kind, key |-> k.key, url |-> k.url, cred |-> k.cred,
             seen |-> {Base}, hops |-> 0, attempt |-> k.attempt + 1, got |-> k.got,
             due |-> k.due, writes |-> k.writes, overlap |-> k.overlap, admitted |-> k.admitted]
    BY <1>1, <1>2 DEF Request, Afresh
  <2>2. b \in Request /\ Base \in Urls
    BY <1>2, <2>1, FetchConstants DEF Request
  <2>3. PICK h : h = [b EXCEPT !.url = Base, !.cred = TRUE]
    OBVIOUS
  <2>4. h.url = Base /\ h.seen = {Base} /\ h.cred = TRUE /\ h.seen = b.seen
    BY <2>1, <2>3
  <2>5. Hops(h) /\ TRUE \in BOOLEAN /\ b.key \in Keys /\ b.due = 0 /\ b.writes <= 1 /\ ~b.admitted
        /\ b.kind # "write"
    BY <1>3, <2>1, <2>4, FetchConstants DEF Hops
  <2>6. PICK r : /\ r = OnWire(b, Base, TRUE)
                 /\ CallSound(r) /\ r.pc = "flight" /\ r.kind = b.kind /\ r.overlap = b.overlap
                 /\ r.admitted = b.admitted /\ r.got = b.got
    BY <2>2, <2>4, <2>5, OnWireSound
  <2>7. call[c].pc \in OnItsWay /\ r.pc \notin Seen
    BY <1>1, <1>2, <2>6 DEF OnItsWay, Seen
  <2>8. b.kind = k.kind /\ b.overlap = k.overlap /\ b.admitted = k.admitted /\ b.got = k.got
    BY <2>1
  <2> QED
    BY <1>1, <1>4, <2>6, <2>7, <2>8 DEF Moves
<1>5. CASE call' = [call EXCEPT ![c] = Over(k)]
  <2>1. CallSound(Over(k)) /\ Over(k).pc = "done" /\ Over(k).got <= 0 /\ Over(k).admitted = k.admitted
    BY <1>1, <1>2, EndsQuietly
  <2>2. Over(k).pc \notin OnItsWay /\ Over(k).pc \notin Seen
    BY <2>1 DEF OnItsWay, Seen
  <2> QED
    BY <1>1, <1>5, <2>1, <2>2 DEF Moves
<1> QED
  BY <1>1, <1>4, <1>5 DEF Backoff, Finish

\* A redirect that is followed: the checks of the hop, on top of those before it.
LEMMA HopSound ==
  ASSUME NEW k \in Request, Hops(k), NEW u \in Urls, u \notin Denied,
         k.url \in Secure => u \in Secure,
         OriginOf[u] # OriginOf[Base] => OriginOf[u] \in Allowed,
         NEW h, h.url = u, h.seen = k.seen \cup {u},
         h.cred = (k.cred /\ OriginOf[u] = OriginOf[k.url])
  PROVE  Hops(h)
<1>1. h.url \in h.seen /\ h.url \notin Denied /\ OriginOf[h.url] \in Allowed \cup {OriginOf[Base]}
  OBVIOUS
<1>2. ASSUME h.cred, NEW x \in h.seen PROVE OriginOf[x] = OriginOf[Base]
  <2>1. k.cred /\ OriginOf[u] = OriginOf[k.url]
    BY <1>2
  <2>2. \A y \in k.seen : OriginOf[y] = OriginOf[Base]
    BY <2>1 DEF Hops
  <2>3. k.url \in k.seen
    BY DEF Hops
  <2> QED
    BY <2>1, <2>2, <2>3
<1>3. Base \in Secure => h.seen \subseteq Secure
  BY DEF Hops
<1> QED
  BY <1>1, <1>2, <1>3 DEF Hops

LEMMA MovesRedirected ==
  ASSUME CallsInv, NEW c \in Calls, NEW u \in Urls, Redirected(c, u)
  PROVE  \E r : Moves(c, r) /\ r.admitted = call[c].admitted
<1>1. call[c].pc = "answered" /\ CallSound(call[c])
  BY DEF Redirected, CallsInv
<1>2. call[c].admitted = FALSE /\ call[c].pc \in OnItsWay
  <2>1. ~call[c].admitted /\ call[c].admitted \in BOOLEAN
    BY <1>1 DEF CallSound, Attempts, Request
  <2> QED
    BY <1>1, <2>1 DEF OnItsWay
<1>3. CASE ~Follows(c, u) /\ call' = [call EXCEPT ![c] = Reported(c, "done")]
  <2>1. PICK r : /\ r = Reported(c, "done") /\ CallSound(r) /\ r.pc = "done" /\ ~r.admitted
                 /\ r.got <= 0 \/ r.got = call[c].got
    BY <1>1, ReportedSound
  <2>2. r.admitted = FALSE /\ r.pc \notin OnItsWay /\ r.pc \notin Seen
    BY <2>1 DEF CallSound, Request, OnItsWay, Seen
  <2> QED
    BY <1>2, <1>3, <2>1, <2>2 DEF Moves
<1>4. CASE /\ Follows(c, u)
           /\ call' = [call EXCEPT ![c] =
                         OnWire(Hop(Reported(c, "flight"), u), u, KeepsCredential(c, u))]
  <2>1. PICK k, b, h, cred : /\ k = call[c] /\ b = Hop(Reported(c, "flight"), u)
                             /\ cred = KeepsCredential(c, u)
                             /\ h = [b EXCEPT !.url = u, !.cred = cred]
    OBVIOUS
  <2>2. PICK a : /\ a = [pc |-> "flight", kind |-> k.kind, key |-> k.key, url |-> k.url, cred |-> k.cred,
                       seen |-> k.seen, hops |-> k.hops, attempt |-> k.attempt, got |-> k.got,
                       due |-> 0, writes |-> k.writes, overlap |-> k.overlap, admitted |-> FALSE]
               /\ Reported(c, "flight") = a
               /\ k \in Request /\ Hops(k) /\ k.writes <= 1 /\ k.key \in Keys
    BY <1>1, <2>1, ReportedFields
  <2>3. b = [pc |-> "flight", kind |-> k.kind, key |-> k.key, url |-> k.url, cred |-> k.cred,
             seen |-> k.seen \cup {u}, hops |-> k.hops + 1, attempt |-> k.attempt, got |-> k.got,
             due |-> 0, writes |-> k.writes, overlap |-> k.overlap, admitted |-> FALSE]
    <3>1. PICK n, s : n = k.hops + 1 /\ s = k.seen \cup {u}
      OBVIOUS
    <3>2. a.hops = k.hops /\ a.seen = k.seen
      BY <2>2
    <3>3. b = [a EXCEPT !.hops = n, !.seen = s]
      BY <2>1, <2>2, <3>1, <3>2 DEF Hop
    <3>4. b = [pc |-> "flight", kind |-> k.kind, key |-> k.key, url |-> k.url, cred |-> k.cred,
               seen |-> s, hops |-> n, attempt |-> k.attempt, got |-> k.got,
               due |-> 0, writes |-> k.writes, overlap |-> k.overlap, admitted |-> FALSE]
      <4>1. a = [pc |-> "flight", kind |-> k.kind, key |-> k.key, url |-> k.url, cred |-> k.cred,
                 seen |-> k.seen, hops |-> k.hops, attempt |-> k.attempt, got |-> k.got,
                 due |-> 0, writes |-> k.writes, overlap |-> k.overlap, admitted |-> FALSE]
        BY <2>2
      <4> QED
        BY <3>3, <4>1
    <3> QED
      BY <3>1, <3>4
  <2>4. b \in Request
    <3>1. "flight" \in OnItsWay \cup {"new", "done"} /\ k.seen \cup {u} \in SUBSET Urls
      BY <2>2 DEF OnItsWay, Request
    <3> QED
      BY <2>2, <2>3, <3>1 DEF Request
  <2>5. cred \in BOOLEAN /\ cred = (k.cred /\ OriginOf[u] = OriginOf[k.url])
    BY <2>1 DEF KeepsCredential
  <2>6. h.url = u /\ h.seen = k.seen \cup {u} /\ h.cred = cred /\ h.seen = b.seen
    BY <2>1, <2>3
  <2>7. /\ k.url \in Secure => u \in Secure
        /\ u \notin Denied /\ (OriginOf[u] # OriginOf[Base] => OriginOf[u] \in Allowed)
        /\ k.kind # "write"
    BY <1>4, <2>1 DEF Follows
  <2>8. Hops(h)
    BY <2>2, <2>5, <2>6, <2>7, HopSound
  <2>9. b.key \in Keys /\ b.due = 0 /\ b.writes <= 1 /\ b.kind # "write" /\ ~b.admitted
    BY <2>2, <2>3, <2>7
  <2>10. PICK r : /\ r = OnWire(b, u, cred)
                  /\ CallSound(r) /\ r.pc = "flight" /\ r.kind = b.kind /\ r.overlap = b.overlap
                  /\ r.admitted = b.admitted /\ r.got = b.got
    <3>1. cred \in BOOLEAN
      BY <2>5
    <3>2. h.url = u /\ h.cred = cred /\ h.seen = b.seen
      BY <2>6
    <3>3. b.kind = "write" => b.writes = 0
      BY <2>9
    <3> QED
      BY <2>4, <2>8, <2>9, <3>1, <3>2, <3>3, OnWireSound
  <2>11. b.kind = k.kind /\ b.overlap = k.overlap /\ b.admitted = FALSE /\ b.got = k.got
         /\ r.pc \notin Seen
    BY <2>3, <2>10 DEF Seen
  <2> QED
    BY <1>2, <1>4, <2>1, <2>10, <2>11 DEF Moves
<1> QED
  BY <1>3, <1>4 DEF Redirected

LEMMA MovesOver ==
  ASSUME CallsInv, NEW c \in Calls, call[c].pc = "body", call' = [call EXCEPT ![c] = Over(call[c])]
  PROVE  \E r : Moves(c, r) /\ r.pc = "done" /\ r.admitted = call[c].admitted
<1>1. PICK r : /\ r = Over(call[c]) /\ CallSound(r) /\ r.pc = "done" /\ r.got <= 0
               /\ r.admitted = call[c].admitted
  BY EndsQuietly
<1>2. r.pc \notin OnItsWay /\ r.pc \notin Seen
  BY <1>1 DEF OnItsWay, Seen
<1> QED
  BY <1>1, <1>2 DEF Moves

LEMMA MovesAdmitted ==
  ASSUME CallsInv, NEW c \in Calls, call[c].pc = "body",
         call' = [call EXCEPT ![c] = Over([call[c] EXCEPT !.admitted = TRUE])]
  PROVE  \E r : Moves(c, r) /\ r.pc = "done" /\ r.admitted
<1>1. PICK r : /\ r = Over([call[c] EXCEPT !.admitted = TRUE])
               /\ CallSound(r) /\ r.pc = "done" /\ r.got <= 0 /\ r.admitted
  BY Admits
<1>2. r.pc \notin OnItsWay /\ r.pc \notin Seen
  BY <1>1 DEF OnItsWay, Seen
<1> QED
  BY <1>1, <1>2 DEF Moves

\* A new request, and the ones it overlaps.
LEMMA DispatchCalls ==
  ASSUME CallsInv, NEW c \in Calls, NEW kind \in Kinds, NEW k \in Keys, Dispatch(c, kind, k)
  PROVE  /\ CallsInv'
         /\ LET n == call'[c]
            IN  /\ n.pc = "flight" /\ n.kind = kind /\ ~n.admitted /\ n.got <= 0
                /\ n.overlap = (kind # "write" /\ OpenWrites # {})
         /\ \A d \in Calls \ {c} : LET n == call'[d] o == call[d]
              IN  /\ n.pc = o.pc /\ n.kind = o.kind /\ n.admitted = o.admitted /\ n.got = o.got
                  /\ n.overlap = (o.overlap \/ (kind = "write" /\ InFlight(d)))
<1>1. PICK b, idle, over : /\ idle = Idle /\ over = (kind # "write" /\ OpenWrites # {})
                           /\ b = [idle EXCEPT !.kind = kind, !.key = k, !.overlap = over]
  OBVIOUS
<1>2. call' = [d \in Calls |-> IF d = c THEN OnWire(b, Base, TRUE)
                ELSE [call[d] EXCEPT !.overlap = call[d].overlap \/ (kind = "write" /\ InFlight(d))]]
  BY <1>1 DEF Dispatch
<1>3. over \in BOOLEAN /\ Base \in Urls
  BY <1>1, FetchConstants
<1>4. b = [pc |-> "new", kind |-> kind, key |-> k, url |-> Base, cred |-> TRUE,
           seen |-> {Base}, hops |-> 0, attempt |-> 1, got |-> -1, due |-> 0,
           writes |-> 0, overlap |-> over, admitted |-> FALSE]
  <2>1. idle = [pc |-> "new", kind |-> "get", key |-> "none", url |-> Base, cred |-> TRUE,
                seen |-> {Base}, hops |-> 0, attempt |-> 1, got |-> -1, due |-> 0,
                writes |-> 0, overlap |-> FALSE, admitted |-> FALSE]
    BY <1>1 DEF Idle
  <2>2. b = [idle EXCEPT !.kind = kind, !.key = k, !.overlap = over]
    BY <1>1
  <2> QED
    BY <2>1, <2>2
<1>5. b \in Request
  <2>1. "new" \in OnItsWay \cup {"new", "done"}
    OBVIOUS
  <2> QED
    BY <1>3, <1>4, <2>1 DEF Request
<1>6. PICK h : h = [b EXCEPT !.url = Base, !.cred = TRUE]
  OBVIOUS
<1>7. h.url = Base /\ h.seen = {Base} /\ h.cred = TRUE /\ h.seen = b.seen
  BY <1>4, <1>6
<1>8. Hops(h) /\ TRUE \in BOOLEAN
  BY <1>7, FetchConstants DEF Hops
<1>9. b.key \in Keys /\ b.due = 0 /\ b.writes = 0 /\ b.writes <= 1 /\ ~b.admitted
  BY <1>4
<1>10. PICK r : /\ r = OnWire(b, Base, TRUE) /\ CallSound(r) /\ r.pc = "flight"
                /\ r.kind = b.kind /\ r.overlap = b.overlap
                /\ r.admitted = b.admitted /\ r.got = b.got
  <2>1. b.kind = "write" => b.writes = 0
    BY <1>9
  <2> QED
    BY <1>3, <1>5, <1>7, <1>8, <1>9, <2>1, OnWireSound
<1>11. r.kind = kind /\ r.overlap = over /\ ~r.admitted /\ r.got <= 0
  <2>1. b.kind = kind /\ b.overlap = over
    BY <1>4
  <2>2. b.got <= 0
    BY <1>4
  <2> QED
    BY <1>9, <1>10, <2>1, <2>2, Zenon
<1>12. ASSUME NEW d \in Calls, d # c
       PROVE  /\ CallSound(call'[d])
              /\ LET n == call'[d] o == call[d]
                 IN  /\ n.pc = o.pc /\ n.kind = o.kind /\ n.admitted = o.admitted /\ n.got = o.got
                     /\ n.overlap = (o.overlap \/ (kind = "write" /\ InFlight(d)))
  <2>1. PICK x, o, n : /\ x = (call[d].overlap \/ (kind = "write" /\ InFlight(d)))
                       /\ o = call[d] /\ n = [o EXCEPT !.overlap = x]
    OBVIOUS
  <2>2. call'[d] = n
    BY <1>2, <1>12, <2>1
  <2>3. CallSound(o) /\ o \in Request /\ Hops(o) /\ Attempts(o) /\ x \in BOOLEAN
    BY <2>1 DEF CallsInv, CallSound, InFlight
  <2>4. n = [pc |-> o.pc, kind |-> o.kind, key |-> o.key, url |-> o.url, cred |-> o.cred,
             seen |-> o.seen, hops |-> o.hops, attempt |-> o.attempt, got |-> o.got,
             due |-> o.due, writes |-> o.writes, overlap |-> x, admitted |-> o.admitted]
    BY <2>1, <2>3 DEF Request
  <2>5. n \in Request
    BY <2>3, <2>4 DEF Request
  <2>6. Hops(n)
    BY <2>3, <2>4 DEF Hops
  <2>7. Attempts(n)
    BY <2>3, <2>4 DEF Attempts
  <2>8. n.pc = o.pc /\ n.kind = o.kind /\ n.admitted = o.admitted /\ n.got = o.got /\ n.overlap = x
    BY <2>4
  <2> QED
    BY <2>1, <2>2, <2>5, <2>6, <2>7, <2>8 DEF CallSound
<1>13. call'[c] = r /\ DOMAIN call' = Calls /\ \A d \in Calls : CallSound(call'[d])
  BY <1>2, <1>10, <1>12
<1>14. CallsInv'
  <2>1. \A d \in Calls : call'[d] \in Request
    BY <1>13 DEF CallSound
  <2>2. call' \in [Calls -> Request]
    BY <1>2, <2>1
  <2> QED
    BY <1>13, <2>2 DEF CallsInv, CallSound, Hops, Attempts
<1> QED
  BY <1>1, <1>10, <1>11, <1>12, <1>13, <1>14

-----------------------------------------------------------------------------
(* Freshness: what was read, and is not marked, was read while no write was *)
(* on its way, and after the last acknowledged one.                         *)

Versions ==
  /\ version \in Nat /\ acked \in Int /\ acked <= version
  /\ \A c \in Calls : call[c].got <= version

FreshCall(c) ==
  call[c].pc \in OnItsWay /\ call[c].kind # "write" /\ ~call[c].overlap =>
    OpenWrites = {} /\ (call[c].pc \in Seen => acked <= call[c].got)

FreshEntry(k) == ~cache[k].overlap => OpenWrites = {} /\ acked <= cache[k].ver

FreshInv ==
  /\ Versions
  /\ \A c \in Calls : FreshCall(c)
  /\ \A k \in Resident : FreshEntry(k)

\* Where an entry comes from: it was there, or the request c stores what it read.
From(c, k) ==
  \/ k \in Resident /\ cache'[k].ver = cache[k].ver /\ cache'[k].overlap = cache[k].overlap
  \/ /\ call[c].pc = "body" /\ call[c].kind # "write"
     /\ cache'[k].ver = call[c].got /\ cache'[k].overlap = call[c].overlap

LEMMA FreshMoves ==
  ASSUME CallsInv, FreshInv, NEW c \in Calls, NEW r, Moves(c, r),
         version' \in Nat, version <= version', acked' \in Int, acked' <= version',
         version' # version \/ acked' # acked => c \in OpenWrites,
         \A k \in Resident' : From(c, k)
  PROVE  FreshInv'
<1>1. call'[c] = r /\ (\A d \in Calls : d # c => call'[d] = call[d]) /\ CallsInv'
  BY CallsMove
<1>2. OpenWrites' \subseteq OpenWrites
  <2> SUFFICES ASSUME NEW d \in OpenWrites' PROVE d \in OpenWrites
    OBVIOUS
  <2>1. d \in Calls /\ call'[d].kind = "write" /\ call'[d].pc \in OnItsWay
    BY DEF OpenWrites, InFlight, OnItsWay
  <2>2. call[d].kind = "write" /\ call[d].pc \in OnItsWay
    BY <1>1, <2>1 DEF Moves
  <2> QED
    BY <2>1, <2>2 DEF OpenWrites, InFlight, OnItsWay
<1>3. Versions'
  <2>1. ASSUME NEW d \in Calls PROVE call'[d].got <= version'
    <3>1. call[d].got <= version /\ call[c].got <= version /\ version \in Nat
      BY DEF FreshInv, Versions
    <3>2. call[d].got \in Int /\ call[c].got \in Int /\ r.got \in Int
      BY DEF CallsInv, Moves, CallSound, Request
    <3>3. CASE d = c
      <4>1. r.got <= 0 \/ r.got = call[c].got \/ r.got = version'
        BY DEF Moves
      <4> QED
        BY <1>1, <3>1, <3>2, <3>3, <4>1
    <3> QED
      BY <1>1, <3>1, <3>2, <3>3
  <2> QED
    BY <2>1 DEF Versions
<1>4. ASSUME NEW d \in Calls, call'[d].pc \in OnItsWay, call'[d].kind # "write", ~call'[d].overlap
      PROVE  OpenWrites' = {} /\ (call'[d].pc \in Seen => acked' <= call'[d].got)
  <2>1. call[d].pc \in OnItsWay /\ call[d].kind # "write" /\ ~call[d].overlap
    BY <1>1, <1>4 DEF Moves
  <2>2. OpenWrites = {} /\ (call[d].pc \in Seen => acked <= call[d].got)
    BY <2>1 DEF FreshInv, FreshCall
  <2>3. version' = version /\ acked' = acked /\ acked <= version
    BY <2>2 DEF FreshInv, Versions
  <2>4. ASSUME call'[d].pc \in Seen PROVE acked <= call'[d].got
    BY <1>1, <2>2, <2>3, <2>4 DEF Moves
  <2> QED
    BY <1>2, <2>2, <2>3, <2>4
<1>5. ASSUME NEW k \in Resident', ~cache'[k].overlap PROVE OpenWrites' = {} /\ acked' <= cache'[k].ver
  <2>1. From(c, k)
    OBVIOUS
  <2>2. CASE k \in Resident /\ cache'[k].ver = cache[k].ver /\ cache'[k].overlap = cache[k].overlap
    <3>1. OpenWrites = {} /\ acked <= cache[k].ver
      BY <1>5, <2>2 DEF FreshInv, FreshEntry
    <3> QED
      BY <1>2, <2>2, <3>1
  <2>3. CASE /\ call[c].pc = "body" /\ call[c].kind # "write"
             /\ cache'[k].ver = call[c].got /\ cache'[k].overlap = call[c].overlap
    <3>1. call[c].pc \in OnItsWay /\ call[c].pc \in Seen /\ ~call[c].overlap
      BY <1>5, <2>3 DEF OnItsWay, Seen
    <3>2. OpenWrites = {} /\ acked <= call[c].got
      BY <2>3, <3>1 DEF FreshInv, FreshCall
    <3> QED
      BY <1>2, <2>3, <3>2
  <2> QED
    BY <2>1, <2>2, <2>3 DEF From
<1> QED
  BY <1>3, <1>4, <1>5 DEF FreshInv, FreshCall, FreshEntry

LEMMA FreshStays ==
  ASSUME FreshInv, UNCHANGED <<call, version, acked>>,
         \A k \in Resident' : k \in Resident /\ cache'[k].ver = cache[k].ver /\ cache'[k].overlap = cache[k].overlap
  PROVE  FreshInv'
<1>1. OpenWrites' = OpenWrites
  BY DEF OpenWrites, InFlight
<1> QED
  BY <1>1 DEF FreshInv, Versions, FreshCall, FreshEntry

LEMMA FreshDispatch ==
  ASSUME CallsInv, FreshInv, NEW c \in Calls, NEW kind \in Kinds, NEW k \in Keys, Dispatch(c, kind, k)
  PROVE  FreshInv'
<1>1. /\ call[c].pc = "new" /\ version' = version /\ acked' = acked
      /\ cache' = Without(Invalidated(kind, k))
  BY DEF Dispatch, Drop
<1>2. /\ call'[c].pc = "flight" /\ call'[c].kind = kind /\ call'[c].got <= 0
      /\ call'[c].overlap = (kind # "write" /\ OpenWrites # {})
  BY DispatchCalls
<1>3. \A d \in Calls \ {c} :
        /\ call'[d].pc = call[d].pc /\ call'[d].kind = call[d].kind /\ call'[d].got = call[d].got
        /\ call'[d].overlap = (call[d].overlap \/ (kind = "write" /\ InFlight(d)))
  BY DispatchCalls
<1>4. \A j \in Keys : cache'[j] = IF j \in Invalidated(kind, k) THEN NoEntry ELSE cache[j]
  BY <1>1 DEF Without
<1>5. Versions'
  <2>1. version \in Nat /\ \A d \in Calls : call[d].got <= version /\ call[d].got \in Int
    BY DEF FreshInv, Versions, CallsInv, Request
  <2>2. call'[c].got \in Int
    BY DispatchCalls DEF CallsInv, Request
  <2>3. \A d \in Calls : call'[d].got <= version
    BY <1>2, <1>3, <2>1, <2>2
  <2> QED
    BY <1>1, <2>3 DEF FreshInv, Versions
<1>6. CASE kind = "write"
  <2>1. Resident' = {}
    BY <1>4, <1>6 DEF Resident, Invalidated
  <2>2. \A d \in Calls : call'[d].pc \in OnItsWay /\ call'[d].kind # "write" => call'[d].overlap
    BY <1>2, <1>3, <1>6 DEF InFlight, OnItsWay
  <2> QED
    BY <1>5, <2>1, <2>2 DEF FreshInv, FreshCall
<1>7. CASE kind # "write"
  <2>1. OpenWrites' = OpenWrites
    <3>1. \A d \in Calls : d \in OpenWrites' <=> d \in OpenWrites
      BY <1>1, <1>2, <1>3, <1>7 DEF OpenWrites, InFlight
    <3> QED
      BY <3>1 DEF OpenWrites
  <2>2. ASSUME NEW d \in Calls PROVE FreshCall(d)'
    <3>1. CASE d = c
      <4>1. call'[c].pc \notin Seen
        BY <1>2 DEF Seen
      <4> QED
        BY <1>2, <1>7, <2>1, <3>1, <4>1 DEF FreshCall
    <3>2. CASE d # c
      <4>1. call'[d].overlap = call[d].overlap
        <5>1. call[d].overlap \in BOOLEAN
          BY DEF CallsInv, Request
        <5> QED
          BY <1>3, <1>7, <3>2, <5>1
      <4> QED
        BY <1>1, <1>3, <2>1, <3>2, <4>1 DEF FreshInv, FreshCall
    <3> QED
      BY <3>1, <3>2
  <2>3. ASSUME NEW j \in Resident' PROVE FreshEntry(j)'
    <3>1. j \in Resident /\ cache'[j] = cache[j]
      BY <1>4 DEF Resident
    <3> QED
      BY <1>1, <2>1, <3>1 DEF FreshInv, FreshEntry
  <2> QED
    BY <1>5, <2>2, <2>3 DEF FreshInv
<1> QED
  BY <1>6, <1>7

-----------------------------------------------------------------------------
(* The cache: its entries, their order, and one outcome for each admission. *)

Entry == [by : Calls \cup {"none"}, ver : Int, expired : BOOLEAN, overlap : BOOLEAN]

CacheTypes ==
  /\ cache \in [Keys -> Entry] /\ outcomes \in [Calls -> Nat]
  /\ \A k \in Resident : cache[k].by \in Calls

\* An entry is of an admitted request, which has no other.
EntriesOwned ==
  /\ \A k \in Resident : call[cache[k].by].admitted
  /\ \A j, k \in Resident : cache[j].by = cache[k].by => j = k

CacheInv == CacheTypes /\ EntriesOwned /\ OneOutcome /\ CacheBounded

LEMMA EndsOne ==
  ASSUME CacheInv, NEW gone \in SUBSET Resident, NEW c \in Calls
  PROVE  Ends(gone)[c] = IF call[c].admitted /\ \A k \in Keys \ gone : cache[k].by # c THEN 1 ELSE 0
<1> DEFINE own == {k \in gone : cache[k].by = c}
<1>1. Ends(gone)[c] = outcomes[c] + Cardinality(own)
  BY DEF Ends
<1>2. outcomes[c] = IF call[c].admitted /\ \A k \in Keys : cache[k].by # c THEN 1 ELSE 0
  BY DEF CacheInv, OneOutcome
<1>3. Resident \subseteq Keys
  BY DEF Resident
<1>4. CASE own = {}
  <2>1. Cardinality(own) = 0
    BY <1>4, FS_EmptySet
  <2>2. \A k \in gone : cache[k].by # c
    BY <1>4
  <2>3. (\A k \in Keys : cache[k].by # c) <=> (\A k \in Keys \ gone : cache[k].by # c)
    BY <2>2
  <2>4. outcomes[c] \in Nat
    BY DEF CacheInv, CacheTypes
  <2>5. Ends(gone)[c] = outcomes[c]
    BY <1>1, <2>1, <2>4
  <2> QED
    BY <1>2, <2>3, <2>5
<1>5. CASE own # {}
  <2>1. PICK k \in gone : cache[k].by = c
    BY <1>5
  <2>2. own = {k}
    BY <2>1 DEF CacheInv, EntriesOwned
  <2>3. Cardinality(own) = 1
    BY <2>2, FS_Singleton
  <2>4. call[c].admitted /\ k \in Keys
    BY <1>3, <2>1 DEF CacheInv, EntriesOwned
  <2>5. outcomes[c] = 0
    BY <1>2, <2>1, <2>4
  <2>6. \A j \in Keys \ gone : cache[j].by # c
    <3> SUFFICES ASSUME NEW j \in Keys \ gone, cache[j].by = c PROVE FALSE
      OBVIOUS
    <3>1. j \in Resident
      BY FetchConstants DEF Resident, NoEntry
    <3> QED
      BY <2>1, <3>1 DEF CacheInv, EntriesOwned
  <2> QED
    BY <1>1, <2>3, <2>4, <2>5, <2>6
<1> QED
  BY <1>4, <1>5

LEMMA EndsTypes ==
  ASSUME CacheInv, NEW gone \in SUBSET Resident
  PROVE  Ends(gone) \in [Calls -> Nat]
<1>1. \A c \in Calls : Ends(gone)[c] \in Nat
  BY EndsOne
<1>2. DOMAIN Ends(gone) = Calls /\ Ends(gone) = [c \in Calls |-> Ends(gone)[c]]
  BY DEF Ends
<1> QED
  BY <1>1, <1>2

LEMMA NoEntryOfNone == NoEntry \in Entry /\ NoEntry.by \notin Calls
BY FetchConstants DEF NoEntry, Entry

\* Entries are dropped: on expiry, invalidation and at the end of the session.
LEMMA DropsKeep ==
  ASSUME CacheInv, NEW keys, Drop(keys), \A c \in Calls : call'[c].admitted = call[c].admitted
  PROVE  /\ CacheInv'
         /\ \A k \in Resident' : k \in Resident /\ cache'[k] = cache[k]
<1>1. /\ cache' = Without(keys) /\ later' = Forgotten(later, keys)
      /\ outcomes' = Ends(keys \cap Resident)
  BY DEF Drop
<1>2. \A k \in Keys : cache'[k] = IF k \in keys THEN NoEntry ELSE cache[k]
  BY <1>1 DEF Without
<1>3. Resident' = Resident \ keys /\ Resident \subseteq Keys
  BY <1>2 DEF Resident
<1>4. \A k \in Resident' : k \in Resident /\ cache'[k] = cache[k]
  BY <1>2, <1>3
<1>5. CacheTypes'
  <2>1. cache' \in [Keys -> Entry]
    BY <1>1, <1>2, NoEntryOfNone DEF Without, CacheInv, CacheTypes
  <2>2. outcomes' \in [Calls -> Nat]
    BY <1>1, EndsTypes
  <2> QED
    BY <1>4, <2>1, <2>2 DEF CacheInv, CacheTypes
<1>6. EntriesOwned'
  BY <1>4 DEF CacheInv, CacheTypes, EntriesOwned
<1>7. ASSUME NEW c \in Calls
      PROVE  outcomes'[c] = IF call'[c].admitted /\ \A k \in Keys : cache'[k].by # c THEN 1 ELSE 0
  <2> DEFINE gone == keys \cap Resident
  <2>1. outcomes'[c] = IF call[c].admitted /\ \A k \in Keys \ gone : cache[k].by # c THEN 1 ELSE 0
    BY <1>1, EndsOne
  <2>2. (\A k \in Keys \ gone : cache[k].by # c) <=> \A k \in Keys : cache'[k].by # c
    <3>1. \A k \in Keys \ gone : cache'[k] = cache[k]
      BY <1>2 DEF Resident
    <3>2. \A k \in gone : cache'[k].by # c
      BY <1>2, NoEntryOfNone DEF Resident
    <3> QED
      BY <3>1, <3>2
  <2> QED
    BY <2>1, <2>2
<1>8. CacheBounded'
  <2>1. OrderOfUse(later', Resident')
    BY <1>1, <1>3, ForgottenOrdered DEF CacheInv, CacheBounded
  <2>2. Cardinality(Resident') <= MaxEntries
    <3>1. IsFiniteSet(Resident)
      BY <1>3, FetchConstants, FS_Subset
    <3>2. Cardinality(Resident') <= Cardinality(Resident) /\ Cardinality(Resident) \in Nat
          /\ Cardinality(Resident') \in Nat
      BY <1>3, <3>1, FS_Subset, FS_CardinalityType
    <3> QED
      BY <3>2, FetchConstants DEF CacheInv, CacheBounded
  <2> QED
    BY <2>1, <2>2 DEF CacheBounded, OrderOfUse
<1> QED
  BY <1>4, <1>5, <1>6, <1>7, <1>8 DEF CacheInv, OneOutcome

LEMMA CacheStays ==
  ASSUME CacheInv, UNCHANGED <<cache, outcomes>>, later' = later \/ (\E k \in Resident : later' = Used(k)),
         \A c \in Calls : call'[c].admitted = call[c].admitted
  PROVE  CacheInv'
<1>1. Resident' = Resident
  BY DEF Resident
<1>2. CacheTypes' /\ EntriesOwned'
  BY <1>1 DEF CacheInv, CacheTypes, EntriesOwned
<1>3. OneOutcome'
  BY DEF CacheInv, OneOutcome
<1>4. OrderOfUse(later', Resident)
  <2>1. CASE later' = later
    BY <2>1 DEF CacheInv, CacheBounded
  <2>2. ASSUME NEW k \in Resident, later' = Used(k) PROVE OrderOfUse(later', Resident)
    <3>1. k \in Keys /\ Resident \cup {k} = Resident
      BY DEF Resident
    <3> QED
      BY <2>2, <3>1, UsedOrdered DEF CacheInv, CacheBounded
  <2> QED
    BY <2>1, <2>2
<1>5. CacheBounded'
  BY <1>1, <1>4 DEF CacheInv, CacheBounded, OrderOfUse
<1> QED
  BY <1>2, <1>3, <1>5 DEF CacheInv

LEMMA ExpireKeeps ==
  ASSUME CacheInv, NEW k \in Keys, Expire(k)
  PROVE  /\ CacheInv'
         /\ \A j \in Resident' : /\ j \in Resident /\ cache'[j].ver = cache[j].ver
                                 /\ cache'[j].overlap = cache[j].overlap
<1>1. PICK old, new : old = cache[k] /\ new = [old EXCEPT !.expired = TRUE]
  OBVIOUS
<1>2. cache \in [Keys -> Entry] /\ old \in Entry /\ old # NoEntry /\ k \in Resident
  BY <1>1 DEF CacheInv, CacheTypes, Expire, Hit, Resident
<1>3. new \in Entry /\ new.by = old.by /\ new.ver = old.ver /\ new.overlap = old.overlap
  BY <1>1, <1>2 DEF Entry
<1>4. /\ cache' = [cache EXCEPT ![k] = new]
      /\ UNCHANGED <<call, later, outcomes>>
  BY <1>1 DEF Expire
<1>5. new # NoEntry
  <2>1. new.by \in Calls
    BY <1>1, <1>2, <1>3 DEF CacheInv, CacheTypes
  <2> QED
    BY <2>1, NoEntryOfNone
<1>6. cache'[k] = new /\ \A j \in Keys : j # k => cache'[j] = cache[j]
  BY <1>2, <1>4
<1>7. Resident' = Resident
  BY <1>2, <1>5, <1>6 DEF Resident
<1>8. \A j \in Keys : /\ cache'[j].by = cache[j].by /\ cache'[j].ver = cache[j].ver
                      /\ cache'[j].overlap = cache[j].overlap
  BY <1>1, <1>3, <1>6
<1>9. Resident \subseteq Keys
  BY DEF Resident
<1>10. CacheTypes'
  <2>1. cache' \in [Keys -> Entry]
    BY <1>2, <1>3, <1>4
  <2> QED
    BY <1>4, <1>7, <1>8, <1>9, <2>1 DEF CacheInv, CacheTypes
<1>11. EntriesOwned'
  BY <1>4, <1>7, <1>8, <1>9 DEF CacheInv, EntriesOwned
<1>12. OneOutcome'
  BY <1>4, <1>8 DEF CacheInv, OneOutcome
<1>13. CacheBounded'
  BY <1>4, <1>7 DEF CacheInv, CacheBounded, OrderOfUse
<1> QED
  BY <1>7, <1>8, <1>9, <1>10, <1>11, <1>12, <1>13 DEF CacheInv

LEMMA RejectionKeeps ==
  ASSUME CacheInv, NEW c \in Calls, ~call[c].admitted, call'[c].admitted,
         \A d \in Calls : d # c => call'[d].admitted = call[d].admitted,
         UNCHANGED <<cache, later>>, outcomes' = [outcomes EXCEPT ![c] = @ + 1]
  PROVE  CacheInv'
<1>1. Resident' = Resident
  BY DEF Resident
<1>2. outcomes[c] = 0
  BY DEF CacheInv, OneOutcome
<1>3. outcomes' \in [Calls -> Nat] /\ outcomes'[c] = 1 /\ \A d \in Calls : d # c => outcomes'[d] = outcomes[d]
  BY <1>2 DEF CacheInv, CacheTypes
<1>4. CacheTypes' /\ EntriesOwned'
  BY <1>1, <1>3 DEF CacheInv, CacheTypes, EntriesOwned
<1>5. \A k \in Keys : cache[k].by # c
  <2> SUFFICES ASSUME NEW k \in Keys, cache[k].by = c PROVE FALSE
    OBVIOUS
  <2>1. k \in Resident
    BY NoEntryOfNone DEF Resident
  <2> QED
    BY <2>1 DEF CacheInv, EntriesOwned
<1>6. OneOutcome'
  BY <1>3, <1>5 DEF CacheInv, OneOutcome
<1>7. CacheBounded'
  BY <1>1 DEF CacheInv, CacheBounded, OrderOfUse
<1> QED
  BY <1>4, <1>6, <1>7 DEF CacheInv

\* An admitted response takes the key's place and evicts what no longer fits.
LEMMA StoreKeeps ==
  ASSUME CacheInv, NEW c \in Calls, NEW k \in Keys, StoreEntry(c, k),
         call[c].got \in Int, call[c].overlap \in BOOLEAN, ~call[c].admitted, call'[c].admitted,
         \A d \in Calls : d # c => call'[d].admitted = call[d].admitted
  PROVE  /\ CacheInv'
         /\ cache'[k].ver = call[c].got /\ cache'[k].overlap = call[c].overlap
         /\ \A j \in Resident' : j # k => j \in Resident /\ cache'[j] = cache[j]
<1>1. PICK evicted, new, gone :
        /\ evicted = Victims(Used(k))
        /\ new = [by |-> c, ver |-> call[c].got, expired |-> FALSE, overlap |-> call[c].overlap]
        /\ gone = evicted \cup ({k} \cap Resident)
  OBVIOUS
<1>2. /\ cache' = [Without(evicted) EXCEPT ![k] = new]
      /\ later' = Forgotten(Used(k), evicted) /\ outcomes' = Ends(gone)
  BY <1>1 DEF StoreEntry
<1>3. Resident \subseteq Keys /\ IsFiniteSet(Resident) /\ Resident \cup {k} \in SUBSET Keys
  <2>1. Resident \subseteq Keys
    BY DEF Resident
  <2> QED
    BY <2>1, FetchConstants, FS_Subset
<1>4. OrderOfUse(Used(k), Resident \cup {k})
  BY UsedOrdered DEF CacheInv, CacheBounded
<1>5. Cardinality(Resident \cup {k}) <= MaxEntries + 1
  <2>1. Cardinality(Resident) \in Nat /\ Cardinality(Resident) <= MaxEntries /\ MaxEntries \in Nat
    BY <1>3, FS_CardinalityType, FetchConstants DEF CacheInv, CacheBounded
  <2>2. Cardinality(Resident \cup {k}) \in {Cardinality(Resident), Cardinality(Resident) + 1}
    BY <1>3, FS_AddElement
  <2> QED
    BY <2>1, <2>2
<1>6. evicted \subseteq Resident \cup {k} /\ Cardinality((Resident \cup {k}) \ evicted) <= MaxEntries
  BY <1>1, <1>3, <1>4, <1>5, EvictionBounds
<1>7. k \notin evicted
  <2>1. Used(k)[k] = {} /\ Cardinality({}) = 0
    BY FS_EmptySet DEF Used
  <2>2. MaxEntries \in Nat /\ 0 < MaxEntries
    BY FetchConstants
  <2> SUFFICES ASSUME k \in Victims(Used(k)) PROVE FALSE
    BY <1>1
  <2>3. Cardinality(Used(k)[k]) >= MaxEntries
    BY DEF Victims
  <2>4. Cardinality(Used(k)[k]) = 0
    BY <2>1
  <2> QED
    BY <2>2, <2>3, <2>4
<1>8. new \in Entry /\ new.by = c /\ new # NoEntry
  <2>1. new \in Entry /\ new.by = c
    BY <1>1 DEF Entry
  <2> QED
    BY <2>1, NoEntryOfNone
<1>9. /\ cache'[k] = new /\ DOMAIN cache' = Keys
      /\ \A j \in Keys : j # k => cache'[j] = IF j \in evicted THEN NoEntry ELSE cache[j]
  BY <1>2 DEF Without
<1>10. Resident' = (Resident \cup {k}) \ evicted
  <2>1. \A j \in Keys : j \in Resident' <=> j \in (Resident \cup {k}) \ evicted
    BY <1>7, <1>8, <1>9 DEF Resident
  <2> QED
    BY <1>3, <2>1 DEF Resident
<1>11. \A j \in Resident' : j # k => j \in Resident /\ cache'[j] = cache[j]
  BY <1>3, <1>9, <1>10
<1>12. \A j \in Keys : cache[j].by # c
  <2> SUFFICES ASSUME NEW j \in Keys, cache[j].by = c PROVE FALSE
    OBVIOUS
  <2>1. j \in Resident
    BY NoEntryOfNone DEF Resident
  <2> QED
    BY <2>1 DEF CacheInv, EntriesOwned
<1>13. gone \in SUBSET Resident
  BY <1>1, <1>6, <1>7
<1>14. CacheTypes'
  <2>1. \A j \in Keys : cache'[j] \in Entry
    BY <1>8, <1>9, NoEntryOfNone DEF CacheInv, CacheTypes
  <2>2. cache' \in [Keys -> Entry]
    BY <1>2, <2>1 DEF Without
  <2>3. outcomes' \in [Calls -> Nat]
    BY <1>2, <1>13, EndsTypes
  <2>4. \A j \in Resident' : cache'[j].by \in Calls
    BY <1>8, <1>9, <1>11 DEF CacheInv, CacheTypes
  <2> QED
    BY <2>2, <2>3, <2>4 DEF CacheTypes
<1>15. EntriesOwned'
  <2>1. ASSUME NEW j \in Resident' PROVE call'[cache'[j].by].admitted
    <3>1. CASE j = k
      BY <1>8, <1>9, <3>1
    <3>2. CASE j # k
      <4>1. j \in Resident /\ cache'[j] = cache[j] /\ cache[j].by \in Calls /\ cache[j].by # c
        BY <1>3, <1>11, <1>12, <3>2 DEF CacheInv, CacheTypes
      <4> QED
        BY <4>1 DEF CacheInv, EntriesOwned
    <3> QED
      BY <3>1, <3>2
  <2>2. ASSUME NEW i \in Resident', NEW j \in Resident', cache'[i].by = cache'[j].by PROVE i = j
    <3>1. \A x \in Resident' : x # k => cache'[x].by # c
      BY <1>3, <1>11, <1>12
    <3>2. CASE i # k /\ j # k
      <4>1. i \in Resident /\ j \in Resident /\ cache[i].by = cache[j].by
        BY <1>11, <2>2, <3>2
      <4> QED
        BY <4>1 DEF CacheInv, EntriesOwned
    <3> QED
      BY <1>8, <1>9, <2>2, <3>1, <3>2
  <2> QED
    BY <2>1, <2>2 DEF EntriesOwned
<1>16. ASSUME NEW d \in Calls
       PROVE  outcomes'[d] = IF call'[d].admitted /\ \A j \in Keys : cache'[j].by # d THEN 1 ELSE 0
  <2>1. outcomes'[d] = IF call[d].admitted /\ \A j \in Keys \ gone : cache[j].by # d THEN 1 ELSE 0
    BY <1>2, <1>13, EndsOne
  <2>2. CASE d = c
    <3>1. outcomes'[d] = 0
      BY <2>1, <2>2
    <3>2. cache'[k].by = d
      BY <1>8, <1>9, <2>2
    <3> QED
      BY <3>1, <3>2
  <2>3. CASE d # c
    <3>1. \A j \in gone : cache'[j].by # d
      BY <1>1, <1>3, <1>8, <1>9, <1>13, <2>3, NoEntryOfNone
    <3>2. \A j \in Keys \ gone : cache'[j].by = d <=> cache[j].by = d
      <4>1. ASSUME NEW j \in Keys \ gone PROVE cache'[j].by = d <=> cache[j].by = d
        <5>1. CASE j = k
          <6>1. cache[j] = NoEntry
            BY <1>1, <5>1 DEF Resident
          <6> QED
            BY <1>8, <1>9, <2>3, <5>1, <6>1, NoEntryOfNone
        <5>2. CASE j # k
          BY <1>1, <1>9, <5>2
        <5> QED
          BY <5>1, <5>2
      <4> QED
        BY <4>1
    <3>3. (\A j \in Keys \ gone : cache[j].by # d) <=> \A j \in Keys : cache'[j].by # d
      BY <1>3, <1>13, <3>1, <3>2
    <3> QED
      BY <2>1, <2>3, <3>3
  <2> QED
    BY <2>2, <2>3
<1>17. CacheBounded'
  <2>1. OrderOfUse(later', Resident')
    BY <1>2, <1>3, <1>4, <1>10, ForgottenOrdered
  <2> QED
    BY <1>6, <1>10, <2>1 DEF CacheBounded, OrderOfUse
<1>18. cache'[k].ver = call[c].got /\ cache'[k].overlap = call[c].overlap
  BY <1>1, <1>9
<1> QED
  BY <1>11, <1>14, <1>15, <1>16, <1>17, <1>18 DEF CacheInv, OneOutcome

-----------------------------------------------------------------------------
(* Every step keeps the three parts.                                        *)

FetchInv == CallsInv /\ FreshInv /\ CacheInv

LEMMA FetchInitial == FetchInit => FetchInv
<1> SUFFICES ASSUME FetchInit PROVE FetchInv
  OBVIOUS
<1>1. Resident = {} /\ Cardinality({}) = 0
  BY FS_EmptySet DEF FetchInit, Resident
<1>2. CallsInv
  <2>1. Idle \in Request /\ call = [c \in Calls |-> Idle]
    BY IdleSound DEF CallSound, FetchInit
  <2> QED
    BY <2>1, IdleSound DEF CallsInv
<1>3. FreshInv
  <2>1. version = 0 /\ acked = 0 /\ \A c \in Calls : call[c] = Idle
    BY DEF FetchInit
  <2>2. Idle.got = -1 /\ Idle.pc \notin OnItsWay
    BY DEF Idle, OnItsWay
  <2>3. Versions
    BY <2>1, <2>2 DEF Versions
  <2> QED
    BY <1>1, <2>1, <2>2, <2>3 DEF FreshInv, FreshCall
<1>4. CacheInv
  <2>1. CacheTypes
    BY <1>1, NoEntryOfNone DEF CacheTypes, FetchInit
  <2>2. EntriesOwned
    BY <1>1 DEF EntriesOwned
  <2>3. OneOutcome
    <3>1. \A c \in Calls : outcomes[c] = 0 /\ call[c] = Idle
      BY DEF FetchInit
    <3>2. ~Idle.admitted
      BY DEF Idle
    <3> QED
      BY <3>1, <3>2 DEF OneOutcome
  <2>4. CacheBounded
    <3>1. OrderOfUse(later, {})
      BY DEF OrderOfUse, FetchInit
    <3> QED
      BY <1>1, <3>1, FetchConstants DEF CacheBounded
  <2> QED
    BY <2>1, <2>2, <2>3, <2>4 DEF CacheInv
<1> QED
  BY <1>2, <1>3, <1>4 DEF FetchInv

\* A step of one request that leaves the entries alone.
LEMMA RequestStep ==
  ASSUME FetchInv, NEW c \in Calls, NEW r, Moves(c, r), r.admitted = call[c].admitted,
         version' \in Nat, version <= version', acked' \in Int, acked' <= version',
         version' # version \/ acked' # acked => c \in OpenWrites,
         UNCHANGED <<cache, outcomes>>, later' = later \/ (\E k \in Resident : later' = Used(k))
  PROVE  FetchInv'
<1>1. CallsInv' /\ call'[c] = r /\ \A d \in Calls : d # c => call'[d] = call[d]
  BY CallsMove DEF FetchInv
<1>2. FreshInv'
  <2>1. \A k \in Resident' : From(c, k)
    BY DEF Resident, From
  <2> QED
    BY <2>1, FreshMoves DEF FetchInv
<1>3. CacheInv'
  <2>1. \A d \in Calls : call'[d].admitted = call[d].admitted
    BY <1>1
  <2> QED
    BY <2>1, CacheStays DEF FetchInv
<1> QED
  BY <1>1, <1>2, <1>3 DEF FetchInv

LEMMA VersionTypes ==
  ASSUME FetchInv
  PROVE  version \in Nat /\ acked \in Int /\ acked <= version /\ version <= version
BY DEF FetchInv, FreshInv, Versions

LEMMA EndStep ==
  ASSUME FetchInv, NEW c \in Calls, Refused(c) \/ (\E k \in Keys : ServeHit(c, k))
  PROVE  FetchInv'
<1>1. PICK r : Moves(c, r) /\ r.admitted = call[c].admitted
  BY MovesEnd DEF FetchInv
<1>2. UNCHANGED <<cache, outcomes, version, acked>>
      /\ (later' = later \/ (\E k \in Resident : later' = Used(k)))
  BY DEF Refused, ServeHit, Hit, Resident
<1> QED
  BY <1>1, <1>2, VersionTypes, RequestStep

LEMMA UpstreamStep ==
  ASSUME FetchInv, NEW c \in Calls, Upstream(c)
  PROVE  FetchInv'
<1>1. PICK r : Moves(c, r) /\ r.admitted = call[c].admitted
  BY VersionTypes, MovesUpstream DEF FetchInv
<1>2. UNCHANGED <<cache, outcomes, later, acked>>
  BY DEF Upstream
<1>3. version' = version \/ (version' = version + 1 /\ c \in OpenWrites)
  BY DEF Upstream, OpenWrites, InFlight
<1>4. version' \in Nat /\ version <= version' /\ acked' \in Int /\ acked' <= version'
  BY <1>2, <1>3, VersionTypes
<1> QED
  BY <1>1, <1>2, <1>3, <1>4, RequestStep

LEMMA AnswerStep ==
  ASSUME FetchInv, NEW c \in Calls,
         SendFails(c) \/ Success(c) \/ ErrorStatus(c) \/ Backoff(c) \/ (\E u \in Urls : Redirected(c, u))
  PROVE  FetchInv'
<1>1. PICK r : Moves(c, r) /\ r.admitted = call[c].admitted
  BY MovesReported, MovesBackoff, MovesRedirected DEF FetchInv
<1>2. UNCHANGED <<cache, outcomes, later, acked, version>>
  BY DEF SendFails, Success, ErrorStatus, Backoff, Redirected
<1> QED
  BY <1>1, <1>2, VersionTypes, RequestStep

LEMMA BodyStep ==
  ASSUME FetchInv, NEW c \in Calls, Body(c)
  PROVE  FetchInv'
<1>1. call[c].pc = "body" /\ call[c] \in Request /\ call[c].key \in Keys /\ ~call[c].admitted
  BY DEF Body, FetchInv, CallsInv, CallSound, Attempts, OnItsWay
<1>2. call[c].got \in Int /\ call[c].overlap \in BOOLEAN /\ call[c].got <= version
  BY <1>1 DEF Request, FetchInv, FreshInv, Versions
<1>3. /\ version' = version
      /\ acked' = acked \/ (acked' = call[c].got /\ call[c].kind = "write")
  BY DEF Body
<1>4. version' \in Nat /\ version <= version' /\ acked' \in Int /\ acked' <= version'
  BY <1>2, <1>3, VersionTypes
<1>5. version' # version \/ acked' # acked => c \in OpenWrites
  BY <1>1, <1>3 DEF OpenWrites, InFlight
<1>6. CASE Finish(c) /\ UNCHANGED <<cache, later, outcomes>>
  <2>1. PICK r : Moves(c, r) /\ r.admitted = call[c].admitted
    BY <1>1, <1>6, MovesOver DEF FetchInv, Finish
  <2> QED
    BY <1>4, <1>5, <1>6, <2>1, RequestStep
<1>7. CASE /\ call[c].kind = "get" /\ StoreEntry(c, call[c].key)
           /\ call' = [call EXCEPT ![c] = Over([call[c] EXCEPT !.admitted = TRUE])]
  <2>1. PICK r : Moves(c, r) /\ r.admitted
    BY <1>1, <1>7, MovesAdmitted DEF FetchInv
  <2>2. CallsInv' /\ call'[c] = r /\ \A d \in Calls : d # c => call'[d] = call[d]
    BY <2>1, CallsMove DEF FetchInv
  <2>3. PICK k \in Keys : k = call[c].key
    BY <1>1
  <2>4. /\ CacheInv'
        /\ cache'[k].ver = call[c].got /\ cache'[k].overlap = call[c].overlap
        /\ \A j \in Resident' : j # k => j \in Resident /\ cache'[j] = cache[j]
    <3>1. call'[c].admitted /\ \A d \in Calls : d # c => call'[d].admitted = call[d].admitted
      BY <2>1, <2>2
    <3> QED
      BY <1>1, <1>2, <1>7, <2>3, <3>1, StoreKeeps DEF FetchInv
  <2>5. \A j \in Resident' : From(c, j)
    BY <1>1, <1>7, <2>4 DEF From
  <2>6. FreshInv'
    BY <1>4, <1>5, <2>1, <2>5, FreshMoves DEF FetchInv
  <2> QED
    BY <2>2, <2>4, <2>6 DEF FetchInv
<1> QED
  BY <1>6, <1>7 DEF Body

LEMMA RejectedStep ==
  ASSUME FetchInv, NEW c \in Calls, Rejected(c)
  PROVE  FetchInv'
<1>1. call[c].pc = "body" /\ ~call[c].admitted
  BY DEF Rejected, FetchInv, CallsInv, CallSound, Attempts
<1>2. UNCHANGED <<cache, later, version, acked>> /\ outcomes' = [outcomes EXCEPT ![c] = @ + 1]
  BY DEF Rejected
<1>3. PICK r : Moves(c, r) /\ r.admitted
  BY <1>1, MovesAdmitted DEF FetchInv, Rejected
<1>4. CallsInv' /\ call'[c] = r /\ \A d \in Calls : d # c => call'[d] = call[d]
  BY <1>3, CallsMove DEF FetchInv
<1>5. CacheInv'
  BY <1>1, <1>2, <1>3, <1>4, RejectionKeeps DEF FetchInv
<1>6. FreshInv'
  <2>1. \A k \in Resident' : From(c, k)
    BY <1>2 DEF Resident, From
  <2> QED
    BY <1>2, <1>3, <2>1, VersionTypes, FreshMoves DEF FetchInv
<1> QED
  BY <1>4, <1>5, <1>6 DEF FetchInv

LEMMA DispatchStep ==
  ASSUME FetchInv, NEW c \in Calls, NEW kind \in Kinds, NEW k \in Keys, Dispatch(c, kind, k)
  PROVE  FetchInv'
<1>1. CallsInv' /\ ~call'[c].admitted
      /\ \A d \in Calls \ {c} : call'[d].admitted = call[d].admitted
  BY DispatchCalls DEF FetchInv
<1>2. call'[c].admitted = call[c].admitted
  <2>1. ~call[c].admitted /\ call[c].admitted \in BOOLEAN
    BY DEF Dispatch, FetchInv, CallsInv, CallSound, Attempts, Request
  <2>2. call'[c].admitted \in BOOLEAN
    BY <1>1 DEF CallsInv, Request
  <2> QED
    BY <1>1, <2>1, <2>2
<1>3. CacheInv'
  <2>1. Drop(Invalidated(kind, k))
    BY DEF Dispatch
  <2> QED
    BY <1>1, <1>2, <2>1, DropsKeep DEF FetchInv
<1>4. FreshInv'
  BY FreshDispatch DEF FetchInv
<1> QED
  BY <1>1, <1>3, <1>4 DEF FetchInv

LEMMA SweepStep ==
  ASSUME FetchInv, Maintain \/ (\E k \in Keys : Expire(k))
  PROVE  FetchInv'
<1>1. UNCHANGED <<call, version, acked>>
  BY DEF Maintain, Expire
<1>2. CallsInv'
  BY <1>1 DEF FetchInv, CallsInv, CallSound, Hops, Attempts
<1>3. CacheInv' /\ \A k \in Resident' : /\ k \in Resident /\ cache'[k].ver = cache[k].ver
                                        /\ cache'[k].overlap = cache[k].overlap
  <2>1. CASE \E k \in Keys : Expire(k)
    BY <2>1, ExpireKeeps DEF FetchInv
  <2>2. CASE Maintain
    <3>1. PICK keys : Drop(keys)
      BY <2>2 DEF Maintain
    <3> QED
      BY <1>1, <3>1, DropsKeep DEF FetchInv
  <2> QED
    BY <2>1, <2>2
<1>4. FreshInv'
  BY <1>1, <1>3, FreshStays DEF FetchInv
<1> QED
  BY <1>2, <1>3, <1>4 DEF FetchInv

LEMMA FetchUnchanged ==
  ASSUME FetchInv, UNCHANGED fetchVars
  PROVE  FetchInv'
<1>1. UNCHANGED <<call, cache, later, version, acked, outcomes>> /\ Resident' = Resident
      /\ OpenWrites' = OpenWrites
  BY DEF fetchVars, Resident, OpenWrites, InFlight
<1>2. CallsInv'
  BY <1>1 DEF FetchInv, CallsInv, CallSound, Hops, Attempts
<1>3. FreshInv'
  BY <1>1, FreshStays DEF FetchInv
<1>4. CacheInv'
  BY <1>1, CacheStays DEF FetchInv
<1> QED
  BY <1>2, <1>3, <1>4 DEF FetchInv

LEMMA FetchStep == FetchInv /\ [FetchNext]_fetchVars => FetchInv'
<1> SUFFICES ASSUME FetchInv, [FetchNext]_fetchVars PROVE FetchInv'
  OBVIOUS
<1>1. CASE UNCHANGED fetchVars
  BY <1>1, FetchUnchanged
<1>2. CASE Maintain \/ (\E k \in Keys : Expire(k))
  BY <1>2, SweepStep
<1>3. ASSUME NEW c \in Calls, \E k \in Keys : ServeHit(c, k) \/ (\E kind \in Kinds : Dispatch(c, kind, k))
      PROVE  FetchInv'
  BY <1>3, EndStep, DispatchStep
<1>4. ASSUME NEW c \in Calls, \/ Refused(c) \/ Upstream(c) \/ SendFails(c) \/ Success(c) \/ ErrorStatus(c)
                              \/ Backoff(c) \/ Body(c) \/ Rejected(c) \/ \E u \in Urls : Redirected(c, u)
      PROVE  FetchInv'
  BY <1>4, EndStep, UpstreamStep, AnswerStep, BodyStep, RejectedStep
<1> QED
  BY <1>1, <1>2, <1>3, <1>4 DEF FetchNext

LEMMA FetchInvFaithful == FetchInv => FetchFaithful
<1> SUFFICES ASSUME FetchInv PROVE FetchFaithful
  OBVIOUS
<1>1. HopsContained
  BY DEF FetchInv, CallsInv, CallSound, Hops, HopsContained
<1>2. AttemptsReported
  BY DEF FetchInv, CallsInv, CallSound, Attempts, AttemptsReported
<1>3. StaleOnlyIfOverlapped
  <2> SUFFICES ASSUME NEW k \in Resident, cache[k].ver < acked, ~cache[k].overlap PROVE FALSE
    BY DEF StaleOnlyIfOverlapped
  <2>1. acked <= cache[k].ver
    BY DEF FetchInv, FreshInv, FreshEntry
  <2>2. acked \in Int /\ cache[k].ver \in Int
    <3>1. k \in Keys
      BY DEF Resident
    <3> QED
      BY <3>1 DEF FetchInv, FreshInv, Versions, CacheInv, CacheTypes, Entry
  <2> QED
    BY <2>1, <2>2
<1> QED
  BY <1>1, <1>2, <1>3 DEF FetchInv, CacheInv, CacheCoherent, FetchFaithful

\* For any number of calls, keys and urls, whatever the interleaving of reads,
\* writes, redirects, retries, expiry and eviction (fetch, follow,
\* retry_stream_attempt, ResponseCache): the cache holds nothing older than an
\* acknowledged write unless the two overlapped, never more than its limit, and
\* ends each admission once; no hop carries the credential off the vendor's
\* origin, leaves https or reaches a url that is refused; and every attempt is
\* reported, a write being sent at most once.
THEOREM FetchesFaithful == FetchSpec => []FetchFaithful
<1>1. FetchInit => FetchInv
  BY FetchInitial
<1>2. FetchInv /\ [FetchNext]_fetchVars => FetchInv'
  BY FetchStep
<1>3. FetchInv => FetchFaithful
  BY FetchInvFaithful
<1> QED
  BY <1>1, <1>2, <1>3, PTL DEF FetchSpec

-----------------------------------------------------------------------------
(* Artifacts: what keeps a file under a read.                               *)

Past == {"committed", "mismatch", "mwait", "mwrite", "mfull", "mclean", "mfailed", "finished"}

PinTypes ==
  /\ DOMAIN pc = Files /\ DOMAIN op = Ops /\ DOMAIN reg = Files /\ pins \in [Files -> Nat]

\* Until the session is over, what is renamed or readable is at its final path,
\* unless somebody else has removed it.
FilesThere ==
  shutdown # "over" => \A f \in Files : /\ pc[f] = "renamed" => f \in final
                                        /\ reg[f] = "readable" => f \in final \cup external

\* A pin is of an entry, and of a file.
PinsThere == \A f \in Files : pins[f] > 0 => reg[f] # "no" /\ f \in final \cup external

\* An entry was registered by its writer, which does so once.
EntriesPast == \A f \in Files : reg[f] # "no" => pc[f] \in Past

\* What is being reclaimed has no pin and can get none.
ReclaimQuiet ==
  \/ busy = Nothing
  \/ \E f \in Files : /\ busy \in {[file |-> f, step |-> "delete"], [file |-> f, step |-> "unregister"]}
                      /\ reg[f] # "readable" /\ pins[f] = 0 /\ pc[f] \in Past

\* An operation has drained its writers before it cleans up or returns.
WritersDrained == \A f \in Files : ~Active(Files2Op[f]) => Ended(f)

PinInv == PinTypes /\ FilesThere /\ PinsThere /\ EntriesPast /\ ReclaimQuiet /\ WritersDrained

LEMMA OpsOfFiles == ASSUME NEW f \in Files PROVE Files2Op[f] \in Ops
<1>1. Data(f) \in Leases
  BY ArtifactConstants DEF Data
<1> QED
  BY <1>1, ArtifactConstants, QuotaConstants

LEMMA PinInitial == Init => PinInv
<1> SUFFICES ASSUME Init PROVE PinInv
  OBVIOUS
<1>1. PinTypes
  BY DEF Init, PinTypes
<1>2. \A f \in Files : pc[f] = "none" /\ reg[f] = "no" /\ pins[f] = 0
  BY DEF Init
<1>3. FilesThere /\ PinsThere /\ EntriesPast
  BY <1>2 DEF FilesThere, PinsThere, EntriesPast
<1>4. ReclaimQuiet
  BY DEF Init, ReclaimQuiet
<1>5. WritersDrained
  BY <1>2 DEF WritersDrained, Ended
<1> QED
  BY <1>1, <1>3, <1>4, <1>5 DEF PinInv

\* A writer or a manifest takes a step of its own.
LEMMA WriterMoves ==
  ASSUME PinInv, NEW f \in Files, NEW step, pc' = [pc EXCEPT ![f] = step],
         Active(Files2Op[f]), pc[f] \notin Past \/ step \in Past,
         UNCHANGED <<op, reg, pins, busy, shutdown, external>>, final \subseteq final',
         step = "renamed" => f \in final'
  PROVE  PinInv'
<1>1. /\ DOMAIN pc' = Files /\ pc'[f] = step /\ \A g \in Files : g # f => pc'[g] = pc[g]
      /\ DOMAIN op = Ops /\ DOMAIN reg = Files /\ pins \in [Files -> Nat]
  BY DEF PinInv, PinTypes
<1>2. PinTypes'
  BY <1>1 DEF PinTypes
<1>3. FilesThere'
  BY <1>1 DEF PinInv, FilesThere
<1>4. PinsThere'
  BY DEF PinInv, PinsThere
<1>5. \A g \in Files : pc[g] \in Past => pc'[g] \in Past
  BY <1>1
<1>6. EntriesPast'
  BY <1>5 DEF PinInv, EntriesPast
<1>7. ReclaimQuiet'
  BY <1>5 DEF PinInv, ReclaimQuiet
<1>8. WritersDrained'
  BY <1>1 DEF PinInv, WritersDrained, Active, Ended
<1> QED
  BY <1>2, <1>3, <1>4, <1>6, <1>7, <1>8 DEF PinInv

LEMMA WritersActive ==
  ASSUME PinInv, NEW f \in Files, ~Ended(f)
  PROVE  Active(Files2Op[f])
BY DEF PinInv, WritersDrained

LEMMA WriterSteps ==
  ASSUME PinInv, NEW f \in Files,
         \/ Begin(f) \/ WriteChunk(f) \/ Granted(f) \/ GiveUp(f) \/ Write(f) \/ Commit(f)
         \/ Rename(f) \/ CutRename(f) \/ CutWriter(f)
  PROVE  PinInv'
<1>1. /\ pc[f] \notin Past
      /\ Active(Files2Op[f])
  <2>1. CASE Begin(f)
    BY <2>1 DEF Begin, At, Past, Active
  <2>2. CASE ~Begin(f)
    <3>1. pc[f] \in {"open", "wait", "write", "rename", "renamed"}
      BY <2>2 DEF WriteChunk, Granted, GiveUp, Write, Commit, Rename, CutRename, CutWriter, At
    <3> QED
      BY <3>1, WritersActive DEF Ended, Past
  <2> QED
    BY <2>1, <2>2
<1>2. UNCHANGED <<op, reg, pins, busy, shutdown, external>>
  BY DEF Begin, WriteChunk, Granted, GiveUp, Write, Commit, Rename, CutRename, CutWriter, Fail,
         registry, reclaim, history
<1>3. PICK step : /\ pc' = [pc EXCEPT ![f] = step]
                  /\ final \subseteq final' /\ (step = "renamed" => f \in final')
  <2>1. ASSUME NEW quota, Fail(f, quota)
        PROVE  pc' = [pc EXCEPT ![f] = "dropped"] /\ final' = final
    BY <2>1 DEF Fail, DropWriter, Goto
  <2>2. CASE Begin(f)
    <3>1. pc' = [pc EXCEPT ![f] = "open"] /\ final' = final
      BY <2>2 DEF Begin, Goto
    <3>2. "open" # "renamed"
      OBVIOUS
    <3> QED
      BY <3>1, <3>2, Zenon
  <2>3. CASE WriteChunk(f)
    BY <2>1, <2>3 DEF WriteChunk, Goto, disk
  <2>4. CASE Granted(f)
    <3>1. pc' = [pc EXCEPT ![f] = "write"] /\ final' = final
      BY <2>4 DEF Granted, Goto, disk
    <3>2. "write" # "renamed"
      OBVIOUS
    <3> QED
      BY <3>1, <3>2, Zenon
  <2>5. CASE GiveUp(f)
    BY <2>1, <2>5 DEF GiveUp
  <2>6. CASE Write(f)
    BY <2>1, <2>6 DEF Write, Goto, disk
  <2>7. CASE Commit(f)
    BY <2>1, <2>7 DEF Commit, Goto, disk
  <2>8. CASE Rename(f)
    BY <2>1, <2>8 DEF Rename, Goto
  <2>9. CASE CutRename(f)
    BY <2>9 DEF CutRename, Goto
  <2>10. CASE CutWriter(f)
    BY <2>1, <2>10 DEF CutWriter
  <2> QED
    BY <2>2, <2>3, <2>4, <2>5, <2>6, <2>7, <2>8, <2>9, <2>10
<1> QED
  BY <1>1, <1>2, <1>3, WriterMoves

LEMMA ManifestSteps ==
  ASSUME PinInv, NEW f \in Files, ManifestStep(f)
  PROVE  PinInv'
<1>1. Active(Files2Op[f])
  <2>1. CASE Manifest(f) \/ RetainDownload(f)
    BY <2>1 DEF Manifest, RetainDownload
  <2>2. CASE ManifestWaited(f) \/ ManifestWrite(f) \/ Attach(f) \/ ManifestClean(f)
    <3>1. pc[f] \in {"mwait", "mwrite", "mfull", "mclean"}
      BY <2>2 DEF ManifestWaited, ManifestWrite, Attach, ManifestClean, At
    <3> QED
      BY <3>1, WritersActive DEF Ended
  <2> QED
    BY <2>1, <2>2 DEF ManifestStep
<1>2. UNCHANGED <<op, reg, pins, busy, shutdown, external, final>>
  BY DEF ManifestStep, Manifest, RetainDownload, ManifestWaited, ManifestWrite, Attach, ManifestClean,
         disk, registry, reclaim, history
<1>3. PICK step \in Past : pc' = [pc EXCEPT ![f] = step]
  <2>1. CASE Manifest(f)
    BY <2>1 DEF Manifest, Goto, Past
  <2>2. CASE ManifestWaited(f)
    BY <2>2 DEF ManifestWaited, Goto, Past
  <2>3. CASE ManifestWrite(f)
    BY <2>3 DEF ManifestWrite, Goto, Past
  <2>4. CASE Attach(f)
    BY <2>4 DEF Attach, Goto, Past
  <2>5. CASE ManifestClean(f)
    BY <2>5 DEF ManifestClean, Goto, Past
  <2>6. CASE RetainDownload(f)
    BY <2>6 DEF RetainDownload, Goto, Past
  <2> QED
    BY <2>1, <2>2, <2>3, <2>4, <2>5, <2>6 DEF ManifestStep
<1>4. step # "renamed"
  BY <1>3 DEF Past
<1> QED
  BY <1>1, <1>2, <1>3, <1>4, WriterMoves

LEMMA RegisterStep ==
  ASSUME PinInv, NEW f \in Files, NEW matches \in BOOLEAN, Register(f, matches)
  PROVE  PinInv'
<1>1. PICK step, mark : /\ step = IF matches THEN "committed" ELSE "mismatch"
                        /\ mark = IF matches THEN "readable" ELSE "pending"
  OBVIOUS
<1>2. /\ pc[f] = "renamed" /\ pc' = [pc EXCEPT ![f] = step] /\ reg' = [reg EXCEPT ![f] = mark]
      /\ UNCHANGED <<op, pins, busy, shutdown, external, final>>
  BY <1>1 DEF Register, At, Goto, disk, history
<1>3. step \in Past /\ step # "renamed" /\ mark # "no" /\ pc[f] \notin Past
  BY <1>1, <1>2 DEF Past
<1>4. /\ DOMAIN pc' = Files /\ pc'[f] = step /\ \A g \in Files : g # f => pc'[g] = pc[g]
      /\ DOMAIN reg' = Files /\ reg'[f] = mark /\ \A g \in Files : g # f => reg'[g] = reg[g]
  BY <1>2 DEF PinInv, PinTypes
<1>5. PinTypes'
  BY <1>2, <1>4 DEF PinInv, PinTypes
<1>6. FilesThere'
  BY <1>2, <1>3, <1>4 DEF PinInv, FilesThere
<1>7. PinsThere'
  BY <1>2, <1>3, <1>4 DEF PinInv, PinsThere
<1>8. EntriesPast'
  BY <1>3, <1>4 DEF PinInv, EntriesPast
<1>9. ReclaimQuiet'
  <2>1. CASE busy = Nothing
    BY <1>2, <2>1 DEF ReclaimQuiet
  <2>2. CASE busy # Nothing
    <3>1. PICK g \in Files : /\ busy \in {[file |-> g, step |-> "delete"], [file |-> g, step |-> "unregister"]}
                             /\ reg[g] # "readable" /\ pins[g] = 0 /\ pc[g] \in Past
      BY <2>2 DEF PinInv, ReclaimQuiet
    <3>2. g # f
      BY <1>3, <3>1
    <3>3. reg'[g] = reg[g] /\ pins'[g] = pins[g] /\ pc'[g] = pc[g] /\ busy' = busy
      BY <1>2, <1>4, <3>2
    <3> QED
      BY <3>1, <3>3 DEF ReclaimQuiet
  <2> QED
    BY <2>1, <2>2
<1>10. WritersDrained'
  <2>1. step \in {"none", "dropped", "committed", "mismatch", "mfailed", "finished"}
    BY <1>1
  <2> QED
    BY <1>2, <1>4, <2>1 DEF PinInv, WritersDrained, Active, Ended
<1> QED
  BY <1>5, <1>6, <1>7, <1>8, <1>9, <1>10 DEF PinInv

\* Entries are marked for deletion, or an operation or the shutdown goes on.
LEMMA Marks ==
  ASSUME PinInv, UNCHANGED <<pc, pins, busy, final, external>>,
         DOMAIN op' = Ops, WritersDrained', shutdown' # "over" => shutdown # "over",
         DOMAIN reg' = Files,
         \A f \in Files : reg'[f] = reg[f] \/ (reg'[f] = "pending" /\ reg[f] # "no")
  PROVE  PinInv'
<1>1. PinTypes'
  BY DEF PinInv, PinTypes
<1>2. FilesThere'
  BY DEF PinInv, FilesThere
<1>3. PinsThere'
  BY DEF PinInv, PinsThere
<1>4. EntriesPast'
  BY DEF PinInv, EntriesPast
<1>5. ReclaimQuiet'
  BY DEF PinInv, ReclaimQuiet
<1> QED
  BY <1>1, <1>2, <1>3, <1>4, <1>5 DEF PinInv

LEMMA MarkSteps ==
  ASSUME PinInv,
         \/ Sweep \/ ShutdownBegin \/ MarkAll \/ DrainSweep
         \/ \E f \in Files : Purge(f)
         \/ UNCHANGED vars
  PROVE  PinInv'
<1>1. UNCHANGED <<op, pc, pins, busy, final, external>>
  BY DEF Sweep, ShutdownBegin, MarkAll, DrainSweep, Purge, vars, disk, registry, reclaim, history
<1>2. DOMAIN op' = Ops /\ WritersDrained'
  BY <1>1 DEF PinInv, PinTypes, WritersDrained, Active, Ended
<1>3. shutdown' # "over" => shutdown # "over"
  BY DEF Sweep, ShutdownBegin, MarkAll, DrainSweep, Purge, vars
<1>4. /\ DOMAIN reg' = Files
      /\ \A f \in Files : reg'[f] = reg[f] \/ (reg'[f] = "pending" /\ reg[f] # "no")
  <2>1. CASE Sweep \/ DrainSweep
    <3>1. PICK old \in SUBSET Expirable : reg' = [f \in Files |-> IF f \in old THEN "pending" ELSE reg[f]]
      BY <2>1 DEF Sweep, DrainSweep, SweepBatch
    <3>2. \A f \in old : reg[f] # "no"
      BY DEF Expirable
    <3> QED
      BY <3>1, <3>2
  <2>2. CASE MarkAll
    BY <2>2 DEF MarkAll
  <2>3. ASSUME NEW f \in Files, Purge(f)
        PROVE  /\ DOMAIN reg' = Files
               /\ \A g \in Files : reg'[g] = reg[g] \/ (reg'[g] = "pending" /\ reg[g] # "no")
    BY <2>3 DEF Purge, PinInv, PinTypes
  <2>4. CASE ShutdownBegin \/ UNCHANGED vars
    BY <2>4 DEF ShutdownBegin, vars, registry, PinInv, PinTypes
  <2> QED
    BY <2>1, <2>2, <2>3, <2>4
<1> QED
  BY <1>1, <1>2, <1>3, <1>4, Marks

LEMMA OpSteps ==
  ASSUME PinInv, NEW o \in Ops, StartOp(o) \/ StopOp(o) \/ FinishOp(o) \/ CleanupOp(o)
  PROVE  PinInv'
<1>1. UNCHANGED <<pc, pins, busy, final, external, shutdown>>
  BY DEF StartOp, StopOp, FinishOp, CleanupOp, disk, registry, reclaim, history
<1>2. PICK state : /\ op' = [op EXCEPT ![o] = state]
                   /\ state \in {"run", "stop"} \/ \A f \in Mine(o) : Ended(f)
  <2>1. CASE StartOp(o) \/ StopOp(o)
    BY <2>1 DEF StartOp, StopOp
  <2>2. CASE FinishOp(o)
    BY <2>2 DEF FinishOp, At, Ended
  <2>3. CASE CleanupOp(o)
    BY <2>3 DEF CleanupOp
  <2> QED
    BY <2>1, <2>2, <2>3
<1>3. DOMAIN op' = Ops /\ op'[o] = state /\ \A x \in Ops : x # o => op'[x] = op[x]
  BY <1>2 DEF PinInv, PinTypes
<1>4. WritersDrained'
  <2> SUFFICES ASSUME NEW f \in Files, op'[Files2Op[f]] \notin {"run", "stop"} PROVE Ended(f)
    BY <1>1 DEF WritersDrained, Active, Ended
  <2>1. CASE Files2Op[f] = o
    BY <1>2, <1>3, <2>1 DEF Mine
  <2>2. CASE Files2Op[f] # o
    BY <1>3, <2>2, OpsOfFiles DEF PinInv, WritersDrained, Active
  <2> QED
    BY <2>1, <2>2
<1>5. /\ DOMAIN reg' = Files
      /\ \A f \in Files : reg'[f] = reg[f] \/ (reg'[f] = "pending" /\ reg[f] # "no")
  <2>1. CASE CleanupOp(o)
    BY <2>1 DEF CleanupOp
  <2>2. CASE StartOp(o) \/ StopOp(o) \/ FinishOp(o)
    BY <2>2 DEF StartOp, StopOp, FinishOp, registry, PinInv, PinTypes
  <2> QED
    BY <2>1, <2>2
<1> QED
  BY <1>1, <1>3, <1>4, <1>5, Marks

\* A failed operation's directory goes once none of its entries is left.
LEMMA RemoveOpDirStep ==
  ASSUME PinInv, NEW o \in Ops, RemoveOpDir(o)
  PROVE  PinInv'
<1>1. /\ op[o] = "clean" /\ op' = [op EXCEPT ![o] = "failed"]
      /\ UNCHANGED <<pc, reg, pins, busy, external, shutdown>>
  BY DEF RemoveOpDir, registry, reclaim, history
<1>2. final' = final \/ (final' = final \ Mine(o) /\ \A f \in Mine(o) : reg[f] = "no")
  BY DEF RemoveOpDir
<1>3. DOMAIN op' = Ops /\ op'[o] = "failed" /\ \A x \in Ops : x # o => op'[x] = op[x]
  BY <1>1 DEF PinInv, PinTypes
<1>4. \A f \in Mine(o) : Ended(f) /\ f \in Files
  BY <1>1 DEF Mine, PinInv, WritersDrained, Active
<1>5. \A f \in Files : f \in final /\ f \notin final' => reg[f] = "no" /\ pc[f] # "renamed"
  BY <1>2, <1>4 DEF Ended
<1>6. PinTypes'
  BY <1>1, <1>3 DEF PinInv, PinTypes
<1>7. FilesThere'
  BY <1>1, <1>5 DEF PinInv, FilesThere
<1>8. PinsThere'
  BY <1>1, <1>5 DEF PinInv, PinsThere
<1>9. EntriesPast' /\ ReclaimQuiet'
  BY <1>1 DEF PinInv, EntriesPast, ReclaimQuiet
<1>10. WritersDrained'
  <2> SUFFICES ASSUME NEW f \in Files, op'[Files2Op[f]] \notin {"run", "stop"} PROVE Ended(f)
    BY <1>1 DEF WritersDrained, Active, Ended
  <2>1. CASE Files2Op[f] = o
    BY <1>4, <2>1 DEF Mine
  <2>2. CASE Files2Op[f] # o
    BY <1>3, <2>2, OpsOfFiles DEF PinInv, WritersDrained, Active
  <2> QED
    BY <2>1, <2>2
<1> QED
  BY <1>6, <1>7, <1>8, <1>9, <1>10 DEF PinInv

\* Reads start on readable entries, and end.
LEMMA PinSteps ==
  ASSUME PinInv, NEW f \in Files, Pin(f) \/ Unpin(f)
  PROVE  PinInv'
<1>1. UNCHANGED <<op, pc, reg, busy, final, external, shutdown>>
  <2>1. CASE Pin(f)
    BY <2>1 DEF Pin, disk, reclaim, history
  <2>2. CASE Unpin(f)
    BY <2>2 DEF Unpin, disk, history
  <2> QED
    BY <2>1, <2>2
<1>2. PICK n \in Nat : /\ pins' = [pins EXCEPT ![f] = n]
                       /\ pins[f] > 0 \/ (reg[f] = "readable" /\ shutdown = "no")
  <2>1. pins[f] \in Nat
    BY DEF PinInv, PinTypes
  <2>2. CASE Pin(f)
    <3>1. pins' = [pins EXCEPT ![f] = pins[f] + 1] /\ reg[f] = "readable" /\ shutdown = "no"
      BY <2>2 DEF Pin
    <3>2. pins[f] + 1 \in Nat
      BY <2>1
    <3> QED
      BY <3>1, <3>2, Zenon
  <2>3. CASE Unpin(f)
    <3>1. pins' = [pins EXCEPT ![f] = pins[f] - 1] /\ pins[f] > 0
      BY <2>3 DEF Unpin
    <3>2. pins[f] - 1 \in Nat
      BY <2>1, <3>1
    <3> QED
      BY <3>1, <3>2, Zenon
  <2> QED
    BY <2>2, <2>3
<1>3. pins' \in [Files -> Nat] /\ \A g \in Files : g # f => pins'[g] = pins[g]
  BY <1>2 DEF PinInv, PinTypes
<1>4. PinTypes'
  BY <1>1, <1>3 DEF PinInv, PinTypes
<1>5. FilesThere' /\ EntriesPast' /\ WritersDrained'
  BY <1>1 DEF PinInv, FilesThere, EntriesPast, WritersDrained, Active, Ended
<1>6. PinsThere'
  <2>1. reg[f] # "no" /\ f \in final \cup external
    BY <1>2 DEF PinInv, PinsThere, FilesThere
  <2> QED
    BY <1>1, <1>3, <2>1 DEF PinInv, PinsThere
<1>7. ReclaimQuiet'
  <2>1. CASE busy = Nothing
    BY <1>1, <2>1 DEF ReclaimQuiet
  <2>2. CASE busy # Nothing
    <3>1. PICK g \in Files : /\ busy \in {[file |-> g, step |-> "delete"], [file |-> g, step |-> "unregister"]}
                             /\ reg[g] # "readable" /\ pins[g] = 0 /\ pc[g] \in Past
      BY <2>2 DEF PinInv, ReclaimQuiet
    <3>2. g # f
      BY <1>2, <3>1
    <3>3. reg'[g] = reg[g] /\ pins'[g] = pins[g] /\ pc'[g] = pc[g] /\ busy' = busy
      BY <1>1, <1>3, <3>2
    <3> QED
      BY <3>1, <3>3 DEF ReclaimQuiet
  <2> QED
    BY <2>1, <2>2
<1> QED
  BY <1>4, <1>5, <1>6, <1>7 DEF PinInv

\* Entries leave the registry, with whatever pins they had.
LEMMA Unregisters ==
  ASSUME PinInv, NEW gone, Unregister(gone), UNCHANGED <<op, pc, external>>,
         busy' = busy \/ busy' = Nothing,
         shutdown' # "over" => shutdown # "over" /\ final' = final,
         final' = final \/ NoPins
  PROVE  PinInv'
<1>1. /\ DOMAIN reg' = Files /\ DOMAIN pins' = Files
      /\ \A f \in Files : /\ reg'[f] = IF f \in gone THEN "no" ELSE reg[f]
                          /\ pins'[f] = IF f \in gone THEN 0 ELSE pins[f]
  BY DEF Unregister
<1>2. pins \in [Files -> Nat] /\ \A f \in Files : pins'[f] \in Nat
  BY <1>1 DEF PinInv, PinTypes
<1>3. PinTypes'
  <2>1. pins' \in [Files -> Nat]
    BY <1>2 DEF Unregister
  <2> QED
    BY <1>1, <2>1 DEF PinInv, PinTypes
<1>4. FilesThere'
  BY <1>1 DEF PinInv, FilesThere
<1>5. PinsThere'
  BY <1>1, <1>2 DEF PinInv, PinsThere, NoPins
<1>6. EntriesPast' /\ WritersDrained'
  BY <1>1 DEF PinInv, EntriesPast, WritersDrained, Active, Ended
<1>7. ReclaimQuiet'
  BY <1>1 DEF PinInv, ReclaimQuiet
<1> QED
  BY <1>3, <1>4, <1>5, <1>6, <1>7 DEF PinInv

LEMMA UnregisterSteps ==
  ASSUME PinInv, ReconcileDisk \/ CleanupSession \/ ReclaimUnregister
  PROVE  PinInv'
<1>1. UNCHANGED <<op, pc, external>> /\ (busy' = busy \/ busy' = Nothing)
  BY DEF ReconcileDisk, CleanupSession, ReclaimUnregister, reclaim, history
<1>2. PICK gone : Unregister(gone)
  BY DEF ReconcileDisk, CleanupSession, ReclaimUnregister, Reconcile
<1>3. /\ shutdown' # "over" => shutdown # "over" /\ final' = final
      /\ final' = final \/ NoPins
  BY DEF ReconcileDisk, CleanupSession, ReclaimUnregister, disk
<1> QED
  BY <1>1, <1>2, <1>3, Unregisters

\* The reclaimer takes its lock, and deletes.
LEMMA ReclaimSteps ==
  ASSUME PinInv, ReclaimDelete \/ \E f \in Files : ReclaimBegin(f)
  PROVE  PinInv'
<1>1. UNCHANGED <<op, pc, reg, pins, shutdown, external>>
  BY DEF ReclaimDelete, ReclaimBegin, disk, registry, history
<1>2. PinTypes' /\ EntriesPast' /\ WritersDrained'
  BY <1>1 DEF PinInv, PinTypes, EntriesPast, WritersDrained, Active, Ended
<1>3. ASSUME NEW f \in Files, ReclaimBegin(f) PROVE PinInv'
  <2>1. final' = final
    BY <1>3 DEF ReclaimBegin, disk
  <2>2. FilesThere' /\ PinsThere'
    BY <1>1, <2>1 DEF PinInv, FilesThere, PinsThere
  <2>3. ReclaimQuiet'
    <3>1. CASE Reclaimable(f)
      <4>1. busy' = [file |-> f, step |-> "delete"]
        BY <1>3, <3>1 DEF ReclaimBegin
      <4>2. reg[f] = "pending" /\ pins[f] = 0 /\ pc[f] \in Past
        BY <3>1 DEF Reclaimable, PinInv, EntriesPast
      <4> QED
        BY <1>1, <4>1, <4>2 DEF ReclaimQuiet
    <3>2. CASE ~Reclaimable(f)
      BY <1>3, <3>2 DEF ReclaimBegin, ReclaimQuiet
    <3> QED
      BY <3>1, <3>2
  <2> QED
    BY <1>2, <2>2, <2>3 DEF PinInv
<1>4. CASE ReclaimDelete
  <2>1. PICK f \in Files : /\ busy = [file |-> f, step |-> "delete"]
                           /\ reg[f] # "readable" /\ pins[f] = 0 /\ pc[f] \in Past
    <3>1. busy.step = "delete"
      BY <1>4 DEF ReclaimDelete
    <3>2. busy # Nothing
      BY <3>1 DEF Nothing
    <3>3. PICK f \in Files : /\ busy \in {[file |-> f, step |-> "delete"], [file |-> f, step |-> "unregister"]}
                             /\ reg[f] # "readable" /\ pins[f] = 0 /\ pc[f] \in Past
      BY <3>2 DEF PinInv, ReclaimQuiet
    <3>4. busy # [file |-> f, step |-> "unregister"]
      BY <3>1
    <3> QED
      BY <3>3, <3>4
  <2>2. busy.file = f
    BY <2>1
  <2>3. final' = final \/ final' = final \ {f}
    BY <1>4, <2>2 DEF ReclaimDelete
  <2>4. FilesThere'
    <3>1. pc[f] # "renamed"
      BY <2>1 DEF Past
    <3> QED
      BY <1>1, <2>1, <2>3, <3>1 DEF PinInv, FilesThere
  <2>5. PinsThere'
    BY <1>1, <2>1, <2>3 DEF PinInv, PinsThere
  <2>6. ReclaimQuiet'
    <3>1. busy' = Nothing \/ busy' = [busy EXCEPT !.step = "unregister"]
      BY <1>4 DEF ReclaimDelete
    <3>2. busy' = Nothing \/ busy' = [file |-> f, step |-> "unregister"]
      BY <2>1, <3>1
    <3> QED
      BY <1>1, <2>1, <3>2 DEF ReclaimQuiet
  <2> QED
    BY <1>2, <2>4, <2>5, <2>6 DEF PinInv
<1> QED
  BY <1>3, <1>4

LEMMA RemoveExternallyStep ==
  ASSUME PinInv, NEW f \in Files, RemoveExternally(f)
  PROVE  PinInv'
<1>1. /\ UNCHANGED <<op, pc, reg, pins, busy, shutdown>> /\ reg[f] # "no"
      /\ final' = final \ {f} /\ external' = external \cup {f}
  BY DEF RemoveExternally, registry, reclaim
<1>2. pc[f] # "renamed"
  BY <1>1 DEF PinInv, EntriesPast, Past
<1>3. FilesThere' /\ PinsThere'
  BY <1>1, <1>2 DEF PinInv, FilesThere, PinsThere
<1>4. PinTypes' /\ EntriesPast' /\ WritersDrained' /\ ReclaimQuiet'
  BY <1>1 DEF PinInv, PinTypes, EntriesPast, WritersDrained, ReclaimQuiet, Active, Ended
<1> QED
  BY <1>3, <1>4 DEF PinInv

LEMMA PinStep == PinInv /\ [Next]_vars => PinInv'
<1> SUFFICES ASSUME PinInv, [Next]_vars PROVE PinInv'
  OBVIOUS
<1>1. ASSUME NEW f \in Files, WriterStep(f) PROVE PinInv'
  BY <1>1, WriterSteps, RegisterStep DEF WriterStep
<1>2. ASSUME NEW f \in Files, ManifestStep(f) PROVE PinInv'
  BY <1>2, ManifestSteps
<1>3. ASSUME NEW f \in Files, Pin(f) \/ Unpin(f) \/ Purge(f) \/ RemoveExternally(f) PROVE PinInv'
  BY <1>3, PinSteps, MarkSteps, RemoveExternallyStep
<1>4. ASSUME NEW o \in Ops, OpStep(o) PROVE PinInv'
  BY <1>4, OpSteps, RemoveOpDirStep DEF OpStep
<1>5. CASE ReconcileDisk \/ Sweep \/ ReclaimStep \/ ShutdownStep \/ UNCHANGED vars
  BY <1>5, MarkSteps, UnregisterSteps, ReclaimSteps DEF ReclaimStep, ShutdownStep
<1> QED
  BY <1>1, <1>2, <1>3, <1>4, <1>5 DEF Next

\* For any number of files, operations and reads, whatever the interleaving of
\* writers, purges, the retention sweep, reclamation, reconciliation, operation
\* cleanup and shutdown (pin_artifact, reclaim_pending_artifact,
\* shutdown_and_cleanup): a file under a read stays at its final path unless
\* somebody outside the server removes it.
THEOREM PinsHold == Spec => []PinnedKept
<1>1. Init => PinInv
  BY PinInitial
<1>2. PinInv /\ [Next]_vars => PinInv'
  BY PinStep
<1>3. PinInv => PinnedKept
  BY DEF PinInv, PinsThere, PinnedKept
<1> QED
  BY <1>1, <1>2, <1>3, PTL DEF Spec

-----------------------------------------------------------------------------
(* DiskQuota: what the coordinator's books and its queue look like.         *)

Quota == [reserved : Int, tx : [Ops -> Int], amount : [Leases -> Nat \cup {Closed}],
          waiters : Seq(Leases), granted : SUBSET Leases, refused : SUBSET Leases]

LeasesOf(o) == {l \in Leases : OpOf[l] = o}

\* The counters are the sums of what the leases hold, within the ceiling.
Books(s) ==
  /\ s.reserved = HeldBy(s, Leases) /\ s.reserved <= Limit
  /\ \A o \in Ops : s.tx[o] # Closed => s.tx[o] = HeldBy(s, LeasesOf(o))
  /\ \A l \in Leases : s.amount[l] # Closed => s.tx[OpOf[l]] # Closed

\* A lease waits once, and has been told at most one thing.
Queue(s) ==
  /\ \A i, j \in 1 .. Len(s.waiters) : s.waiters[i] = s.waiters[j] => i = j
  /\ \A i \in 1 .. Len(s.waiters) : s.waiters[i] \notin s.granted \cup s.refused
  /\ s.granted \cap s.refused = {}

InQueue(s) == {s.waiters[i] : i \in 1 .. Len(s.waiters)} \cup s.granted \cup s.refused

\* Whoever waits in front does not fit.
Settled(s) == s.waiters # <<>> => ~CanGrant(s, Head(s.waiters))

QuotaSound(s) == s \in Quota /\ Books(s) /\ Queue(s)

\* Lease l lives on from s to r: it loses nothing, and what it is told is true.
Kept(s, r, l) ==
  /\ r.amount[l] = Closed <=> s.amount[l] = Closed
  /\ r.amount[l] >= s.amount[l]
  /\ l \in r.granted => l \in s.granted \/ r.amount[l] >= s.amount[l] + Ask[l]
  /\ l \notin InQueue(s) => r.amount[l] = s.amount[l]

\* From s to r the leases of ls are dropped, and some that waited are told.
Flows(s, r, ls) ==
  /\ InQueue(r) \subseteq InQueue(s)
  /\ \A l \in ls : r.amount[l] = Closed
  /\ \A l \in Leases \ ls : Kept(s, r, l)
  /\ \A o \in Ops : r.tx[o] = Closed <=> s.tx[o] = Closed

-----------------------------------------------------------------------------
(* Walks: a function that is built step by step exists.                     *)

LEMMA UpTo ==
  ASSUME NEW N \in Nat, NEW S, 0 \in S, \A n \in 1 .. N : n - 1 \in S => n \in S
  PROVE  \A n \in 0 .. N : n \in S
<1> DEFINE Bad == {n \in 0 .. N : n \notin S}
<1> SUFFICES ASSUME Bad # {} PROVE FALSE
  OBVIOUS
<1>1. Bad \subseteq Nat
  OBVIOUS
<1>2. PICK n \in Bad : \A m \in Bad : <<m, n>> \notin OpToRel(<, Nat)
  BY <1>1, NatLessThanWellFounded, WFMin
<1>3. n \in 0 .. N /\ n \notin S /\ n \in Nat /\ \A m \in Bad : m \in Nat
  OBVIOUS
<1> HIDE DEF Bad
<1>7. \A m \in Bad : ~(m < n)
  BY <1>2, <1>3 DEF OpToRel
<1>4. n # 0 /\ n - 1 \in 0 .. N
  BY <1>3
<1>5. n - 1 \notin S
  BY <1>3, <1>4
<1>6. n - 1 \in Bad
  BY <1>4, <1>5 DEF Bad
<1> QED
  BY <1>3, <1>7, <1>6

Steps(N, Q) == [1 .. N -> [Q -> Q]]

Walk(f, N, Q, start, G) ==
  f \in [0 .. N -> Q] /\ f[0] = start /\ \A n \in 1 .. N : f[n] = G[n][f[n - 1]]

LEMMA Iterates ==
  ASSUME NEW N \in Nat, NEW Q, NEW start \in Q, NEW G \in Steps(N, Q)
  PROVE  \E f : Walk(f, N, Q, start, G)
<1> USE DEF Steps
<1> DEFINE Good(k, f) == f \in [0 .. k -> Q] /\ f[0] = start /\ \A n \in 1 .. k : f[n] = G[n][f[n - 1]]
           S == {k \in 0 .. N : \E f : Good(k, f)}
<1>1. 0 \in S
  <2> DEFINE h == [n \in 0 .. 0 |-> start]
  <2>1. h \in [0 .. 0 -> Q] /\ h[0] = start /\ \A n \in 1 .. 0 : h[n] = G[n][h[n - 1]]
    OBVIOUS
  <2> HIDE DEF h
  <2>2. Good(0, h)
    BY <2>1
  <2> QED
    BY <2>2
<1>2. ASSUME NEW k \in 1 .. N, k - 1 \in S PROVE k \in S
  <2>1. PICK f : Good(k - 1, f)
    BY <1>2
  <2> DEFINE g == [n \in 0 .. k |-> IF n = k THEN G[k][f[k - 1]] ELSE f[n]]
  <2>2. f[k - 1] \in Q /\ \A n \in 0 .. k - 1 : f[n] \in Q
    BY <2>1
  <2>3. G[k][f[k - 1]] \in Q
    BY <2>2
  <2>4. g \in [0 .. k -> Q]
    <3>1. \A n \in 0 .. k : n # k => n \in 0 .. k - 1
      OBVIOUS
    <3>2. \A n \in 0 .. k : (IF n = k THEN G[k][f[k - 1]] ELSE f[n]) \in Q
      BY <2>2, <2>3, <3>1
    <3> QED
      BY <3>2
  <2>5. g[0] = start
    BY <2>1
  <2>6. ASSUME NEW n \in 1 .. k PROVE g[n] = G[n][g[n - 1]]
    <3>1. g[n - 1] = f[n - 1]
      OBVIOUS
    <3>2. CASE n = k
      BY <3>1, <3>2
    <3>3. CASE n # k
      <4>1. n \in 1 .. k - 1
        BY <3>3
      <4>2. g[n] = f[n]
        BY <3>3
      <4> QED
        BY <2>1, <3>1, <4>1, <4>2
    <3> QED
      BY <3>2, <3>3
  <2> HIDE DEF g
  <2>7. Good(k, g)
    BY <2>4, <2>5, <2>6
  <2> QED
    BY <2>7
<1> HIDE DEF S
<1>3. N \in S
  <2>1. \A n \in 0 .. N : n \in S
    BY <1>1, <1>2, UpTo
  <2> QED
    BY <2>1
<1> QED
  BY <1>3 DEF S, Walk

-----------------------------------------------------------------------------
(* Sums over the leases.                                                    *)

LEMMA LeasesOrdered ==
  /\ Count \in Nat /\ Order \in [1 .. Count -> Leases]
  /\ \A m, n \in 1 .. Count : Order[m] = Order[n] => m = n
  /\ \A l \in Leases : \E n \in 1 .. Count : Order[n] = l
<1>1. Count \in Nat /\ ExistsBijection(1 .. Count, Leases)
  BY QuotaConstants, FS_CardinalityType DEF Count
<1>2. \E f \in [1 .. Count -> Leases] : IsInjective(f)
  BY <1>1 DEF ExistsBijection, Bijection, Injection, IsInjective
<1>3. Order \in [1 .. Count -> Leases] /\ IsInjective(Order)
  BY <1>2 DEF Order, SetToSeq, Count
<1>4. \A m, n \in 1 .. Count : Order[m] = Order[n] => m = n
  BY <1>3 DEF IsInjective
<1>5. Order \in Injection(1 .. Count, Leases)
  BY <1>3, <1>4 DEF Injection, IsInjective
<1>6. Cardinality(1 .. Count) = Cardinality(Leases)
  BY <1>1, FS_Interval DEF Count
<1>7. Order \in Surjection(1 .. Count, Leases)
  BY <1>5, <1>6, QuotaConstants, FS_Injection
<1>8. \A l \in Leases : \E n \in 1 .. Count : Order[n] = l
  BY <1>7 DEF Surjection
<1> QED
  BY <1>1, <1>3, <1>4, <1>8

\* What a lease adds to the sum over a set.
Share(s, ls, l) == IF l \in ls THEN Held(s, l) ELSE 0

LEMMA ShareType ==
  ASSUME NEW s \in Quota, NEW ls, NEW l \in Leases
  PROVE  Share(s, ls, l) \in Nat
<1>1. s.amount[l] \in Nat \cup {Closed}
  BY DEF Quota
<1> QED
  BY <1>1 DEF Share, Held

LEMMA Summed ==
  ASSUME NEW s \in Quota, NEW ls
  PROVE  \E u \in [0 .. Count -> Int] :
           /\ HeldBy(s, ls) = u[Count] /\ u[0] = 0
           /\ \A n \in 1 .. Count : u[n] = u[n - 1] + Share(s, ls, Order[n])
<1>1. Count \in Nat /\ \A n \in 1 .. Count : Order[n] \in Leases
  BY LeasesOrdered
<1> DEFINE G == [n \in 1 .. Count |-> [x \in Int |-> x + Share(s, ls, Order[n])]]
<1>2. G \in [1 .. Count -> [Int -> Int]]
  <2>1. \A n \in 1 .. Count : Share(s, ls, Order[n]) \in Int
    BY <1>1, ShareType
  <2> QED
    BY <2>1
<1>3. PICK g \in [0 .. Count -> Int] : g[0] = 0 /\ \A n \in 1 .. Count : g[n] = G[n][g[n - 1]]
  <2>1. G \in Steps(Count, Int) /\ 0 \in Int
    BY <1>2 DEF Steps
  <2> HIDE DEF G
  <2>2. PICK f : Walk(f, Count, Int, 0, G)
    BY <1>1, <2>1, Iterates, Zenon
  <2> QED
    BY <2>2 DEF Walk
<1>4. \A n \in 1 .. Count : g[n] = g[n - 1] + Share(s, ls, Order[n])
  <2> SUFFICES ASSUME NEW n \in 1 .. Count PROVE g[n] = g[n - 1] + Share(s, ls, Order[n])
    OBVIOUS
  <2>1. n - 1 \in 0 .. Count
    BY <1>1
  <2>2. g[n - 1] \in Int
    BY <2>1
  <2> QED
    BY <1>3, <2>2
<1> DEFINE Sums(f) == f = [n \in 0 .. Count |-> IF n = 0 THEN 0
                             ELSE f[n - 1] + (IF Order[n] \in ls THEN Held(s, Order[n]) ELSE 0)]
<1>5. Sums(g)
  <2>1. \A n \in 0 .. Count : g[n] = IF n = 0 THEN 0
                             ELSE g[n - 1] + (IF Order[n] \in ls THEN Held(s, Order[n]) ELSE 0)
    <3>1. \A n \in 0 .. Count : n # 0 => n \in 1 .. Count
      BY <1>1
    <3> QED
      BY <1>3, <1>4, <3>1 DEF Share
  <2> QED
    BY <2>1
<1> DEFINE u == CHOOSE f : Sums(f)
<1>6. Sums(u)
  BY <1>5, Zenon
<1>7. HeldBy(s, ls) = u[Count]
  BY DEF HeldBy
<1> HIDE DEF u
<1>8. DOMAIN u = 0 .. Count /\ u[0] = 0
  <2>1. 0 \in 0 .. Count
    BY <1>1
  <2> QED
    BY <1>6, <2>1
<1>9. \A n \in 1 .. Count : u[n] = u[n - 1] + Share(s, ls, Order[n])
  <2>1. \A n \in 1 .. Count : n \in 0 .. Count /\ n # 0
    BY <1>1
  <2> QED
    BY <1>6, <2>1, Zenon DEF Share
<1>10. \A n \in 0 .. Count : n \in {m \in 0 .. Count : u[m] \in Int}
  <2>1. 0 \in {m \in 0 .. Count : u[m] \in Int}
    BY <1>1, <1>8
  <2>2. ASSUME NEW n \in 1 .. Count, n - 1 \in {m \in 0 .. Count : u[m] \in Int}
        PROVE  n \in {m \in 0 .. Count : u[m] \in Int}
    <3>1. Share(s, ls, Order[n]) \in Nat
      BY <1>1, ShareType
    <3> QED
      BY <1>1, <1>9, <2>2, <3>1
  <2> QED
    BY <1>1, <2>1, <2>2, UpTo
<1>11. u \in [0 .. Count -> Int]
  BY <1>6, <1>10
<1> QED
  BY <1>7, <1>8, <1>9, <1>11

LEMMA HeldNat ==
  ASSUME NEW s \in Quota, NEW ls
  PROVE  HeldBy(s, ls) \in Nat
<1>1. PICK u \in [0 .. Count -> Int] :
        /\ HeldBy(s, ls) = u[Count] /\ u[0] = 0
        /\ \A n \in 1 .. Count : u[n] = u[n - 1] + Share(s, ls, Order[n])
  BY Summed, Zenon
<1>2. Count \in Nat /\ \A n \in 1 .. Count : Order[n] \in Leases
  BY LeasesOrdered
<1> DEFINE S == {n \in 0 .. Count : u[n] \in Nat}
<1>3. 0 \in S
  BY <1>1, <1>2
<1>4. ASSUME NEW n \in 1 .. Count, n - 1 \in S PROVE n \in S
  <2>1. Share(s, ls, Order[n]) \in Nat
    BY <1>2, ShareType
  <2> QED
    BY <1>1, <1>2, <1>4, <2>1
<1>5. Count \in S
  <2> HIDE DEF S
  <2>1. \A n \in 0 .. Count : n \in S
    BY <1>2, <1>3, <1>4, UpTo
  <2> QED
    BY <1>2, <2>1
<1> QED
  BY <1>1, <1>5

LEMMA HeldNone ==
  ASSUME NEW s \in Quota, NEW ls, \A l \in Leases : l \in ls => s.amount[l] = Closed
  PROVE  HeldBy(s, ls) = 0
<1>1. PICK u \in [0 .. Count -> Int] :
        /\ HeldBy(s, ls) = u[Count] /\ u[0] = 0
        /\ \A n \in 1 .. Count : u[n] = u[n - 1] + Share(s, ls, Order[n])
  BY Summed, Zenon
<1>2. Count \in Nat /\ \A n \in 1 .. Count : Order[n] \in Leases
  BY LeasesOrdered
<1> DEFINE S == {n \in 0 .. Count : u[n] = 0}
<1>3. 0 \in S
  BY <1>1, <1>2
<1>4. ASSUME NEW n \in 1 .. Count, n - 1 \in S PROVE n \in S
  <2>1. Share(s, ls, Order[n]) = 0
    BY <1>2 DEF Share, Held
  <2> QED
    BY <1>1, <1>2, <1>4, <2>1
<1>5. Count \in S
  <2> HIDE DEF S
  <2>1. \A n \in 0 .. Count : n \in S
    BY <1>2, <1>3, <1>4, UpTo
  <2> QED
    BY <1>2, <2>1
<1> QED
  BY <1>1, <1>5

\* One lease changes, by d.
LEMMA HeldMoves ==
  ASSUME NEW s \in Quota, NEW r \in Quota, NEW ls, NEW l \in Leases, NEW d \in Int,
         \A x \in Leases : x # l => r.amount[x] = s.amount[x],
         Held(r, l) = Held(s, l) + d
  PROVE  HeldBy(r, ls) = HeldBy(s, ls) + (IF l \in ls THEN d ELSE 0)
<1>1. PICK u \in [0 .. Count -> Int] :
        /\ HeldBy(s, ls) = u[Count] /\ u[0] = 0
        /\ \A n \in 1 .. Count : u[n] = u[n - 1] + Share(s, ls, Order[n])
  BY Summed, Zenon
<1>2. PICK v \in [0 .. Count -> Int] :
        /\ HeldBy(r, ls) = v[Count] /\ v[0] = 0
        /\ \A n \in 1 .. Count : v[n] = v[n - 1] + Share(r, ls, Order[n])
  BY Summed, Zenon
<1>3. /\ Count \in Nat /\ \A n \in 1 .. Count : Order[n] \in Leases
      /\ \A m, n \in 1 .. Count : Order[m] = Order[n] => m = n
  BY LeasesOrdered
<1>4. PICK k \in 1 .. Count : Order[k] = l
  BY LeasesOrdered
<1>5. PICK e \in Int : e = IF l \in ls THEN d ELSE 0
  OBVIOUS
<1>6. ASSUME NEW n \in 1 .. Count
      PROVE  Share(r, ls, Order[n]) = Share(s, ls, Order[n]) + (IF n = k THEN e ELSE 0)
  <2>1. Share(s, ls, Order[n]) \in Int /\ Held(s, l) \in Int
    <3>1. Share(s, ls, Order[n]) \in Nat /\ Share(s, {l}, l) \in Nat
      BY <1>3, ShareType
    <3> QED
      BY <3>1 DEF Share
  <2>2. CASE n = k
    BY <1>4, <1>5, <2>1, <2>2 DEF Share
  <2>3. CASE n # k
    <3>1. Order[n] # l /\ Order[n] \in Leases
      BY <1>3, <1>4, <2>3
    <3>2. Held(r, Order[n]) = Held(s, Order[n])
      BY <3>1 DEF Held
    <3> QED
      BY <2>1, <2>3, <3>2 DEF Share
  <2> QED
    BY <2>2, <2>3
<1> DEFINE S == {n \in 0 .. Count : v[n] = u[n] + (IF n >= k THEN e ELSE 0)}
<1>7. 0 \in S
  BY <1>1, <1>2, <1>3
<1>8. ASSUME NEW n \in 1 .. Count, n - 1 \in S PROVE n \in S
  <2>1. Share(s, ls, Order[n]) \in Int
    BY <1>3, ShareType
  <2>2. Share(r, ls, Order[n]) = Share(s, ls, Order[n]) + (IF n = k THEN e ELSE 0)
    BY <1>6
  <2>3. /\ u[n] = u[n - 1] + Share(s, ls, Order[n])
        /\ v[n] = v[n - 1] + Share(r, ls, Order[n])
    BY <1>1, <1>2
  <2>4. v[n - 1] = u[n - 1] + (IF n - 1 >= k THEN e ELSE 0)
    BY <1>8
  <2>5. u[n - 1] \in Int /\ u[n] \in Int /\ n \in 0 .. Count /\ n \in Int /\ k \in Int
    <3>1. n - 1 \in 0 .. Count /\ n \in 0 .. Count
      BY <1>3
    <3> QED
      BY <3>1
  <2>6. v[n] = u[n] + (IF n >= k THEN e ELSE 0)
    BY <2>1, <2>2, <2>3, <2>4, <2>5
  <2> QED
    BY <2>5, <2>6
<1>9. Count \in S
  <2> HIDE DEF S
  <2>1. \A n \in 0 .. Count : n \in S
    BY <1>3, <1>7, <1>8, UpTo
  <2> QED
    BY <1>3, <2>1
<1> QED
  BY <1>1, <1>2, <1>5, <1>9

LEMMA HeldSame ==
  ASSUME NEW s \in Quota, NEW r \in Quota, NEW ls,
         \A l \in Leases : Held(r, l) = Held(s, l)
  PROVE  HeldBy(r, ls) = HeldBy(s, ls)
<1>1. PICK u \in [0 .. Count -> Int] :
        /\ HeldBy(s, ls) = u[Count] /\ u[0] = 0
        /\ \A n \in 1 .. Count : u[n] = u[n - 1] + Share(s, ls, Order[n])
  BY Summed, Zenon
<1>2. PICK v \in [0 .. Count -> Int] :
        /\ HeldBy(r, ls) = v[Count] /\ v[0] = 0
        /\ \A n \in 1 .. Count : v[n] = v[n - 1] + Share(r, ls, Order[n])
  BY Summed, Zenon
<1>3. Count \in Nat /\ \A n \in 1 .. Count : Order[n] \in Leases
  BY LeasesOrdered
<1> DEFINE S == {n \in 0 .. Count : v[n] = u[n]}
<1>4. 0 \in S
  BY <1>1, <1>2, <1>3
<1>5. ASSUME NEW n \in 1 .. Count, n - 1 \in S PROVE n \in S
  <2>1. Share(r, ls, Order[n]) = Share(s, ls, Order[n])
    BY <1>3 DEF Share
  <2> QED
    BY <1>1, <1>2, <1>3, <1>5, <2>1
<1>6. Count \in S
  <2> HIDE DEF S
  <2>1. \A n \in 0 .. Count : n \in S
    BY <1>3, <1>4, <1>5, UpTo
  <2> QED
    BY <1>3, <2>1
<1> QED
  BY <1>1, <1>2, <1>6

-----------------------------------------------------------------------------
(* The operations of the coordinator.                                       *)

LEMMA Asks == ASSUME NEW l \in Leases PROVE Ask[l] \in Nat \ {0} /\ OpOf[l] \in Ops
BY QuotaConstants

LEMMA QuotaFields ==
  ASSUME NEW s \in Quota
  PROVE  /\ s.reserved \in Int /\ s.tx \in [Ops -> Int] /\ s.amount \in [Leases -> Nat \cup {Closed}]
         /\ s.waiters \in Seq(Leases) /\ s.granted \in SUBSET Leases /\ s.refused \in SUBSET Leases
         /\ \A l \in Leases : s.amount[l] \in Int /\ (s.amount[l] # Closed <=> s.amount[l] >= 0)
<1>1. /\ s.reserved \in Int /\ s.tx \in [Ops -> Int] /\ s.amount \in [Leases -> Nat \cup {Closed}]
      /\ s.waiters \in Seq(Leases) /\ s.granted \in SUBSET Leases /\ s.refused \in SUBSET Leases
  BY DEF Quota
<1>2. \A l \in Leases : s.amount[l] \in Nat \cup {Closed}
  BY <1>1
<1> QED
  BY <1>1, <1>2 DEF Closed

LEMMA FlowsSelf ==
  ASSUME NEW s \in Quota
  PROVE  Flows(s, s, {})
<1>1. \A l \in Leases : s.amount[l] \in Int
  BY QuotaFields
<1> QED
  BY <1>1 DEF Flows, Kept

LEMMA FlowsOn ==
  ASSUME NEW s \in Quota, NEW r \in Quota, NEW t \in Quota, NEW ls \in SUBSET Leases,
         NEW ms \in SUBSET Leases, Flows(s, r, ls), Flows(r, t, ms)
  PROVE  Flows(s, t, ls \cup ms)
<1>1. InQueue(t) \subseteq InQueue(s) /\ InQueue(r) \subseteq InQueue(s)
  BY DEF Flows
<1>2. \A o \in Ops : t.tx[o] = Closed <=> s.tx[o] = Closed
  BY DEF Flows
<1>3. ASSUME NEW l \in Leases \ (ls \cup ms) PROVE Kept(s, t, l)
  <2>1. s.amount[l] \in Int /\ r.amount[l] \in Int /\ t.amount[l] \in Int /\ Ask[l] \in Nat
    BY QuotaFields, Asks
  <2>2. Kept(s, r, l) /\ Kept(r, t, l)
    BY <1>3 DEF Flows
  <2> QED
    BY <1>1, <2>1, <2>2 DEF Kept
<1>4. ASSUME NEW l \in ls \cup ms PROVE t.amount[l] = Closed
  <2>1. CASE l \in ms
    BY <2>1 DEF Flows
  <2>2. CASE l \in ls /\ l \notin ms
    <3>1. r.amount[l] = Closed /\ Kept(r, t, l)
      BY <2>2 DEF Flows
    <3> QED
      BY <3>1 DEF Kept
  <2> QED
    BY <2>1, <2>2
<1> QED
  BY <1>1, <1>2, <1>3, <1>4 DEF Flows

\* Bytes are added to a lease or taken from it, within the ceiling.
Added(s, r, l, n) ==
  /\ r \in Quota /\ QuotaSound(r)
  /\ r.reserved = s.reserved + n
  /\ r.amount = [s.amount EXCEPT ![l] = s.amount[l] + n]
  /\ r.waiters = s.waiters /\ r.granted = s.granted /\ r.refused = s.refused
  /\ \A o \in Ops : r.tx[o] = Closed <=> s.tx[o] = Closed

LEMMA AddSound ==
  ASSUME NEW s, QuotaSound(s), NEW l \in Leases, NEW n \in Int, s.amount[l] # Closed,
         s.amount[l] + n >= 0, s.reserved + n <= Limit
  PROVE  Added(s, Add(s, l, n), l, n)
<1>1. PICK r : r = Add(s, l, n)
  OBVIOUS
<1>2. s \in Quota /\ OpOf[l] \in Ops
  BY Asks DEF QuotaSound
<1>3. /\ s.reserved \in Int /\ s.tx \in [Ops -> Int] /\ s.amount \in [Leases -> Nat \cup {Closed}]
      /\ s.waiters \in Seq(Leases) /\ s.granted \in SUBSET Leases /\ s.refused \in SUBSET Leases
      /\ s.amount[l] \in Int
  BY <1>2, QuotaFields
<1>4. r = [reserved |-> s.reserved + n, tx |-> [s.tx EXCEPT ![OpOf[l]] = s.tx[OpOf[l]] + n],
           amount |-> [s.amount EXCEPT ![l] = s.amount[l] + n],
           waiters |-> s.waiters, granted |-> s.granted, refused |-> s.refused]
  BY <1>1, <1>2 DEF Add, Quota
<1>5. /\ r.reserved = s.reserved + n /\ r.tx = [s.tx EXCEPT ![OpOf[l]] = s.tx[OpOf[l]] + n]
      /\ r.amount = [s.amount EXCEPT ![l] = s.amount[l] + n]
      /\ r.waiters = s.waiters /\ r.granted = s.granted /\ r.refused = s.refused
  BY <1>4
<1>6. r.tx \in [Ops -> Int] /\ r.amount \in [Leases -> Nat \cup {Closed}] /\ r.reserved \in Int
  <2>1. PICK a, b : /\ a = s.tx[OpOf[l]] + n /\ b = s.amount[l] + n /\ a \in Int /\ b \in Nat \cup {Closed}
    BY <1>2, <1>3
  <2>2. r.tx = [s.tx EXCEPT ![OpOf[l]] = a] /\ r.amount = [s.amount EXCEPT ![l] = b]
    BY <1>5, <2>1
  <2>3. r.tx \in [Ops -> Int] /\ r.amount \in [Leases -> Nat \cup {Closed}]
    BY <1>2, <1>3, <2>1, <2>2, Zenon
  <2> QED
    BY <1>3, <1>5, <2>3
<1>7. r \in Quota
  BY <1>3, <1>4, <1>5, <1>6 DEF Quota
<1>8. /\ r.amount[l] = s.amount[l] + n /\ \A x \in Leases : x # l => r.amount[x] = s.amount[x]
      /\ r.tx[OpOf[l]] = s.tx[OpOf[l]] + n /\ \A o \in Ops : o # OpOf[l] => r.tx[o] = s.tx[o]
  BY <1>2, <1>3, <1>5
<1>9. Held(r, l) = Held(s, l) + n
  BY <1>3, <1>8 DEF Held, Closed
<1>10. HeldBy(r, Leases) = HeldBy(s, Leases) + n
  BY <1>2, <1>7, <1>8, <1>9, HeldMoves
<1>11. ASSUME NEW o \in Ops
       PROVE  HeldBy(r, LeasesOf(o)) = HeldBy(s, LeasesOf(o)) + (IF o = OpOf[l] THEN n ELSE 0)
  <2>1. l \in LeasesOf(o) <=> o = OpOf[l]
    BY DEF LeasesOf
  <2>2. HeldBy(r, LeasesOf(o)) = HeldBy(s, LeasesOf(o)) + (IF l \in LeasesOf(o) THEN n ELSE 0)
    BY <1>2, <1>7, <1>8, <1>9, HeldMoves
  <2> QED
    BY <2>1, <2>2
<1>12. s.tx[OpOf[l]] # Closed /\ s.tx[OpOf[l]] = HeldBy(s, LeasesOf(OpOf[l]))
  BY <1>2 DEF QuotaSound, Books
<1>13. \A o \in Ops : HeldBy(s, LeasesOf(o)) \in Nat /\ HeldBy(r, LeasesOf(o)) \in Nat
  BY <1>2, <1>7, HeldNat
<1>14. r.tx[OpOf[l]] = HeldBy(r, LeasesOf(OpOf[l])) /\ r.tx[OpOf[l]] # Closed
  BY <1>2, <1>8, <1>11, <1>12, <1>13 DEF Closed
<1>15. \A o \in Ops : r.tx[o] = Closed <=> s.tx[o] = Closed
  BY <1>8, <1>12, <1>14
<1>16. Books(r)
  <2>1. r.reserved = HeldBy(r, Leases) /\ r.reserved <= Limit
    BY <1>5, <1>10 DEF QuotaSound, Books
  <2>2. ASSUME NEW o \in Ops, r.tx[o] # Closed PROVE r.tx[o] = HeldBy(r, LeasesOf(o))
    <3>1. CASE o = OpOf[l]
      BY <1>14, <3>1
    <3>2. CASE o # OpOf[l]
      BY <1>8, <1>11, <1>13, <2>2, <3>2 DEF QuotaSound, Books
    <3> QED
      BY <3>1, <3>2
  <2>3. ASSUME NEW x \in Leases, r.amount[x] # Closed PROVE r.tx[OpOf[x]] # Closed
    <3>1. s.amount[x] # Closed
      BY <1>8, <2>3
    <3>2. s.tx[OpOf[x]] # Closed
      BY <3>1 DEF QuotaSound, Books
    <3> QED
      BY <1>15, <3>2, Asks
  <2> QED
    BY <2>1, <2>2, <2>3 DEF Books
<1>17. Queue(r)
  BY <1>5 DEF QuotaSound, Queue
<1> QED
  BY <1>1, <1>5, <1>7, <1>15, <1>16, <1>17 DEF QuotaSound, Added

\* A lease that holds nothing is unregistered.
LEMMA CloseSound ==
  ASSUME NEW s, QuotaSound(s), NEW l \in Leases, s.amount[l] \in {0, Closed}, l \notin InQueue(s)
  PROVE  \E r \in Quota : /\ [s EXCEPT !.amount[l] = Closed] = r /\ QuotaSound(r) /\ Flows(s, r, {l})
                          /\ Settled(s) => Settled(r)
<1>1. PICK r : r = [s EXCEPT !.amount[l] = Closed]
  OBVIOUS
<1>2. s \in Quota
  BY DEF QuotaSound
<1>3. /\ s.reserved \in Int /\ s.tx \in [Ops -> Int] /\ s.amount \in [Leases -> Nat \cup {Closed}]
      /\ s.waiters \in Seq(Leases) /\ s.granted \in SUBSET Leases /\ s.refused \in SUBSET Leases
      /\ \A x \in Leases : s.amount[x] \in Int
  BY <1>2, QuotaFields
<1>4. r = [reserved |-> s.reserved, tx |-> s.tx, amount |-> [s.amount EXCEPT ![l] = Closed],
           waiters |-> s.waiters, granted |-> s.granted, refused |-> s.refused]
  BY <1>1, <1>2 DEF Quota
<1>5. /\ r.reserved = s.reserved /\ r.tx = s.tx /\ r.amount = [s.amount EXCEPT ![l] = Closed]
      /\ r.waiters = s.waiters /\ r.granted = s.granted /\ r.refused = s.refused
  BY <1>4
<1>6. r.amount \in [Leases -> Nat \cup {Closed}]
  BY <1>3, <1>5
<1>7. r \in Quota
  BY <1>3, <1>4, <1>5, <1>6 DEF Quota
<1>8. r.amount[l] = Closed /\ \A x \in Leases : x # l => r.amount[x] = s.amount[x]
  BY <1>3, <1>5
<1>9. \A x \in Leases : Held(r, x) = Held(s, x)
  BY <1>8 DEF Held
<1>10. \A ls : HeldBy(r, ls) = HeldBy(s, ls)
  BY <1>2, <1>7, <1>9, HeldSame
<1>11. Books(r)
  BY <1>5, <1>8, <1>10 DEF QuotaSound, Books
<1>12. Queue(r) /\ InQueue(r) = InQueue(s)
  BY <1>5 DEF QuotaSound, Queue, InQueue
<1>13. \A x \in Leases : x # l => Kept(s, r, x)
  BY <1>3, <1>5, <1>8 DEF Kept
<1>14. Flows(s, r, {l})
  BY <1>5, <1>8, <1>12, <1>13 DEF Flows
<1>15. Settled(s) => Settled(r)
  BY <1>5 DEF Settled, CanGrant
<1> QED
  BY <1>1, <1>7, <1>11, <1>12, <1>14, <1>15 DEF QuotaSound

\* The coordinator with another queue, and other answers.
Requeued(s, w, g, t) ==
  [reserved |-> s.reserved, tx |-> s.tx, amount |-> s.amount, waiters |-> w, granted |-> g, refused |-> t]

Fit(w, g, t) ==
  /\ w \in Seq(Leases) /\ g \in SUBSET Leases /\ t \in SUBSET Leases
  /\ \A i, j \in 1 .. Len(w) : w[i] = w[j] => i = j
  /\ \A i \in 1 .. Len(w) : w[i] \notin g \cup t
  /\ g \cap t = {}

LEMMA RequeueSound ==
  ASSUME NEW s, QuotaSound(s), NEW w, NEW g, NEW t, Fit(w, g, t)
  PROVE  QuotaSound(Requeued(s, w, g, t)) /\ Requeued(s, w, g, t) \in Quota
<1>1. PICK r : r = Requeued(s, w, g, t)
  OBVIOUS
<1>2. s \in Quota
  BY DEF QuotaSound
<1>3. /\ r.reserved = s.reserved /\ r.tx = s.tx /\ r.amount = s.amount
      /\ r.waiters = w /\ r.granted = g /\ r.refused = t
  BY <1>1 DEF Requeued
<1>4. r \in Quota
  BY <1>1, <1>2, QuotaFields DEF Quota, Requeued, Fit
<1>5. \A ls : HeldBy(r, ls) = HeldBy(s, ls)
  <2>1. \A x \in Leases : Held(r, x) = Held(s, x)
    BY <1>3 DEF Held
  <2> QED
    BY <1>2, <1>4, <2>1, HeldSame
<1>6. Books(r)
  BY <1>3, <1>5 DEF QuotaSound, Books
<1>7. Queue(r)
  BY <1>3 DEF Queue, Fit
<1> QED
  BY <1>1, <1>4, <1>6, <1>7 DEF QuotaSound

LEMMA QuotaRecord ==
  ASSUME NEW s \in Quota
  PROVE  \E a, b, c, d, e, f :
           s = [reserved |-> a, tx |-> b, amount |-> c, waiters |-> d, granted |-> e, refused |-> f]
<1>1. s = [reserved |-> s.reserved, tx |-> s.tx, amount |-> s.amount,
           waiters |-> s.waiters, granted |-> s.granted, refused |-> s.refused]
  BY DEF Quota
<1> QED
  BY <1>1, Zenon

LEMMA WaitersExcept ==
  ASSUME NEW s \in Quota, NEW w
  PROVE  [s EXCEPT !.waiters = w] = Requeued(s, w, s.granted, s.refused)
<1>1. PICK a, b, c, d, e, f :
        s = [reserved |-> a, tx |-> b, amount |-> c, waiters |-> d, granted |-> e, refused |-> f]
  BY QuotaRecord, Zenon
<1>2. /\ s.reserved = a /\ s.tx = b /\ s.amount = c /\ s.waiters = d /\ s.granted = e /\ s.refused = f
  BY <1>1
<1> QED
  BY <1>1, <1>2 DEF Requeued

LEMMA GrantedExcept ==
  ASSUME NEW s \in Quota, NEW g
  PROVE  [s EXCEPT !.granted = g] = Requeued(s, s.waiters, g, s.refused)
<1>1. PICK a, b, c, d, e, f :
        s = [reserved |-> a, tx |-> b, amount |-> c, waiters |-> d, granted |-> e, refused |-> f]
  BY QuotaRecord, Zenon
<1>2. /\ s.reserved = a /\ s.tx = b /\ s.amount = c /\ s.waiters = d /\ s.granted = e /\ s.refused = f
  BY <1>1
<1> QED
  BY <1>1, <1>2 DEF Requeued

LEMMA RefusedExcept ==
  ASSUME NEW s \in Quota, NEW t
  PROVE  [s EXCEPT !.refused = t] = Requeued(s, s.waiters, s.granted, t)
<1>1. PICK a, b, c, d, e, f :
        s = [reserved |-> a, tx |-> b, amount |-> c, waiters |-> d, granted |-> e, refused |-> f]
  BY QuotaRecord, Zenon
<1>2. /\ s.reserved = a /\ s.tx = b /\ s.amount = c /\ s.waiters = d /\ s.granted = e /\ s.refused = f
  BY <1>1
<1> QED
  BY <1>1, <1>2 DEF Requeued

LEMMA ForgetExcept ==
  ASSUME NEW s \in Quota, NEW l
  PROVE  Forget(s, l) = Requeued(s, s.waiters, s.granted \ {l}, s.refused \ {l})
<1>1. PICK a, b, c, d, e, f :
        s = [reserved |-> a, tx |-> b, amount |-> c, waiters |-> d, granted |-> e, refused |-> f]
  BY QuotaRecord, Zenon
<1>2. /\ s.reserved = a /\ s.tx = b /\ s.amount = c /\ s.waiters = d /\ s.granted = e /\ s.refused = f
  BY <1>1
<1>3. PICK g, t, m : g = e \ {l} /\ t = f \ {l} /\ m = [s EXCEPT !.granted = g]
  OBVIOUS
<1>4. m = [reserved |-> a, tx |-> b, amount |-> c, waiters |-> d, granted |-> g, refused |-> f]
  BY <1>1, <1>3
<1>5. Forget(s, l) = [m EXCEPT !.refused = t]
  BY <1>1, <1>2, <1>3, <1>4 DEF Forget
<1>6. [m EXCEPT !.refused = t]
        = [reserved |-> a, tx |-> b, amount |-> c, waiters |-> d, granted |-> g, refused |-> t]
  BY <1>4
<1> QED
  BY <1>2, <1>3, <1>5, <1>6, Zenon DEF Requeued

LEMMA Waiters ==
  ASSUME NEW w \in Seq(Leases), w # <<>>
  PROVE  /\ Head(w) \in Leases /\ Head(w) = w[1] /\ 1 \in 1 .. Len(w) /\ Len(w) \in Nat
         /\ Tail(w) \in Seq(Leases) /\ Len(Tail(w)) = Len(w) - 1
         /\ \A i \in 1 .. Len(Tail(w)) : Tail(w)[i] = w[i + 1] /\ i + 1 \in 1 .. Len(w)
<1>1. Len(w) \in Nat /\ Len(w) # 0
  OBVIOUS
<1>2. Head(w) = w[1] /\ 1 \in 1 .. Len(w)
  BY <1>1
<1>3. w[1] \in Leases
  BY <1>2
<1>4. Tail(w) \in Seq(Leases) /\ Len(Tail(w)) = Len(w) - 1
  BY <1>1
<1>5. ASSUME NEW i \in 1 .. Len(Tail(w)) PROVE Tail(w)[i] = w[i + 1] /\ i + 1 \in 1 .. Len(w)
  BY <1>1, <1>4
<1> QED
  BY <1>1, <1>2, <1>3, <1>4, <1>5

\* The front waiter is granted or refused, and leaves.
LEMMA AnswerSound ==
  ASSUME NEW s, QuotaSound(s), s.waiters # <<>>, CanGrant(s, Head(s.waiters))
  PROVE  \E r \in Quota : /\ Answer(s, Head(s.waiters)) = r /\ QuotaSound(r) /\ Flows(s, r, {})
                          /\ Len(r.waiters) = Len(s.waiters) - 1
<1>1. s \in Quota /\ Queue(s)
  BY DEF QuotaSound
<1>2. /\ s.reserved \in Int /\ s.tx \in [Ops -> Int] /\ s.amount \in [Leases -> Nat \cup {Closed}]
      /\ s.waiters \in Seq(Leases) /\ s.granted \in SUBSET Leases /\ s.refused \in SUBSET Leases
      /\ \A x \in Leases : s.amount[x] \in Int /\ (s.amount[x] # Closed <=> s.amount[x] >= 0)
  BY <1>1, QuotaFields
<1>3. PICK l, w :
        /\ l = Head(s.waiters) /\ w = Tail(s.waiters) /\ Len(w) = Len(s.waiters) - 1 /\ Len(s.waiters) \in Nat
        /\ s.waiters[1] = l /\ \A i \in 1 .. Len(w) : w[i] = s.waiters[i + 1] /\ i + 1 \in 1 .. Len(s.waiters)
        /\ 1 \in 1 .. Len(s.waiters) /\ l \in Leases /\ w \in Seq(Leases)
  BY <1>2, Waiters
<1>4. /\ \A i, j \in 1 .. Len(w) : w[i] = w[j] => i = j
      /\ \A i \in 1 .. Len(w) : w[i] \notin s.granted \cup s.refused /\ w[i] # l
      /\ l \notin s.granted \cup s.refused /\ s.granted \cap s.refused = {}
  <2>1. \A i, j \in 1 .. Len(w) : w[i] = w[j] => i = j
    <3> SUFFICES ASSUME NEW i \in 1 .. Len(w), NEW j \in 1 .. Len(w), w[i] = w[j] PROVE i = j
      OBVIOUS
    <3>1. s.waiters[i + 1] = s.waiters[j + 1] /\ i + 1 \in 1 .. Len(s.waiters) /\ j + 1 \in 1 .. Len(s.waiters)
      BY <1>3
    <3>2. i + 1 = j + 1
      BY <1>1, <3>1 DEF Queue
    <3> QED
      BY <3>2
  <2>2. \A i \in 1 .. Len(w) : w[i] # l
    <3> SUFFICES ASSUME NEW i \in 1 .. Len(w), w[i] = l PROVE FALSE
      OBVIOUS
    <3>1. s.waiters[i + 1] = s.waiters[1] /\ i + 1 \in 1 .. Len(s.waiters) /\ 1 \in 1 .. Len(s.waiters)
      BY <1>3
    <3>2. i + 1 = 1
      BY <1>1, <3>1 DEF Queue
    <3> QED
      BY <3>2
  <2> QED
    BY <1>1, <1>3, <2>1, <2>2 DEF Queue
<1>5. PICK p : p = Requeued(s, w, s.granted, s.refused)
  OBVIOUS
<1>6. /\ p \in Quota /\ QuotaSound(p) /\ p = [s EXCEPT !.waiters = Tail(s.waiters)]
      /\ p.reserved = s.reserved /\ p.tx = s.tx /\ p.amount = s.amount
      /\ p.waiters = w /\ p.granted = s.granted /\ p.refused = s.refused
  <2>1. Fit(w, s.granted, s.refused)
    BY <1>2, <1>3, <1>4 DEF Fit
  <2>2. p \in Quota /\ QuotaSound(p)
    BY <1>5, <2>1, RequeueSound
  <2>3. p = [s EXCEPT !.waiters = Tail(s.waiters)]
    BY <1>1, <1>3, <1>5, WaitersExcept
  <2>4. /\ p.reserved = s.reserved /\ p.tx = s.tx /\ p.amount = s.amount
        /\ p.waiters = w /\ p.granted = s.granted /\ p.refused = s.refused
    BY <1>5 DEF Requeued
  <2> QED
    BY <2>2, <2>3, <2>4
<1>7. InQueue(s) = {w[i] : i \in 1 .. Len(w)} \cup {l} \cup s.granted \cup s.refused
  <2>1. {s.waiters[i] : i \in 1 .. Len(s.waiters)} = {w[i] : i \in 1 .. Len(w)} \cup {l}
    <3>1. \A i \in 1 .. Len(s.waiters) : i = 1 \/ (i - 1 \in 1 .. Len(w) /\ s.waiters[i] = w[i - 1])
      <4> SUFFICES ASSUME NEW i \in 1 .. Len(s.waiters), i # 1
                   PROVE  i - 1 \in 1 .. Len(w) /\ s.waiters[i] = w[i - 1]
        OBVIOUS
      <4>1. i - 1 \in 1 .. Len(w) /\ (i - 1) + 1 = i
        BY <1>3
      <4> QED
        BY <1>3, <4>1
    <3> DEFINE A == {s.waiters[i] : i \in 1 .. Len(s.waiters)}
               B == {w[i] : i \in 1 .. Len(w)}
    <3>2. ASSUME NEW x \in A PROVE x \in B \cup {l}
      BY <1>3, <3>1, <3>2
    <3>3. ASSUME NEW x \in B \cup {l} PROVE x \in A
      BY <1>3, <3>3
    <3> QED
      BY <3>2, <3>3
  <2> QED
    BY <2>1 DEF InQueue
<1>8. CASE Grantable(p, l)
  <2>1. p.amount[l] # Closed /\ p.reserved + Ask[l] <= Limit /\ Ask[l] \in Nat
    BY <1>3, <1>8, Asks DEF Grantable, CanGrant
  <2>2. p.amount[l] + Ask[l] >= 0
    BY <1>2, <1>3, <1>6, <2>1
  <2>3. PICK v : v = Add(p, l, Ask[l]) /\ Added(p, v, l, Ask[l])
    <3>1. Ask[l] \in Int
      BY <2>1
    <3>2. Added(p, Add(p, l, Ask[l]), l, Ask[l])
      BY <1>3, <1>6, <2>1, <2>2, <3>1, AddSound
    <3> QED
      BY <3>2
  <2>11. /\ v \in Quota /\ QuotaSound(v)
         /\ v.amount[l] = s.amount[l] + Ask[l] /\ \A x \in Leases : x # l => v.amount[x] = s.amount[x]
         /\ v.waiters = w /\ v.granted = s.granted /\ v.refused = s.refused
         /\ \A o \in Ops : v.tx[o] = Closed <=> s.tx[o] = Closed
    <3>1. /\ v \in Quota /\ QuotaSound(v) /\ v.amount = [s.amount EXCEPT ![l] = s.amount[l] + Ask[l]]
          /\ v.waiters = w /\ v.granted = s.granted /\ v.refused = s.refused
          /\ \A o \in Ops : v.tx[o] = Closed <=> s.tx[o] = Closed
      BY <1>6, <2>3 DEF Added
    <3> QED
      BY <1>2, <1>3, <3>1
  <2>4. PICK g, r : g = s.granted \cup {l} /\ r = Requeued(v, w, g, s.refused)
    OBVIOUS
  <2>5. /\ r \in Quota /\ QuotaSound(r) /\ r = [v EXCEPT !.granted = v.granted \cup {l}]
        /\ r.reserved = v.reserved /\ r.tx = v.tx /\ r.amount = v.amount
        /\ r.waiters = w /\ r.granted = g /\ r.refused = s.refused
    <3>1. Fit(w, g, s.refused)
      BY <1>2, <1>3, <1>4, <2>4 DEF Fit
    <3>2. r \in Quota /\ QuotaSound(r)
      BY <2>11, <2>4, <3>1, RequeueSound
    <3>3. r = [v EXCEPT !.granted = g] /\ g = v.granted \cup {l}
      <4>1. w = v.waiters /\ s.refused = v.refused /\ g = v.granted \cup {l}
        BY <1>6, <2>11, <2>4
      <4>2. r = Requeued(v, v.waiters, g, v.refused)
        BY <2>4, <4>1
      <4> QED
        BY <2>11, <4>1, <4>2, GrantedExcept
    <3>4. /\ r.reserved = v.reserved /\ r.tx = v.tx /\ r.amount = v.amount
          /\ r.waiters = w /\ r.granted = g /\ r.refused = s.refused
      BY <2>4 DEF Requeued
    <3> QED
      BY <3>2, <3>3, <3>4
  <2>6. Answer(s, l) = r
    BY <1>3, <1>6, <1>8, <2>3, <2>5 DEF Answer, Grant
  <2>7. InQueue(r) = InQueue(s)
    BY <1>7, <2>4, <2>5 DEF InQueue
  <2>8. ASSUME NEW x \in Leases PROVE Kept(s, r, x)
    <3>1. CASE x = l
      <4>1. r.amount[l] = s.amount[l] + Ask[l] /\ s.amount[l] >= 0 /\ l \in InQueue(s)
        BY <1>2, <1>3, <1>6, <1>7, <2>1, <2>11, <2>5
      <4> QED
        BY <1>2, <2>1, <3>1, <4>1 DEF Kept, Closed
    <3>2. CASE x # l
      <4>1. r.amount[x] = s.amount[x] /\ (x \in r.granted => x \in s.granted)
        BY <1>2, <1>6, <2>11, <2>4, <2>5, <3>2
      <4> QED
        BY <1>2, <4>1 DEF Kept
    <3> QED
      BY <3>1, <3>2
  <2>9. \A o \in Ops : r.tx[o] = Closed <=> s.tx[o] = Closed
    BY <1>6, <2>11, <2>5
  <2>10. Flows(s, r, {})
    BY <2>7, <2>8, <2>9 DEF Flows
  <2> QED
    BY <1>3, <2>5, <2>6, <2>10
<1>9. CASE ~Grantable(p, l)
  <2>1. PICK t, r : t = s.refused \cup {l} /\ r = Requeued(p, w, s.granted, t)
    OBVIOUS
  <2>2. /\ r \in Quota /\ QuotaSound(r) /\ r = [p EXCEPT !.refused = p.refused \cup {l}]
        /\ r.reserved = p.reserved /\ r.tx = p.tx /\ r.amount = p.amount
        /\ r.waiters = w /\ r.granted = s.granted /\ r.refused = t
    <3>1. Fit(w, s.granted, t)
      BY <1>2, <1>3, <1>4, <2>1 DEF Fit
    <3>2. r \in Quota /\ QuotaSound(r)
      BY <1>6, <2>1, <3>1, RequeueSound
    <3>3. r = [p EXCEPT !.refused = t] /\ t = p.refused \cup {l}
      <4>1. w = p.waiters /\ s.granted = p.granted /\ t = p.refused \cup {l}
        BY <1>6, <2>1
      <4>2. r = Requeued(p, p.waiters, p.granted, t)
        BY <2>1, <4>1
      <4> QED
        <5>1. p \in Quota
          BY <1>6
        <5>2. [p EXCEPT !.refused = t] = Requeued(p, p.waiters, p.granted, t)
          BY <5>1, RefusedExcept, Zenon
        <5> QED
          BY <4>1, <4>2, <5>2, Zenon
    <3>4. /\ r.reserved = p.reserved /\ r.tx = p.tx /\ r.amount = p.amount
          /\ r.waiters = w /\ r.granted = s.granted /\ r.refused = t
      BY <2>1 DEF Requeued
    <3> QED
      BY <3>2, <3>3, <3>4
  <2>3. Answer(s, l) = r
    BY <1>3, <1>6, <1>9, <2>2 DEF Answer
  <2>4. InQueue(r) = InQueue(s)
    BY <1>7, <2>1, <2>2 DEF InQueue
  <2>5. \A x \in Leases : Kept(s, r, x)
    BY <1>2, <1>6, <2>2 DEF Kept
  <2>6. Flows(s, r, {})
    BY <1>6, <2>2, <2>4, <2>5 DEF Flows
  <2> QED
    BY <1>3, <2>2, <2>3, <2>6
<1> QED
  BY <1>8, <1>9

\* One turn of the loop: it has stopped, or the queue is shorter.
LEMMA TurnSound ==
  ASSUME NEW s, QuotaSound(s)
  PROVE  /\ Turn(s) \in Quota /\ QuotaSound(Turn(s)) /\ Flows(s, Turn(s), {})
         /\ Settled(s) => Turn(s) = s
         /\ ~Settled(s) => Len(Turn(s).waiters) = Len(s.waiters) - 1
<1>1. s \in Quota
  BY DEF QuotaSound
<1>2. CASE Settled(s)
  <2>1. Turn(s) = s
    BY <1>2 DEF Turn, Settled
  <2> QED
    BY <1>1, <1>2, <2>1, FlowsSelf
<1>3. CASE ~Settled(s)
  <2>1. s.waiters # <<>> /\ CanGrant(s, Head(s.waiters))
    BY <1>3 DEF Settled
  <2>2. Turn(s) = Answer(s, Head(s.waiters))
    BY <2>1 DEF Turn
  <2>3. PICK r \in Quota : /\ Answer(s, Head(s.waiters)) = r /\ QuotaSound(r) /\ Flows(s, r, {})
                           /\ Len(r.waiters) = Len(s.waiters) - 1
    BY <2>1, AnswerSound
  <2> QED
    BY <1>3, <2>2, <2>3
<1> QED
  BY <1>2, <1>3

\* wake_waiters_locked keeps the books and the queue, and wakes all that fit.
LEMMA WakeSound ==
  ASSUME NEW s, QuotaSound(s)
  PROVE  QuotaSound(Wake(s)) /\ Flows(s, Wake(s), {}) /\ Settled(Wake(s))
<1> DEFINE Q == {r \in Quota : QuotaSound(r)}
<1>1. s \in Q /\ s \in Quota /\ s.waiters \in Seq(Leases)
  BY QuotaFields DEF QuotaSound
<1>2. PICK N \in Nat : N = Len(s.waiters)
  BY <1>1
<1> DEFINE G == [n \in 1 .. N |-> [r \in Q |-> Turn(r)]]
<1>3. G \in Steps(N, Q)
  <2>1. \A r \in Q : Turn(r) \in Q
    BY TurnSound
  <2> HIDE DEF Q
  <2> QED
    BY <2>1 DEF Steps
<1>4. PICK g : Walk(g, N, Q, s, G)
  <2> HIDE DEF Q, G
  <2> QED
    BY <1>1, <1>3, Iterates, Zenon
<1>5. /\ g \in [0 .. N -> Q] /\ g[0] = s /\ \A n \in 1 .. N : g[n] = Turn(g[n - 1])
  <2>1. g \in [0 .. N -> Q] /\ g[0] = s /\ \A n \in 1 .. N : g[n] = G[n][g[n - 1]]
    BY <1>4 DEF Walk
  <2> HIDE DEF Q
  <2>2. ASSUME NEW n \in 1 .. N PROVE g[n] = Turn(g[n - 1])
    <3>1. n - 1 \in 0 .. N
      OBVIOUS
    <3>2. g[n - 1] \in Q
      BY <2>1, <3>1
    <3> QED
      BY <2>1, <3>2
  <2> QED
    BY <2>1, <2>2
<1> HIDE DEF G
<1> DEFINE After(f) == f = [n \in 0 .. N |-> IF n = 0 THEN s ELSE Turn(f[n - 1])]
<1>6. After(g)
  <2> HIDE DEF Q
  <2>1. \A n \in 0 .. N : n # 0 => n \in 1 .. N
    OBVIOUS
  <2>2. \A n \in 0 .. N : g[n] = IF n = 0 THEN s ELSE Turn(g[n - 1])
    BY <1>5, <2>1
  <2> QED
    BY <1>5, <2>2
<1> DEFINE u == CHOOSE f : After(f)
<1>7. After(u)
  BY <1>6, Zenon
<1>8. Wake(s) = u[N]
  BY <1>2 DEF Wake
<1> HIDE DEF u
<1>9. u[0] = s /\ \A n \in 1 .. N : u[n] = Turn(u[n - 1])
  <2>1. 0 \in 0 .. N /\ \A n \in 1 .. N : n \in 0 .. N /\ n # 0
    OBVIOUS
  <2> QED
    BY <1>7, <2>1, Zenon
<1> HIDE DEF After
<1> DEFINE Ok(n) == /\ QuotaSound(u[n]) /\ Flows(s, u[n], {})
                    /\ Settled(u[n]) \/ Len(u[n].waiters) = N - n
           S == {n \in 0 .. N : Ok(n)}
<1>10. 0 \in S
  <2>1. Ok(0)
    BY <1>1, <1>2, <1>9, FlowsSelf
  <2> QED
    BY <2>1
<1>11. ASSUME NEW n \in 1 .. N, n - 1 \in S PROVE n \in S
  <2>1. PICK r : r = u[n - 1]
    OBVIOUS
  <2>2. QuotaSound(r) /\ Flows(s, r, {}) /\ (Settled(r) \/ Len(r.waiters) = N - (n - 1))
    BY <1>11, <2>1
  <2>3. u[n] = Turn(r)
    BY <1>9, <2>1
  <2>4. /\ Turn(r) \in Quota /\ r \in Quota /\ QuotaSound(Turn(r)) /\ Flows(r, Turn(r), {})
        /\ Settled(r) => Turn(r) = r
        /\ ~Settled(r) => Len(Turn(r).waiters) = Len(r.waiters) - 1
    BY <2>2, TurnSound DEF QuotaSound
  <2>5. Flows(s, Turn(r), {})
    <3>1. {} \cup {} = {} /\ {} \in SUBSET Leases
      OBVIOUS
    <3>2. Flows(s, Turn(r), {} \cup {})
      BY <1>1, <2>2, <2>4, <3>1, FlowsOn
    <3> QED
      BY <3>1, <3>2
  <2>6. Settled(Turn(r)) \/ Len(Turn(r).waiters) = N - n
    BY <2>2, <2>4
  <2>7. Ok(n)
    BY <2>3, <2>4, <2>5, <2>6
  <2> QED
    BY <2>7
<1>12. Ok(N)
  <2> HIDE DEF Ok
  <2>1. N \in S
    <3> HIDE DEF S
    <3>1. \A n \in 0 .. N : n \in S
      BY <1>10, <1>11, UpTo
    <3> QED
      BY <3>1
  <2> QED
    BY <2>1
<1>13. Settled(u[N])
  <2> SUFFICES ASSUME Len(u[N].waiters) = N - N PROVE Settled(u[N])
    BY <1>12
  <2>1. u[N].waiters \in Seq(Leases)
    BY <1>12, QuotaFields DEF QuotaSound
  <2>2. u[N].waiters = <<>>
    BY <2>1
  <2> QED
    BY <2>2 DEF Settled
<1> QED
  BY <1>8, <1>12, <1>13

\* A lease nobody waits on is dropped.
LEMMA DropSound ==
  ASSUME NEW s, QuotaSound(s), Settled(s), NEW l \in Leases, l \notin InQueue(s)
  PROVE  /\ DropLease(s, l) \in Quota /\ QuotaSound(DropLease(s, l)) /\ Settled(DropLease(s, l))
         /\ Flows(s, DropLease(s, l), {l})
<1>1. s \in Quota /\ s.amount[l] \in Int /\ (s.amount[l] # Closed <=> s.amount[l] >= 0) /\ s.reserved \in Int
  BY QuotaFields DEF QuotaSound
<1>2. CASE s.amount[l] > 0
  <2>1. PICK n, t : n = -s.amount[l] /\ t = Add(s, l, n) /\ ReleaseLocked(s, l, s.amount[l]) = t
    BY DEF ReleaseLocked
  <2>2. Added(s, t, l, n)
    <3>1. n \in Int /\ s.amount[l] # Closed /\ s.amount[l] + n >= 0
      BY <1>1, <1>2, <2>1
    <3>2. s.reserved <= Limit
      BY DEF QuotaSound, Books
    <3>3. s.reserved + n <= Limit
      BY <1>1, <1>2, <2>1, <3>2, QuotaConstants
    <3> QED
      BY <2>1, <3>1, <3>3, AddSound
  <2>3. /\ t \in Quota /\ QuotaSound(t) /\ InQueue(t) = InQueue(s) /\ t.granted = s.granted
        /\ t.amount[l] = 0 /\ \A x \in Leases : x # l => t.amount[x] = s.amount[x]
        /\ \A o \in Ops : t.tx[o] = Closed <=> s.tx[o] = Closed
    <3>1. s.amount \in [Leases -> Nat \cup {Closed}] /\ t.amount = [s.amount EXCEPT ![l] = s.amount[l] + n]
      BY <1>1, <2>2, QuotaFields DEF Added
    <3>2. s.amount[l] + n = 0
      BY <1>1, <2>1
    <3>3. t.amount[l] = 0 /\ \A x \in Leases : x # l => t.amount[x] = s.amount[x]
      BY <3>1, <3>2
    <3> QED
      BY <2>2, <3>3 DEF Added, InQueue
  <2>4. PICK w : w = Wake(t)
    OBVIOUS
  <2>5. w \in Quota /\ QuotaSound(w) /\ Flows(t, w, {}) /\ Settled(w)
    BY <2>3, <2>4, WakeSound DEF QuotaSound
  <2>6. w.amount[l] = 0 /\ l \notin InQueue(w)
    BY <2>3, <2>5 DEF Flows, Kept
  <2>7. PICK r \in Quota : /\ [w EXCEPT !.amount[l] = Closed] = r /\ QuotaSound(r) /\ Flows(w, r, {l})
                           /\ Settled(w) => Settled(r)
    BY <2>5, <2>6, CloseSound
  <2>8. DropLease(s, l) = r
    BY <1>2, <2>1, <2>4, <2>7 DEF DropLease
  <2>9. Flows(t, r, {l})
    <3>1. {} \cup {l} = {l} /\ {} \in SUBSET Leases /\ {l} \in SUBSET Leases
      OBVIOUS
    <3>2. Flows(t, r, {} \cup {l})
      BY <2>3, <2>5, <2>7, <3>1, FlowsOn
    <3> QED
      BY <3>1, <3>2
  <2>10. \A x \in Leases \ {l} : Kept(s, r, x)
    BY <2>3, <2>9 DEF Flows, Kept
  <2>11. Flows(s, r, {l})
    BY <2>3, <2>9, <2>10 DEF Flows
  <2> QED
    BY <2>5, <2>7, <2>8, <2>11
<1>3. CASE ~(s.amount[l] > 0)
  <2>1. s.amount[l] \in {0, Closed}
    BY <1>1, <1>3
  <2>2. PICK r \in Quota : /\ [s EXCEPT !.amount[l] = Closed] = r /\ QuotaSound(r) /\ Flows(s, r, {l})
                           /\ Settled(s) => Settled(r)
    BY <2>1, CloseSound
  <2>3. DropLease(s, l) = r
    BY <1>3, <2>2 DEF DropLease
  <2> QED
    BY <2>2, <2>3
<1> QED
  BY <1>2, <1>3

\* Several leases nobody waits on are dropped.
LEMMA DropsSound ==
  ASSUME NEW s, QuotaSound(s), Settled(s), NEW ls \in SUBSET Leases, ls \cap InQueue(s) = {}
  PROVE  /\ DropLeases(s, ls) \in Quota /\ QuotaSound(DropLeases(s, ls)) /\ Settled(DropLeases(s, ls))
         /\ Flows(s, DropLeases(s, ls), ls)
<1> DEFINE Q == {r \in Quota : QuotaSound(r) /\ Settled(r) /\ ls \cap InQueue(r) = {}}
           Step(n, r) == IF Order[n] \in ls THEN DropLease(r, Order[n]) ELSE r
<1>1. s \in Q /\ s \in Quota
  BY DEF QuotaSound
<1>2. /\ Count \in Nat /\ \A n \in 1 .. Count : Order[n] \in Leases
      /\ \A l \in Leases : \E n \in 1 .. Count : Order[n] = l
  BY LeasesOrdered
<1>3. ASSUME NEW n \in 1 .. Count, NEW r \in Q
      PROVE  Step(n, r) \in Q /\ Flows(r, Step(n, r), IF Order[n] \in ls THEN {Order[n]} ELSE {})
  <2>1. CASE Order[n] \in ls
    <3>1. PICK l \in Leases : l = Order[n] /\ l \in ls /\ l \notin InQueue(r)
      BY <1>2, <2>1
    <3>2. /\ DropLease(r, l) \in Quota /\ QuotaSound(DropLease(r, l)) /\ Settled(DropLease(r, l))
          /\ Flows(r, DropLease(r, l), {l})
      BY <3>1, DropSound
    <3>3. InQueue(DropLease(r, l)) \subseteq InQueue(r)
      BY <3>2 DEF Flows
    <3> QED
      BY <2>1, <3>1, <3>2, <3>3
  <2>2. CASE Order[n] \notin ls
    BY <2>2, FlowsSelf
  <2> QED
    BY <2>1, <2>2
<1> DEFINE G == [n \in 1 .. Count |-> [r \in Q |-> Step(n, r)]]
<1>4. G \in Steps(Count, Q)
  <2>1. \A n \in 1 .. Count, r \in Q : Step(n, r) \in Q
    BY <1>3
  <2> HIDE DEF Q, Step
  <2> QED
    BY <2>1 DEF Steps
<1>5. PICK g : Walk(g, Count, Q, s, G)
  <2> HIDE DEF Q, G
  <2> QED
    BY <1>1, <1>2, <1>4, Iterates, Zenon
<1>6. /\ g \in [0 .. Count -> Q] /\ g[0] = s /\ \A n \in 1 .. Count : g[n] = Step(n, g[n - 1])
  <2> HIDE DEF Step
  <2>1. g \in [0 .. Count -> Q] /\ g[0] = s /\ \A n \in 1 .. Count : g[n] = G[n][g[n - 1]]
    BY <1>5 DEF Walk
  <2> HIDE DEF Q
  <2>2. ASSUME NEW n \in 1 .. Count PROVE g[n] = Step(n, g[n - 1])
    <3>1. n - 1 \in 0 .. Count
      BY <1>2
    <3>2. g[n - 1] \in Q
      BY <2>1, <3>1
    <3> QED
      BY <2>1, <3>2
  <2> QED
    BY <2>1, <2>2
<1> HIDE DEF G
<1> DEFINE After(f) == f = [n \in 0 .. Count |->
                              IF n = 0 THEN s
                              ELSE IF Order[n] \in ls THEN DropLease(f[n - 1], Order[n]) ELSE f[n - 1]]
<1>7. After(g)
  <2> HIDE DEF Q
  <2>1. \A n \in 0 .. Count : n # 0 => n \in 1 .. Count
    BY <1>2
  <2>2. \A n \in 0 .. Count : g[n] = IF n = 0 THEN s
                              ELSE IF Order[n] \in ls THEN DropLease(g[n - 1], Order[n]) ELSE g[n - 1]
    BY <1>6, <2>1
  <2> QED
    BY <1>6, <2>2
<1> DEFINE u == CHOOSE f : After(f)
<1>8. After(u)
  BY <1>7, Zenon
<1>9. DropLeases(s, ls) = u[Count]
  BY DEF DropLeases
<1> HIDE DEF u
<1>10. u[0] = s /\ \A n \in 1 .. Count : u[n] = Step(n, u[n - 1])
  <2>1. 0 \in 0 .. Count /\ \A n \in 1 .. Count : n \in 0 .. Count /\ n # 0
    BY <1>2
  <2> QED
    BY <1>8, <2>1, Zenon
<1> HIDE DEF After, Step
<1> DEFINE Gone(n) == {l \in ls : \E m \in 1 .. n : Order[m] = l}
           S == {n \in 0 .. Count : u[n] \in Q /\ Flows(s, u[n], Gone(n))}
<1>11. 0 \in S
  <2>1. Gone(0) = {}
    OBVIOUS
  <2>2. 0 \in 0 .. Count
    BY <1>2
  <2> HIDE DEF Gone, Q
  <2> QED
    BY <1>1, <1>10, <2>1, <2>2, FlowsSelf
<1>12. ASSUME NEW n \in 1 .. Count, n - 1 \in S PROVE n \in S
  <2>1. PICK r, t, ms : r = u[n - 1] /\ t = u[n] /\ ms = IF Order[n] \in ls THEN {Order[n]} ELSE {}
    OBVIOUS
  <2>2. r \in Q /\ Flows(s, r, Gone(n - 1))
    BY <1>12, <2>1
  <2>3. t \in Q /\ Flows(r, t, ms)
    BY <1>3, <1>10, <2>1, <2>2
  <2>4. Gone(n) = Gone(n - 1) \cup ms
    <3>1. 1 .. n = (1 .. n - 1) \cup {n}
      OBVIOUS
    <3> QED
      BY <2>1, <3>1
  <2>5. Gone(n - 1) \in SUBSET Leases /\ ms \in SUBSET Leases /\ n \in 0 .. Count
    BY <1>2, <2>1
  <2>6. Flows(s, t, Gone(n - 1) \cup ms)
    <3>1. r \in Quota /\ t \in Quota
      BY <2>2, <2>3
    <3> HIDE DEF Gone, Q
    <3> QED
      BY <1>1, <2>2, <2>3, <2>5, <3>1, FlowsOn
  <2> HIDE DEF Gone, Q
  <2> QED
    BY <2>1, <2>3, <2>4, <2>5, <2>6
<1>13. Count \in S
  <2> HIDE DEF S
  <2>1. \A n \in 0 .. Count : n \in S
    BY <1>2, <1>11, <1>12, UpTo
  <2> QED
    BY <1>2, <2>1
<1>14. Gone(Count) = ls
  BY <1>2
<1> QED
  BY <1>9, <1>13, <1>14

\* A waiter leaves the queue from its place.
LEMMA LeaveSound ==
  ASSUME NEW w \in Seq(Leases), NEW l, Contains(w, l),
         \A i, j \in 1 .. Len(w) : w[i] = w[j] => i = j
  PROVE  /\ Leave(w, l) \in Seq(Leases)
         /\ \A i, j \in 1 .. Len(Leave(w, l)) : Leave(w, l)[i] = Leave(w, l)[j] => i = j
         /\ \A i \in 1 .. Len(Leave(w, l)) : /\ Leave(w, l)[i] # l
                                             /\ \E j \in 1 .. Len(w) : w[j] = Leave(w, l)[i]
<1>1. PICK k : k = CHOOSE i \in 1 .. Len(w) : w[i] = l
  OBVIOUS
<1>2. k \in 1 .. Len(w) /\ w[k] = l
  BY <1>1 DEF Contains
<1>3. Len(w) \in Nat /\ k \in Nat
  BY <1>2
<1>4. PICK a, b : a = SubSeq(w, 1, k - 1) /\ b = SubSeq(w, k + 1, Len(w))
  OBVIOUS
<1>5. /\ a \in Seq(Leases) /\ Len(a) = k - 1 /\ \A i \in 1 .. k - 1 : a[i] = w[i]
      /\ b \in Seq(Leases) /\ Len(b) = Len(w) - k /\ \A i \in 1 .. Len(w) - k : b[i] = w[k + i]
  <2>1. a \in Seq(Leases) /\ Len(a) = k - 1 /\ \A i \in 1 .. k - 1 : a[i] = w[i]
    BY <1>2, <1>3, <1>4, SubSeqProperties
  <2>2. b \in Seq(Leases) /\ Len(b) = Len(w) - k /\ \A i \in 1 .. Len(w) - k : b[i] = w[k + i]
    BY <1>2, <1>3, <1>4, SubSeqProperties
  <2> QED
    BY <2>1, <2>2
<1>6. PICK v : v = Leave(w, l) /\ v = a \o b
  BY <1>1, <1>4 DEF Leave, RemoveAt
<1>7. v \in Seq(Leases) /\ Len(v) = Len(w) - 1
  BY <1>3, <1>5, <1>6
<1>8. \A i \in 1 .. Len(v) : \E j \in 1 .. Len(w) : v[i] = w[j] /\ j = IF i < k THEN i ELSE i + 1
  <2> SUFFICES ASSUME NEW i \in 1 .. Len(v)
               PROVE  \E j \in 1 .. Len(w) : v[i] = w[j] /\ j = IF i < k THEN i ELSE i + 1
    OBVIOUS
  <2>1. CASE i < k
    <3>1. i \in 1 .. k - 1 /\ i \in 1 .. Len(w)
      BY <1>3, <1>7, <2>1
    <3>2. v[i] = a[i]
      BY <1>5, <1>6, <3>1
    <3> QED
      BY <1>5, <2>1, <3>1, <3>2
  <2>2. CASE ~(i < k)
    <3>1. i - (k - 1) \in 1 .. Len(w) - k /\ i + 1 \in 1 .. Len(w) /\ k + (i - (k - 1)) = i + 1
      BY <1>2, <1>3, <1>7, <2>2
    <3>2. v[i] = b[i - (k - 1)]
      BY <1>3, <1>5, <1>6, <1>7, <2>2
    <3>3. v[i] = w[i + 1]
      BY <1>5, <3>1, <3>2
    <3> QED
      BY <2>2, <3>1, <3>3
  <2> QED
    BY <2>1, <2>2
<1>9. \A i, j \in 1 .. Len(v) : v[i] = v[j] => i = j
  <2> SUFFICES ASSUME NEW i \in 1 .. Len(v), NEW j \in 1 .. Len(v), v[i] = v[j] PROVE i = j
    OBVIOUS
  <2>1. PICK m \in 1 .. Len(w) : v[i] = w[m] /\ m = IF i < k THEN i ELSE i + 1
    BY <1>8
  <2>2. PICK n \in 1 .. Len(w) : v[j] = w[n] /\ n = IF j < k THEN j ELSE j + 1
    BY <1>8
  <2>3. m = n
    BY <2>1, <2>2
  <2> QED
    BY <1>3, <1>7, <2>1, <2>2, <2>3
<1>10. ASSUME NEW i \in 1 .. Len(v) PROVE v[i] # l /\ \E j \in 1 .. Len(w) : w[j] = v[i]
  <2>1. PICK m \in 1 .. Len(w) : v[i] = w[m] /\ m = IF i < k THEN i ELSE i + 1
    BY <1>8
  <2>2. m # k
    BY <1>3, <1>7, <2>1
  <2> QED
    BY <1>2, <2>1, <2>2
<1> QED
  BY <1>6, <1>7, <1>9, <1>10

\* Lease l has given up: it is nowhere in the queue and what it was granted is back.
Left(s, r, l) ==
  /\ r \in Quota /\ QuotaSound(r) /\ Settled(r)
  /\ InQueue(r) \subseteq InQueue(s) \ {l}
  /\ \A x \in Leases \ {l} : Kept(s, r, x)
  /\ r.amount[l] = s.amount[l] - (IF l \in s.granted THEN Ask[l] ELSE 0)
  /\ \A o \in Ops : r.tx[o] = Closed <=> s.tx[o] = Closed

\* From a state that differs from s only in what l had, waking the others.
LEMMA LeftWake ==
  ASSUME NEW s \in Quota, NEW t, QuotaSound(t), NEW l \in Leases, InQueue(t) \subseteq InQueue(s) \ {l},
         t.granted \subseteq s.granted,
         \A x \in Leases \ {l} : t.amount[x] = s.amount[x],
         t.amount[l] = s.amount[l] - (IF l \in s.granted THEN Ask[l] ELSE 0),
         \A o \in Ops : t.tx[o] = Closed <=> s.tx[o] = Closed
  PROVE  Left(s, Wake(t), l)
<1>1. PICK r : r = Wake(t)
  OBVIOUS
<1>2. r \in Quota /\ QuotaSound(r) /\ Settled(r) /\ Flows(t, r, {})
  BY <1>1, WakeSound DEF QuotaSound
<1>3. InQueue(r) \subseteq InQueue(t) /\ (\A x \in Leases : Kept(t, r, x))
      /\ \A o \in Ops : r.tx[o] = Closed <=> t.tx[o] = Closed
  BY <1>2 DEF Flows
<1>4. \A x \in Leases \ {l} : Kept(s, r, x)
  BY <1>3 DEF Kept
<1>5. r.amount[l] = t.amount[l]
  BY <1>3 DEF Kept
<1> QED
  BY <1>1, <1>2, <1>3, <1>4, <1>5 DEF Left

LEMMA AbandonSound ==
  ASSUME NEW s, QuotaSound(s), Settled(s), NEW l \in Leases, s.amount[l] # Closed,
         l \in s.granted => s.amount[l] >= Ask[l]
  PROVE  Left(s, Abandon(s, l), l)
<1>1. s \in Quota /\ Queue(s)
  BY DEF QuotaSound
<1>2. /\ s.reserved \in Int /\ s.tx \in [Ops -> Int] /\ s.amount \in [Leases -> Nat \cup {Closed}]
      /\ s.waiters \in Seq(Leases) /\ s.granted \in SUBSET Leases /\ s.refused \in SUBSET Leases
      /\ \A x \in Leases : s.amount[x] \in Int /\ (s.amount[x] # Closed <=> s.amount[x] >= 0)
  BY <1>1, QuotaFields
<1>3. PICK g, f, told : /\ g = s.granted \ {l} /\ f = s.refused \ {l} /\ told = Requeued(s, s.waiters, g, f)
                        /\ told = Forget(s, l)
  BY <1>1, ForgetExcept, Zenon
<1>4. /\ told.reserved = s.reserved /\ told.tx = s.tx /\ told.amount = s.amount
      /\ told.waiters = s.waiters /\ told.granted = g /\ told.refused = f
  BY <1>3 DEF Requeued
<1>5. told \in Quota /\ QuotaSound(told)
  <2>1. Fit(s.waiters, g, f)
    BY <1>1, <1>2, <1>3 DEF Fit, Queue
  <2> QED
    BY <1>3, <2>1, RequeueSound
<1>7. CASE Waits(s, l)
  <2>1. PICK v, t : /\ v = Leave(s.waiters, l) /\ t = Requeued(told, v, g, f)
                    /\ t = [told EXCEPT !.waiters = Leave(told.waiters, l)]
    <3>1. [told EXCEPT !.waiters = Leave(s.waiters, l)] = Requeued(told, Leave(s.waiters, l), g, f)
      BY <1>4, <1>5, WaitersExcept
    <3> QED
      BY <1>4, <3>1
  <2>2. /\ v \in Seq(Leases) /\ \A i, j \in 1 .. Len(v) : v[i] = v[j] => i = j
        /\ \A i \in 1 .. Len(v) : v[i] # l /\ \E j \in 1 .. Len(s.waiters) : s.waiters[j] = v[i]
    <3>1. Contains(s.waiters, l) /\ \A i, j \in 1 .. Len(s.waiters) : s.waiters[i] = s.waiters[j] => i = j
      BY <1>1, <1>7 DEF Waits, Queue
    <3>2. s.waiters \in Seq(Leases)
      BY <1>2
    <3>3. /\ Leave(s.waiters, l) \in Seq(Leases)
          /\ \A i, j \in 1 .. Len(Leave(s.waiters, l)) :
               Leave(s.waiters, l)[i] = Leave(s.waiters, l)[j] => i = j
          /\ \A i \in 1 .. Len(Leave(s.waiters, l)) :
               /\ Leave(s.waiters, l)[i] # l
               /\ \E j \in 1 .. Len(s.waiters) : s.waiters[j] = Leave(s.waiters, l)[i]
      BY <3>1, <3>2, LeaveSound, Zenon
    <3> QED
      BY <2>1, <3>3, Zenon
  <2>3. l \notin s.granted
    BY <1>1, <1>7 DEF Waits, Contains, Queue
  <2>4. Fit(v, g, f)
    BY <1>1, <1>2, <1>3, <2>2 DEF Fit, Queue
  <2>5. QuotaSound(t)
    <3>1. QuotaSound(told) /\ t = Requeued(told, v, g, f)
      BY <1>5, <2>1
    <3> QED
      BY <2>4, <3>1, RequeueSound, Zenon
  <2>6. /\ t.tx = s.tx /\ t.amount = s.amount /\ t.waiters = v /\ t.granted = g /\ t.refused = f
    BY <1>4, <2>1 DEF Requeued
  <2>7. InQueue(t) \subseteq InQueue(s) \ {l}
    BY <1>3, <2>2, <2>6 DEF InQueue
  <2>8. t.amount[l] = s.amount[l] - (IF l \in s.granted THEN Ask[l] ELSE 0)
    BY <1>2, <2>3, <2>6
  <2>9. Left(s, Wake(t), l)
    BY <1>1, <1>3, <2>5, <2>6, <2>7, <2>8, LeftWake
  <2> QED
    BY <1>3, <1>7, <2>1, <2>9 DEF Abandon
<1>8. CASE ~Waits(s, l)
  <2>1. \A i \in 1 .. Len(s.waiters) : s.waiters[i] # l
    BY <1>8 DEF Waits, Contains
  <2>2. InQueue(told) \subseteq InQueue(s) \ {l}
    BY <1>3, <1>4, <2>1 DEF InQueue
  <2>3. CASE l \in s.granted
    <3>1. PICK n, t : n = -Ask[l] /\ t = Add(told, l, n) /\ ReleaseLocked(told, l, Ask[l]) = t
      BY DEF ReleaseLocked
    <3>2. Added(told, t, l, n)
      <4>1. Ask[l] \in Nat /\ s.amount[l] >= Ask[l] /\ s.reserved <= Limit
        BY <2>3, Asks DEF QuotaSound, Books
      <4>2. n \in Int /\ told.amount[l] # Closed /\ told.amount[l] + n >= 0
        BY <1>2, <1>4, <3>1, <4>1
      <4>3. told.reserved + n <= Limit
        BY <1>2, <1>4, <3>1, <4>1, QuotaConstants
      <4> QED
        BY <1>5, <3>1, <4>2, <4>3, AddSound
    <3>3. t.amount = [s.amount EXCEPT ![l] = s.amount[l] + n] /\ QuotaSound(t)
          /\ InQueue(t) = InQueue(told) /\ t.granted = g
          /\ \A o \in Ops : t.tx[o] = Closed <=> s.tx[o] = Closed
      BY <1>4, <3>2 DEF Added, InQueue
    <3>4. \A x \in Leases \ {l} : t.amount[x] = s.amount[x]
      BY <1>2, <3>3
    <3>5. t.amount[l] = s.amount[l] - (IF l \in s.granted THEN Ask[l] ELSE 0)
      <4>1. s.amount[l] + n = s.amount[l] - Ask[l]
        BY <1>2, <3>1, Asks
      <4> QED
        BY <1>2, <2>3, <3>3, <4>1
    <3>6. t.granted \subseteq s.granted
      BY <1>3, <3>3
    <3>7. Left(s, Wake(t), l)
      BY <1>1, <2>2, <3>3, <3>4, <3>5, <3>6, LeftWake
    <3> QED
      BY <1>3, <1>8, <2>3, <3>1, <3>7 DEF Abandon
  <2>4. CASE l \notin s.granted
    <3>1. ASSUME NEW x \in Leases PROVE Kept(s, told, x)
      <4>1. told.amount[x] = s.amount[x] /\ s.amount[x] \in Int
        BY <1>2, <1>4
      <4>2. x \in told.granted => x \in s.granted
        BY <1>3, <1>4
      <4> QED
        BY <4>1, <4>2 DEF Kept
    <3>2. Settled(told)
      BY <1>4 DEF Settled, CanGrant
    <3>3. told.amount[l] = s.amount[l] - (IF l \in s.granted THEN Ask[l] ELSE 0)
      BY <1>2, <1>4, <2>4
    <3>4. Left(s, told, l)
      BY <1>4, <1>5, <2>2, <3>1, <3>2, <3>3 DEF Left
    <3> QED
      BY <1>3, <1>8, <2>4, <3>4 DEF Abandon
  <2> QED
    BY <2>3, <2>4
<1> QED
  BY <1>7, <1>8

LEMMA GrantSound ==
  ASSUME NEW s, QuotaSound(s), NEW l \in Leases, s.amount[l] # Closed, AtOnce(s, l)
  PROVE  Added(s, Grant(s, l), l, Ask[l]) /\ Settled(Grant(s, l))
<1>1. Ask[l] \in Int /\ Ask[l] >= 0 /\ s.amount[l] \in Int /\ s.amount[l] >= 0
  BY Asks, QuotaFields DEF QuotaSound
<1>2. Added(s, Grant(s, l), l, Ask[l])
  <2>1. s.amount[l] + Ask[l] >= 0 /\ s.reserved + Ask[l] <= Limit
    BY <1>1 DEF AtOnce, CanGrant
  <2> QED
    BY <1>1, <2>1, AddSound DEF Grant
<1>3. Settled(Grant(s, l))
  BY <1>2 DEF Settled, Added, AtOnce
<1> QED
  BY <1>2, <1>3

LEMMA EnqueueSound ==
  ASSUME NEW s, QuotaSound(s), Settled(s), NEW l \in Leases, ~AtOnce(s, l), l \notin InQueue(s)
  PROVE  LET r == Enqueue(s, l) IN
         /\ r \in Quota /\ QuotaSound(r) /\ Settled(r) /\ r.amount = s.amount /\ r.tx = s.tx
         /\ r.granted = s.granted /\ InQueue(r) \subseteq InQueue(s) \cup {l}
<1>1. s \in Quota /\ Queue(s) /\ s.waiters \in Seq(Leases) /\ s.granted \in SUBSET Leases /\ s.refused \in SUBSET Leases
  BY QuotaFields DEF QuotaSound
<1>2. PICK w, r : w = Append(s.waiters, l) /\ r = Requeued(s, w, s.granted, s.refused)
  OBVIOUS
<1>3. Enqueue(s, l) = r
  BY <1>1, <1>2, WaitersExcept DEF Enqueue
<1>4. /\ w \in Seq(Leases) /\ Len(w) = Len(s.waiters) + 1 /\ w[Len(w)] = l /\ Len(s.waiters) \in Nat
      /\ \A i \in 1 .. Len(s.waiters) : w[i] = s.waiters[i]
  BY <1>1, <1>2
<1>5. \A i \in 1 .. Len(w) : i = Len(w) \/ i \in 1 .. Len(s.waiters)
  BY <1>4
<1>6. \A i \in 1 .. Len(s.waiters) : s.waiters[i] # l
  BY DEF InQueue
<1>7. Fit(w, s.granted, s.refused)
  <2>1. \A i, j \in 1 .. Len(w) : w[i] = w[j] => i = j
    BY <1>1, <1>4, <1>5, <1>6 DEF Queue
  <2>2. \A i \in 1 .. Len(w) : w[i] \notin s.granted \cup s.refused
    BY <1>1, <1>4, <1>5 DEF Queue, InQueue
  <2> QED
    BY <1>1, <1>4, <2>1, <2>2 DEF Fit, Queue
<1>8. r \in Quota /\ QuotaSound(r)
  BY <1>2, <1>7, RequeueSound
<1>9. /\ r.reserved = s.reserved /\ r.tx = s.tx /\ r.amount = s.amount
      /\ r.waiters = w /\ r.granted = s.granted /\ r.refused = s.refused
  BY <1>2 DEF Requeued
<1>10. InQueue(r) \subseteq InQueue(s) \cup {l}
  BY <1>4, <1>5, <1>9 DEF InQueue
<1>11. Settled(r)
  <2>1. CASE s.waiters = <<>>
    <3>1. Head(w) = l /\ ~CanGrant(s, l)
      BY <1>2, <2>1 DEF AtOnce
    <3> QED
      BY <1>9, <3>1 DEF Settled, CanGrant
  <2>2. CASE s.waiters # <<>>
    <3>1. Head(w) = Head(s.waiters)
      BY <1>1, <1>4, <2>2
    <3> QED
      BY <1>9, <2>2, <3>1 DEF Settled, CanGrant
  <2> QED
    BY <2>1, <2>2
<1> QED
  BY <1>3, <1>8, <1>9, <1>10, <1>11

\* A granted waiter goes on.
LEMMA AckSound ==
  ASSUME NEW s, QuotaSound(s), NEW l
  PROVE  LET r == [s EXCEPT !.granted = s.granted \ {l}] IN
         /\ r \in Quota /\ QuotaSound(r) /\ (Settled(s) => Settled(r)) /\ r.amount = s.amount /\ r.tx = s.tx
         /\ r.granted = s.granted \ {l} /\ InQueue(r) \subseteq InQueue(s)
         /\ l \in s.granted => l \notin InQueue(r)
<1>1. s \in Quota /\ Queue(s) /\ s.waiters \in Seq(Leases) /\ s.granted \in SUBSET Leases /\ s.refused \in SUBSET Leases
  BY QuotaFields DEF QuotaSound
<1>2. PICK g, r : g = s.granted \ {l} /\ r = Requeued(s, s.waiters, g, s.refused)
  OBVIOUS
<1>3. [s EXCEPT !.granted = s.granted \ {l}] = r
  <2>1. [s EXCEPT !.granted = g] = r
    BY <1>1, <1>2, GrantedExcept, Zenon
  <2> QED
    BY <1>2, <2>1
<1>4. Fit(s.waiters, g, s.refused)
  BY <1>1, <1>2 DEF Fit, Queue
<1>5. r \in Quota /\ QuotaSound(r)
  BY <1>2, <1>4, RequeueSound
<1>6. /\ r.reserved = s.reserved /\ r.tx = s.tx /\ r.amount = s.amount
      /\ r.waiters = s.waiters /\ r.granted = g /\ r.refused = s.refused
  BY <1>2 DEF Requeued
<1>7. Settled(s) => Settled(r)
  BY <1>6 DEF Settled, CanGrant
<1>8. InQueue(r) \subseteq InQueue(s)
  BY <1>2, <1>6 DEF InQueue
<1>9. l \in s.granted => l \notin InQueue(r)
  <2>1. l \in s.granted => l \notin s.refused /\ \A i \in 1 .. Len(s.waiters) : s.waiters[i] # l
    BY <1>1 DEF Queue
  <2> QED
    BY <1>2, <1>6, <2>1 DEF InQueue
<1> QED
  BY <1>2, <1>3, <1>5, <1>6, <1>7, <1>8, <1>9

\* A lease is registered in an open transaction.
LEMMA RegisterSound ==
  ASSUME NEW s, QuotaSound(s), NEW l \in Leases, s.amount[l] = Closed, s.tx[OpOf[l]] # Closed
  PROVE  LET r == RegisterReservation(s, l) IN
         /\ r \in Quota /\ QuotaSound(r) /\ (Settled(s) => Settled(r)) /\ r.tx = s.tx
         /\ r.amount = [s.amount EXCEPT ![l] = 0] /\ r.granted = s.granted /\ InQueue(r) = InQueue(s)
<1>1. PICK r : r = RegisterReservation(s, l)
  OBVIOUS
<1>2. s \in Quota
  BY DEF QuotaSound
<1>3. /\ s.reserved \in Int /\ s.tx \in [Ops -> Int] /\ s.amount \in [Leases -> Nat \cup {Closed}]
      /\ s.waiters \in Seq(Leases) /\ s.granted \in SUBSET Leases /\ s.refused \in SUBSET Leases
  BY <1>2, QuotaFields
<1>4. r = [reserved |-> s.reserved, tx |-> s.tx, amount |-> [s.amount EXCEPT ![l] = 0],
           waiters |-> s.waiters, granted |-> s.granted, refused |-> s.refused]
  BY <1>1, <1>2 DEF Quota, RegisterReservation
<1>5. /\ r.reserved = s.reserved /\ r.tx = s.tx /\ r.amount = [s.amount EXCEPT ![l] = 0]
      /\ r.waiters = s.waiters /\ r.granted = s.granted /\ r.refused = s.refused
  BY <1>4
<1>6. r.amount \in [Leases -> Nat \cup {Closed}]
  BY <1>3, <1>5
<1>7. r \in Quota
  BY <1>3, <1>4, <1>5, <1>6 DEF Quota
<1>8. r.amount[l] = 0 /\ \A x \in Leases : x # l => r.amount[x] = s.amount[x]
  BY <1>3, <1>5
<1>9. \A x \in Leases : Held(r, x) = Held(s, x)
  BY <1>8 DEF Held, Closed
<1>10. \A ls : HeldBy(r, ls) = HeldBy(s, ls)
  BY <1>2, <1>7, <1>9, HeldSame
<1>11. Books(r)
  BY <1>5, <1>8, <1>10 DEF QuotaSound, Books
<1>12. Queue(r) /\ InQueue(r) = InQueue(s)
  BY <1>5 DEF QuotaSound, Queue, InQueue
<1>13. Settled(s) => Settled(r)
  BY <1>5 DEF Settled, CanGrant
<1> QED
  BY <1>1, <1>5, <1>7, <1>11, <1>12, <1>13 DEF QuotaSound

\* A transaction is opened.
LEMMA OpenSound ==
  ASSUME NEW s, QuotaSound(s), NEW o \in Ops, s.tx[o] = Closed
  PROVE  LET r == RegisterTransaction(s, o) IN
         /\ r \in Quota /\ QuotaSound(r) /\ (Settled(s) => Settled(r)) /\ r.amount = s.amount
         /\ r.granted = s.granted /\ InQueue(r) = InQueue(s)
         /\ r.tx[o] # Closed /\ \A x \in Ops : x # o => r.tx[x] = s.tx[x]
<1>1. PICK r : r = RegisterTransaction(s, o)
  OBVIOUS
<1>2. s \in Quota
  BY DEF QuotaSound
<1>3. /\ s.reserved \in Int /\ s.tx \in [Ops -> Int] /\ s.amount \in [Leases -> Nat \cup {Closed}]
      /\ s.waiters \in Seq(Leases) /\ s.granted \in SUBSET Leases /\ s.refused \in SUBSET Leases
  BY <1>2, QuotaFields
<1>4. r = [reserved |-> s.reserved, tx |-> [s.tx EXCEPT ![o] = 0], amount |-> s.amount,
           waiters |-> s.waiters, granted |-> s.granted, refused |-> s.refused]
  BY <1>1, <1>2 DEF Quota, RegisterTransaction
<1>5. /\ r.reserved = s.reserved /\ r.tx = [s.tx EXCEPT ![o] = 0] /\ r.amount = s.amount
      /\ r.waiters = s.waiters /\ r.granted = s.granted /\ r.refused = s.refused
  BY <1>4
<1>6. r.tx \in [Ops -> Int]
  BY <1>3, <1>5
<1>7. r \in Quota
  BY <1>3, <1>4, <1>5, <1>6 DEF Quota
<1>8. r.tx[o] = 0 /\ r.tx[o] # Closed /\ \A x \in Ops : x # o => r.tx[x] = s.tx[x]
  BY <1>3, <1>5 DEF Closed
<1>9. \A ls : HeldBy(r, ls) = HeldBy(s, ls)
  <2>1. \A x \in Leases : Held(r, x) = Held(s, x)
    BY <1>5 DEF Held
  <2> QED
    BY <1>2, <1>7, <2>1, HeldSame
<1>10. HeldBy(s, LeasesOf(o)) = 0
  <2>1. \A l \in Leases : l \in LeasesOf(o) => s.amount[l] = Closed
    BY DEF LeasesOf, QuotaSound, Books
  <2> QED
    BY <1>2, <2>1, HeldNone
<1>11. Books(r)
  <2>1. r.reserved = HeldBy(r, Leases) /\ r.reserved <= Limit
    BY <1>5, <1>9 DEF QuotaSound, Books
  <2>2. \A x \in Ops : r.tx[x] # Closed => r.tx[x] = HeldBy(r, LeasesOf(x))
    BY <1>8, <1>9, <1>10 DEF QuotaSound, Books
  <2>3. \A l \in Leases : r.amount[l] # Closed => r.tx[OpOf[l]] # Closed
    BY <1>5, <1>8, Asks DEF QuotaSound, Books
  <2> QED
    BY <2>1, <2>2, <2>3 DEF Books
<1>12. Queue(r) /\ InQueue(r) = InQueue(s)
  BY <1>5 DEF QuotaSound, Queue, InQueue
<1>13. Settled(s) => Settled(r)
  BY <1>5 DEF Settled, CanGrant
<1> QED
  BY <1>1, <1>5, <1>7, <1>8, <1>11, <1>12, <1>13 DEF QuotaSound

\* Transactions without leases are closed.
LEMMA CloseTransactionsSound ==
  ASSUME NEW s, QuotaSound(s), NEW ops, \A l \in InQueue(s) : s.amount[l] # Closed
  PROVE  LET r == CloseTransactions(s, ops) IN
         /\ r \in Quota /\ QuotaSound(r) /\ (Settled(s) => Settled(r)) /\ r.amount = s.amount
         /\ r.granted = s.granted /\ InQueue(r) = InQueue(s)
         /\ \A o \in Ops : r.tx[o] # Closed <=>
              s.tx[o] # Closed /\ (o \in ops => \E l \in Leases : OpOf[l] = o /\ s.amount[l] # Closed)
<1>1. PICK r : r = CloseTransactions(s, ops)
  OBVIOUS
<1>2. s \in Quota
  BY DEF QuotaSound
<1>3. /\ s.reserved \in Int /\ s.tx \in [Ops -> Int] /\ s.amount \in [Leases -> Nat \cup {Closed}]
      /\ s.waiters \in Seq(Leases) /\ s.granted \in SUBSET Leases /\ s.refused \in SUBSET Leases
  BY <1>2, QuotaFields
<1>4. PICK tx : tx = [o \in Ops |-> IF o \in ops /\ Removable(s, o) THEN Closed ELSE s.tx[o]]
  OBVIOUS
<1>5. r = [reserved |-> s.reserved, tx |-> tx, amount |-> s.amount,
           waiters |-> s.waiters, granted |-> s.granted, refused |-> s.refused]
  <2>1. r = [s EXCEPT !.tx = tx]
    BY <1>1, <1>4 DEF CloseTransactions
  <2> QED
    BY <1>2, <2>1 DEF Quota
<1>6. /\ r.reserved = s.reserved /\ r.tx = tx /\ r.amount = s.amount
      /\ r.waiters = s.waiters /\ r.granted = s.granted /\ r.refused = s.refused
  BY <1>5
<1>7. tx \in [Ops -> Int]
  BY <1>3, <1>4 DEF Closed
<1>8. r \in Quota
  BY <1>3, <1>5, <1>7 DEF Quota
<1>9. \A ls : HeldBy(r, ls) = HeldBy(s, ls)
  <2>1. \A x \in Leases : Held(r, x) = Held(s, x)
    BY <1>6 DEF Held
  <2> QED
    BY <1>2, <1>8, <2>1, HeldSame
<1>10. ASSUME NEW o \in Ops, s.tx[o] # Closed
       PROVE  Removable(s, o) <=> ~\E l \in Leases : OpOf[l] = o /\ s.amount[l] # Closed
  <2>1. Removable(s, o) => ~\E l \in Leases : OpOf[l] = o /\ s.amount[l] # Closed
    BY DEF Removable
  <2>2. ASSUME \A l \in Leases : OpOf[l] = o => s.amount[l] = Closed PROVE Removable(s, o)
    <3>1. HeldBy(s, LeasesOf(o)) = 0
      BY <1>2, <2>2, HeldNone DEF LeasesOf
    <3>2. s.tx[o] = 0
      BY <1>10, <3>1 DEF QuotaSound, Books
    <3>3. \A l \in Leases : Waits(s, l) => l \in InQueue(s)
      BY DEF Waits, Contains, InQueue
    <3> QED
      BY <2>2, <3>2, <3>3 DEF Removable
  <2> QED
    BY <2>1, <2>2
<1>11. \A o \in Ops : r.tx[o] # Closed <=>
         s.tx[o] # Closed /\ (o \in ops => \E l \in Leases : OpOf[l] = o /\ s.amount[l] # Closed)
  BY <1>4, <1>6, <1>10
<1>12. \A o \in Ops : r.tx[o] = Closed \/ r.tx[o] = s.tx[o]
  BY <1>4, <1>6
<1>13. Books(r)
  <2>1. r.reserved = HeldBy(r, Leases) /\ r.reserved <= Limit
    BY <1>6, <1>9 DEF QuotaSound, Books
  <2>2. \A o \in Ops : r.tx[o] # Closed => r.tx[o] = HeldBy(r, LeasesOf(o))
    BY <1>9, <1>12 DEF QuotaSound, Books
  <2>3. ASSUME NEW l \in Leases, r.amount[l] # Closed PROVE r.tx[OpOf[l]] # Closed
    <3>1. s.amount[l] # Closed /\ s.tx[OpOf[l]] # Closed
      BY <1>6, <2>3 DEF QuotaSound, Books
    <3> QED
      BY <1>11, <3>1, Asks
  <2> QED
    BY <2>1, <2>2, <2>3 DEF Books
<1>14. Queue(r) /\ InQueue(r) = InQueue(s)
  BY <1>6 DEF QuotaSound, Queue, InQueue
<1>15. Settled(s) => Settled(r)
  BY <1>6 DEF Settled, CanGrant
<1> QED
  BY <1>1, <1>6, <1>8, <1>11, <1>13, <1>14, <1>15 DEF QuotaSound

-----------------------------------------------------------------------------
(* Artifacts: every lease in step with its file.                            *)

Writing == {"open", "wait", "write", "rename", "renamed"}
Describing == {"mwrite", "mfull", "mclean"}

DiskTypes ==
  /\ size \in [Files -> Nat] /\ DOMAIN side = Files
  /\ attached \subseteq Files /\ orphans \subseteq Leases
  /\ op \in [Ops -> {"idle", "run", "stop", "clean", "done", "failed"}]

\* Where a file, its manifest and its leases can be while its writer is at a step.
Placed(f) ==
  /\ pc[f] = "none" => size[f] = 0
  /\ f \in part => pc[f] \in {"open", "wait", "write", "rename", "dropped"}
  /\ f \in final => pc[f] \in Past \cup {"renamed", "dropped"}
  /\ side[f] # "none" => pc[f] \in {"mfull", "mclean", "mfailed", "finished"}
  /\ Data(f) \in orphans => pc[f] = "dropped"
  /\ Side(f) \in orphans => pc[f] = "mfailed"
  /\ f \in attached => pc[f] = "finished" /\ reg[f] # "no"

\* Only a lease whose writer waits is in the queue or has been told.
Queued(f) ==
  /\ Data(f) \in InQueue(q) => pc[f] = "wait"
  /\ Side(f) \in InQueue(q) => pc[f] = "mwait"

\* A writer holds what it has written, and what it was granted for the next chunk.
Holds(f) ==
  /\ pc[f] \in Writing => q.amount[Data(f)] >= size[f]
  /\ pc[f] = "write" \/ Data(f) \in q.granted => q.amount[Data(f)] >= size[f] + Ask[Data(f)]
  /\ pc[f] \in Describing \/ Side(f) \in q.granted => q.amount[Side(f)] >= Ask[Side(f)]

\* The file's part of DiskReserved, and of NothingLeaks.
Covered(f) ==
  /\ f \in (part \cup final) \ cut => q.amount[Data(f)] >= size[f]
  /\ side[f] # "none" => q.amount[Side(f)] >= Ask[Side(f)]

OwnsData(f) == Data(f) \in orphans \/ pc[f] \in Writing \/ reg[f] # "no"
OwnsSide(f) == Side(f) \in orphans \/ pc[f] \in {"mwait"} \cup Describing \/ f \in attached

Owning(f) ==
  /\ q.amount[Data(f)] # Closed <=> OwnsData(f)
  /\ q.amount[Side(f)] # Closed <=> OwnsSide(f)

FileSound(f) == Placed(f) /\ Queued(f) /\ Holds(f) /\ Covered(f) /\ Owning(f)

\* A transaction is open while its operation runs or a lease of it is left.
Open(o) == op[o] \in {"run", "stop", "clean"}

TransactionOpen(o) ==
  /\ q.tx[o] # Closed <=> Open(o) \/ \E l \in Leases : q.amount[l] # Closed /\ OpOf[l] = o
  /\ op[o] = "idle" => q.tx[o] = Closed

\* What the reclaimer has deleted stays deleted until it has unregistered it.
Deleted ==
  busy.step = "unregister" =>
    /\ busy.file \notin part \cup final
    /\ busy.file \in attached => side[busy.file] = "none"

DiskInv ==
  /\ DiskTypes /\ QuotaSound(q) /\ Settled(q)
  /\ (\A f \in Files : FileSound(f)) /\ (\A o \in Ops : TransactionOpen(o)) /\ Deleted

LEMMA LeasesOfFiles ==
  /\ \A f \in Files : Data(f) \in Leases /\ Side(f) \in Leases /\ OpOf[Data(f)] = Files2Op[f] /\ OpOf[Side(f)] = Files2Op[f]
  /\ \A f, g \in Files : Data(f) # Side(g) /\ (f # g => Data(f) # Data(g) /\ Side(f) # Side(g))
  /\ \A l \in Leases : \E f \in Files : l = Data(f) \/ l = Side(f)
<1>1. \A f \in Files : Data(f) \in Leases /\ Side(f) \in Leases /\ OpOf[Data(f)] = Files2Op[f] /\ OpOf[Side(f)] = Files2Op[f]
  BY ArtifactConstants DEF Data, Side
<1>2. \A f, g \in Files : Data(f) # Side(g) /\ (f # g => Data(f) # Data(g) /\ Side(f) # Side(g))
  BY DEF Data, Side
<1>3. \A l \in Leases : \E f \in Files : l = Data(f) \/ l = Side(f)
  BY ArtifactConstants DEF Data, Side
<1> QED
  BY <1>1, <1>2, <1>3

\* What a step leaves of file g, whose writer does not move.
DataStays(g) ==
  /\ Kept(q, q', Data(g))
  /\ reg'[g] # "no" <=> reg[g] # "no"
  /\ Data(g) \in orphans' <=> Data(g) \in orphans

DataGoes(g) ==
  /\ q'.amount[Data(g)] = Closed /\ pc[g] \notin Writing
  /\ reg'[g] = "no" /\ Data(g) \notin orphans' /\ g \notin attached'
  /\ g \in part' \cup final' => g \in cut

SideStays(g) ==
  /\ Kept(q, q', Side(g))
  /\ g \in attached' <=> g \in attached
  /\ Side(g) \in orphans' <=> Side(g) \in orphans

SideGoes(g) ==
  /\ q'.amount[Side(g)] = Closed /\ pc[g] \notin {"mwait"} \cup Describing
  /\ side'[g] = "none" /\ Side(g) \notin orphans' /\ g \notin attached'

FileStays(g) ==
  /\ pc'[g] = pc[g] /\ size'[g] = size[g] /\ side'[g] \in {"none", side[g]}
  /\ g \in part' => g \in part
  /\ g \in final' => g \in final
  /\ g \in cut => g \in cut'
  /\ InQueue(q') \cap {Data(g), Side(g)} \subseteq InQueue(q)
  /\ DataStays(g) \/ DataGoes(g)
  /\ SideStays(g) \/ SideGoes(g)

LEMMA FileAmounts ==
  ASSUME NEW s \in Quota, NEW f \in Files
  PROVE  /\ s.amount[Data(f)] \in Int /\ s.amount[Data(f)] >= -1
         /\ s.amount[Side(f)] \in Int /\ s.amount[Side(f)] >= -1
         /\ Ask[Data(f)] \in Nat \ {0} /\ Ask[Side(f)] \in Nat \ {0}
<1>1. Data(f) \in Leases /\ Side(f) \in Leases
  BY LeasesOfFiles
<1>2. s.amount \in [Leases -> Nat \cup {Closed}]
  BY QuotaFields
<1> QED
  BY <1>1, <1>2, Asks DEF Closed

LEMMA Told ==
  ASSUME NEW s, NEW l \in s.granted \cup s.refused
  PROVE  l \in InQueue(s)
BY DEF InQueue

LEMMA StaySound ==
  ASSUME DiskInv, QuotaSound(q'), NEW g \in Files, FileStays(g)
  PROVE  FileSound(g)'
<1>1. FileSound(g) /\ size[g] \in Nat
  BY DEF DiskInv, DiskTypes
<1>2. /\ q.amount[Data(g)] \in Int /\ q.amount[Data(g)] >= -1
      /\ q.amount[Side(g)] \in Int /\ q.amount[Side(g)] >= -1
      /\ q'.amount[Data(g)] \in Int /\ q'.amount[Data(g)] >= -1
      /\ q'.amount[Side(g)] \in Int /\ q'.amount[Side(g)] >= -1
      /\ Ask[Data(g)] \in Nat \ {0} /\ Ask[Side(g)] \in Nat \ {0}
  BY FileAmounts DEF DiskInv, QuotaSound
<1>3. Placed(g)'
  BY <1>1 DEF FileStays, DataStays, DataGoes, SideStays, SideGoes, FileSound, Placed, Writing
<1>4. Queued(g)'
  BY <1>1 DEF FileStays, FileSound, Queued
<1>5. Data(g) \in q'.granted => Data(g) \in InQueue(q) /\ pc[g] = "wait" /\ Data(g) \in InQueue(q')
  BY <1>1, Told DEF FileStays, FileSound, Queued
<1>6. Side(g) \in q'.granted => Side(g) \in InQueue(q) /\ pc[g] = "mwait" /\ Side(g) \in InQueue(q')
  BY <1>1, Told DEF FileStays, FileSound, Queued
<1>7. Holds(g)'
  <2>1. pc'[g] \in Writing => q'.amount[Data(g)] >= size'[g]
    BY <1>1, <1>2 DEF FileStays, FileSound, Holds, DataStays, DataGoes, Kept
  <2>2. pc'[g] = "write" \/ Data(g) \in q'.granted => q'.amount[Data(g)] >= size'[g] + Ask[Data(g)]
    BY <1>1, <1>2, <1>5 DEF FileStays, FileSound, Holds, DataStays, DataGoes, Kept, Writing
  <2>3. pc'[g] \in Describing \/ Side(g) \in q'.granted => q'.amount[Side(g)] >= Ask[Side(g)]
    <3>1. Side(g) \in q'.granted => q.amount[Side(g)] >= 0
      BY <1>1, <1>2, <1>6 DEF FileSound, Owning, OwnsSide, Closed
    <3> QED
      BY <1>1, <1>2, <1>6, <3>1 DEF FileStays, FileSound, Holds, SideStays, SideGoes, Kept
  <2> QED
    BY <2>1, <2>2, <2>3 DEF Holds
<1>8. Covered(g)'
  <2>1. g \in (part' \cup final') \ cut' => q'.amount[Data(g)] >= size'[g]
    BY <1>1, <1>2 DEF FileStays, FileSound, Covered, DataStays, DataGoes, Kept
  <2>2. side'[g] # "none" => q'.amount[Side(g)] >= Ask[Side(g)]
    BY <1>1, <1>2 DEF FileStays, FileSound, Covered, SideStays, SideGoes, Kept
  <2> QED
    BY <2>1, <2>2 DEF Covered
<1>9. Owning(g)'
  <2>1. q'.amount[Data(g)] # Closed <=> OwnsData(g)'
    BY <1>1 DEF FileStays, FileSound, Owning, DataStays, DataGoes, Kept, OwnsData
  <2>2. q'.amount[Side(g)] # Closed <=> OwnsSide(g)'
    BY <1>1 DEF FileStays, FileSound, Owning, SideStays, SideGoes, Kept, OwnsSide
  <2> QED
    BY <2>1, <2>2 DEF Owning
<1> QED
  BY <1>3, <1>4, <1>7, <1>8, <1>9 DEF FileSound

\* A step of the writer or the manifest of file f, and nothing else.
StepOf(f) ==
  /\ \A g \in Files \ {f} : /\ pc'[g] = pc[g] /\ size'[g] = size[g] /\ side'[g] = side[g] /\ reg'[g] = reg[g]
                            /\ (g \in part' => g \in part) /\ (g \in final' => g \in final)
                            /\ (g \in attached' <=> g \in attached)
                            /\ (Data(g) \in orphans' <=> Data(g) \in orphans)
                            /\ (Side(g) \in orphans' <=> Side(g) \in orphans)
  /\ cut \subseteq cut' /\ op' = op /\ busy' = busy

\* What it does to the other leases.
QuotaOf(f) ==
  /\ \A x \in Leases \ {Data(f), Side(f)} : Kept(q, q', x)
  /\ InQueue(q') \subseteq InQueue(q) \cup {Data(f), Side(f)}
  /\ \A o \in Ops : q'.tx[o] = Closed <=> q.tx[o] = Closed

LEMMA OneFile ==
  ASSUME PinInv, DiskInv, NEW f \in Files, Open(Files2Op[f]), StepOf(f), QuotaOf(f),
         DiskTypes', QuotaSound(q'), Settled(q'), FileSound(f)',
         busy.step = "unregister" /\ busy.file = f => f \notin part' \cup final' /\ f \notin attached'
  PROVE  DiskInv'
<1>1. ASSUME NEW g \in Files, g # f PROVE FileSound(g)'
  <2>1. /\ Data(g) \in Leases \ {Data(f), Side(f)} /\ Side(g) \in Leases \ {Data(f), Side(f)}
    BY <1>1, LeasesOfFiles
  <2>2. Kept(q, q', Data(g)) /\ Kept(q, q', Side(g)) /\ InQueue(q') \cap {Data(g), Side(g)} \subseteq InQueue(q)
    BY <2>1 DEF QuotaOf
  <2>3. FileStays(g)
    BY <1>1, <2>2 DEF StepOf, FileStays, DataStays, SideStays
  <2> QED
    BY <2>3, StaySound
<1>2. ASSUME NEW o \in Ops PROVE TransactionOpen(o)'
  <2>1. TransactionOpen(o) /\ op' = op /\ (q'.tx[o] = Closed <=> q.tx[o] = Closed)
    BY DEF DiskInv, StepOf, QuotaOf
  <2>2. CASE o = Files2Op[f]
    BY <2>1, <2>2 DEF TransactionOpen, Open
  <2>3. CASE o # Files2Op[f]
    <3>1. \A l \in Leases : OpOf[l] = o => l \notin {Data(f), Side(f)}
      BY <2>3, LeasesOfFiles
    <3>2. \A l \in Leases : OpOf[l] = o => (q'.amount[l] = Closed <=> q.amount[l] = Closed)
      BY <3>1 DEF QuotaOf, Kept
    <3> QED
      BY <2>1, <3>2 DEF TransactionOpen, Open
  <2> QED
    BY <2>2, <2>3
<1>3. Deleted'
  <2> SUFFICES ASSUME busy'.step = "unregister" PROVE busy'.file \notin part' \cup final' /\ (busy'.file \in attached' => side'[busy'.file] = "none")
    BY DEF Deleted
  <2>1. PICK g \in Files : busy.file = g /\ busy' = busy
    BY DEF PinInv, ReclaimQuiet, Nothing, StepOf
  <2>2. g \notin part \cup final /\ (g \in attached => side[g] = "none")
    BY <2>1 DEF DiskInv, Deleted
  <2>3. CASE g = f
    BY <2>1, <2>3
  <2>4. CASE g # f
    BY <2>1, <2>2, <2>4 DEF StepOf
  <2> QED
    BY <2>1, <2>3, <2>4
<1> QED
  BY <1>1, <1>2, <1>3 DEF DiskInv

LEMMA QuotaKept ==
  ASSUME DiskInv, q' = q, NEW f \in Files
  PROVE  QuotaOf(f) /\ QuotaSound(q') /\ Settled(q')
<1>1. q \in Quota /\ QuotaSound(q) /\ Settled(q)
  BY DEF DiskInv, QuotaSound
<1>2. Flows(q, q, {})
  BY <1>1, FlowsSelf
<1> QED
  BY <1>1, <1>2 DEF Flows, QuotaOf

\* A writer that has not renamed its file has nothing but its lease and its .part.
LEMMA Unfinished ==
  ASSUME PinInv, DiskInv, NEW f \in Files, pc[f] \in Writing
  PROVE  /\ f \notin attached /\ side[f] = "none" /\ reg[f] = "no"
         /\ Data(f) \notin orphans /\ Side(f) \notin orphans /\ Side(f) \notin InQueue(q)
         /\ q.amount[Data(f)] >= size[f] /\ q.amount[Data(f)] # Closed /\ q.amount[Side(f)] = Closed
         /\ (pc[f] # "renamed" => f \notin final) /\ (pc[f] = "renamed" => f \notin part)
         /\ Open(Files2Op[f]) /\ ~(busy.step = "unregister" /\ busy.file = f)
<1>1. FileSound(f)
  BY DEF DiskInv
<1>2. reg[f] = "no"
  BY DEF PinInv, EntriesPast, Past, Writing
<1>3. /\ f \notin attached /\ side[f] = "none" /\ Data(f) \notin orphans /\ Side(f) \notin orphans
      /\ (pc[f] # "renamed" => f \notin final) /\ (pc[f] = "renamed" => f \notin part)
  BY <1>1 DEF FileSound, Placed, Past, Writing
<1>4. Side(f) \notin InQueue(q) /\ q.amount[Data(f)] >= size[f] /\ q.amount[Data(f)] # Closed
  BY <1>1 DEF FileSound, Queued, Holds, Owning, OwnsData, Writing
<1>5. q.amount[Side(f)] = Closed
  BY <1>1, <1>3 DEF FileSound, Owning, OwnsSide, Writing, Describing
<1>6. Open(Files2Op[f])
  <2>1. ~Ended(f)
    BY DEF Ended, Writing
  <2> QED
    BY <2>1 DEF PinInv, WritersDrained, Active, Open
<1>7. ~(busy.step = "unregister" /\ busy.file = f)
  BY DEF PinInv, ReclaimQuiet, Nothing, Past, Writing
<1> QED
  BY <1>2, <1>3, <1>4, <1>5, <1>6, <1>7

\* Lease l is out of the queue, and the others live on.
Ready(s, r, l) ==
  /\ QuotaSound(r) /\ Settled(r) /\ l \notin InQueue(r) /\ InQueue(r) \subseteq InQueue(s)
  /\ \A x \in Leases \ {l} : Kept(s, r, x)
  /\ \A o \in Ops : r.tx[o] = Closed <=> s.tx[o] = Closed

LEMMA ReadySelf ==
  ASSUME DiskInv, NEW l, l \notin InQueue(q)
  PROVE  Ready(q, q, l)
<1>1. q \in Quota /\ QuotaSound(q) /\ Settled(q)
  BY DEF DiskInv, QuotaSound
<1>2. Flows(q, q, {})
  BY <1>1, FlowsSelf
<1> QED
  BY <1>1, <1>2 DEF Flows, Ready

\* A ready lease is dropped.
LEMMA ReadyDrop ==
  ASSUME DiskInv, NEW r, NEW l \in Leases, Ready(q, r, l)
  PROVE  Ready(q, DropLease(r, l), l) /\ DropLease(r, l).amount[l] = Closed
<1>1. PICK t : t = DropLease(r, l)
  OBVIOUS
<1>2. t \in Quota /\ QuotaSound(t) /\ Settled(t) /\ Flows(r, t, {l})
  BY <1>1, DropSound DEF Ready
<1>3. q \in Quota /\ r \in Quota
  BY DEF DiskInv, QuotaSound, Ready
<1>4. ASSUME NEW x \in Leases \ {l} PROVE Kept(q, t, x)
  <2>1. Kept(q, r, x) /\ Kept(r, t, x) /\ InQueue(r) \subseteq InQueue(q)
    BY <1>2 DEF Ready, Flows
  <2>2. /\ q.amount[x] \in Int /\ r.amount[x] \in Int /\ t.amount[x] \in Int /\ Ask[x] \in Int
        /\ Ask[x] >= 0
    BY <1>2, <1>3, QuotaFields, Asks DEF Closed
  <2> QED
    BY <2>1, <2>2 DEF Kept
<1>5. InQueue(t) \subseteq InQueue(q) /\ l \notin InQueue(t) /\ t.amount[l] = Closed
  BY <1>2 DEF Ready, Flows
<1>6. \A o \in Ops : t.tx[o] = Closed <=> q.tx[o] = Closed
  BY <1>2 DEF Ready, Flows
<1> QED
  BY <1>1, <1>2, <1>4, <1>5, <1>6 DEF Ready

LEMMA ReadyQuota ==
  ASSUME NEW f \in Files, NEW l \in {Data(f), Side(f)}, Ready(q, q', l)
  PROVE  QuotaOf(f) /\ QuotaSound(q') /\ Settled(q')
BY DEF Ready, QuotaOf

\* Fail: the lease goes with the file, or stays with it as an orphan.
LEMMA FailSound ==
  ASSUME PinInv, DiskInv, NEW f \in Files, pc[f] \in Writing \ {"renamed"}, NEW quota,
         Ready(q, quota, Data(f)), quota.amount[Data(f)] >= size[f], Fail(f, quota)
  PROVE  DiskInv'
<1>1. Data(f) \in Leases /\ Side(f) \in Leases /\ Data(f) # Side(f)
  BY LeasesOfFiles
<1>2. FileSound(f) /\ DiskTypes /\ DOMAIN pc = Files
  BY DEF DiskInv, PinInv, PinTypes
<1>3. pc' = [pc EXCEPT ![f] = "dropped"] /\ pc'[f] = "dropped"
      /\ UNCHANGED <<op, size, final, side, reg, pins, eligible, attached, todo, busy, cut>>
  BY <1>2 DEF Fail, DropWriter, Goto, registry, reclaim, history
<1>4. PICK removed \in BOOLEAN :
        /\ part' = IF removed THEN part \ {f} ELSE part
        /\ orphans' = IF removed \/ f \notin part THEN orphans ELSE orphans \cup {Data(f)}
        /\ q' = IF removed \/ f \notin part THEN DropLease(quota, Data(f)) ELSE quota
  BY DEF Fail, DropWriter
<1>5. \/ Ready(q, q', Data(f)) /\ q'.amount[Data(f)] = Closed /\ orphans' = orphans /\ f \notin part'
      \/ Ready(q, q', Data(f)) /\ q'.amount[Data(f)] >= size[f] /\ orphans' = orphans \cup {Data(f)} /\ part' = part
  BY <1>1, <1>4, ReadyDrop
<1>6. Ready(q, q', Data(f)) /\ part' \subseteq part
  BY <1>4, <1>5
<1>7. StepOf(f)
  <2>1. \A g \in Files \ {f} : Data(g) # Data(f) /\ Side(g) # Data(f)
    BY LeasesOfFiles
  <2> QED
    BY <1>2, <1>3, <1>5, <1>6, <2>1 DEF StepOf
<1>8. QuotaOf(f) /\ QuotaSound(q') /\ Settled(q')
  BY <1>6, ReadyQuota
<1>9. DiskTypes'
  BY <1>1, <1>2, <1>3, <1>5 DEF DiskTypes
<1>10. /\ f \notin attached /\ side[f] = "none" /\ reg[f] = "no" /\ f \notin final
       /\ Data(f) \notin orphans /\ Side(f) \notin orphans /\ Side(f) \notin InQueue(q)
       /\ q.amount[Side(f)] = Closed /\ Open(Files2Op[f]) /\ ~(busy.step = "unregister" /\ busy.file = f)
  BY Unfinished
<1>11. /\ Data(f) \notin InQueue(q') /\ Side(f) \notin InQueue(q') /\ q'.amount[Side(f)] = Closed
       /\ Data(f) \notin q'.granted /\ Side(f) \notin q'.granted
  BY <1>1, <1>6, <1>10, Told DEF Ready, Kept
<1>12. size[f] \in Nat /\ Closed = -1
  BY <1>2 DEF DiskTypes, Closed
<1>13. FileSound(f)'
  <2>1. Placed(f)'
    BY <1>1, <1>3, <1>5, <1>10 DEF Placed, Past
  <2>2. Queued(f)' /\ Holds(f)'
    BY <1>3, <1>11 DEF Queued, Holds, Writing, Describing
  <2>3. Covered(f)'
    BY <1>3, <1>5, <1>10 DEF Covered
  <2>4. Owning(f)'
    <3>1. q'.amount[Data(f)] # Closed <=> OwnsData(f)'
      BY <1>3, <1>5, <1>10, <1>12, FileAmounts, <1>8 DEF OwnsData, Writing, QuotaSound
    <3>2. q'.amount[Side(f)] # Closed <=> OwnsSide(f)'
      BY <1>1, <1>3, <1>5, <1>10, <1>11 DEF OwnsSide, Describing
    <3> QED
      BY <3>1, <3>2 DEF Owning
  <2> QED
    BY <2>1, <2>2, <2>3, <2>4 DEF FileSound
<1> QED
  BY <1>3, <1>7, <1>8, <1>9, <1>10, <1>13, OneFile

LEMMA BeginSound ==
  ASSUME PinInv, DiskInv, NEW f \in Files, Begin(f)
  PROVE  DiskInv'
<1>1. Data(f) \in Leases /\ Side(f) \in Leases /\ Data(f) # Side(f) /\ OpOf[Data(f)] = Files2Op[f] /\ Files2Op[f] \in Ops
  BY LeasesOfFiles, OpsOfFiles
<1>2. FileSound(f) /\ DiskTypes /\ DOMAIN pc = Files /\ QuotaSound(q) /\ Settled(q) /\ size[f] \in Nat
  BY DEF DiskInv, PinInv, PinTypes, DiskTypes
<1>3. /\ pc[f] = "none" /\ pc' = [pc EXCEPT ![f] = "open"] /\ pc'[f] = "open" /\ op[Files2Op[f]] = "run"
      /\ q' = RegisterReservation(q, Data(f)) /\ part' = part \cup {f}
      /\ UNCHANGED <<op, size, final, side, reg, attached, orphans, busy, cut>>
  BY <1>2 DEF Begin, At, Goto, registry, reclaim, history
<1>4. reg[f] = "no" /\ ~(busy.step = "unregister" /\ busy.file = f)
  BY <1>3 DEF PinInv, EntriesPast, ReclaimQuiet, Nothing, Past
<1>5. /\ size[f] = 0 /\ f \notin final /\ side[f] = "none" /\ Data(f) \notin orphans /\ Side(f) \notin orphans
      /\ f \notin attached /\ Data(f) \notin InQueue(q) /\ Side(f) \notin InQueue(q)
  BY <1>2, <1>3 DEF FileSound, Placed, Queued, Past
<1>6. q.amount[Data(f)] = Closed /\ q.amount[Side(f)] = Closed
  BY <1>2, <1>3, <1>4, <1>5 DEF FileSound, Owning, OwnsData, OwnsSide, Writing, Describing
<1>7. Open(Files2Op[f]) /\ q.tx[OpOf[Data(f)]] # Closed
  BY <1>1, <1>3 DEF Open, DiskInv, TransactionOpen
<1>8. /\ QuotaSound(q') /\ Settled(q') /\ q'.tx = q.tx /\ q'.amount = [q.amount EXCEPT ![Data(f)] = 0]
      /\ q'.granted = q.granted /\ InQueue(q') = InQueue(q)
  BY <1>1, <1>2, <1>3, <1>6, <1>7, RegisterSound
<1>9. q \in Quota /\ q.amount \in [Leases -> Nat \cup {Closed}]
  BY <1>2, QuotaFields DEF QuotaSound
<1>10. q'.amount[Data(f)] = 0 /\ \A x \in Leases \ {Data(f)} : q'.amount[x] = q.amount[x]
  BY <1>1, <1>8, <1>9
<1>11. QuotaOf(f)
  <2>1. \A x \in Leases \ {Data(f)} : Kept(q, q', x)
    BY <1>8, <1>9, <1>10 DEF Kept, Closed
  <2> QED
    BY <1>8, <2>1 DEF QuotaOf
<1>12. StepOf(f) /\ DiskTypes'
  BY <1>2, <1>3 DEF StepOf, DiskTypes
<1>13. Data(f) \notin q'.granted /\ Side(f) \notin q'.granted /\ q'.amount[Side(f)] = Closed
  BY <1>1, <1>5, <1>6, <1>8, <1>10, Told
<1>14. FileSound(f)'
  <2>1. Placed(f)' /\ Queued(f)'
    BY <1>3, <1>5, <1>8 DEF Placed, Queued, Past
  <2>2. Holds(f)' /\ Covered(f)'
    BY <1>3, <1>5, <1>10, <1>13 DEF Holds, Covered, Writing, Describing
  <2>3. Owning(f)'
    BY <1>3, <1>5, <1>10, <1>13 DEF Owning, OwnsData, OwnsSide, Writing, Describing, Closed
  <2> QED
    BY <2>1, <2>2, <2>3 DEF FileSound
<1>15. f \notin attached'
  BY <1>3, <1>5
<1> QED
  BY <1>4, <1>7, <1>8, <1>11, <1>12, <1>14, OneFile

\* A writer moves on: the file stays as it is, its lease may grow or queue up.
LEMMA ChunkMoves ==
  ASSUME PinInv, DiskInv, NEW f \in Files, pc[f] \in {"open", "wait", "write"}, NEW step \in {"open", "wait", "write", "rename"},
         pc' = [pc EXCEPT ![f] = step], UNCHANGED <<op, side, part, final, reg, attached, orphans, busy, cut>>,
         QuotaOf(f), QuotaSound(q'), Settled(q'), size' \in [Files -> Nat], \A g \in Files \ {f} : size'[g] = size[g],
         Data(f) \in InQueue(q') => step = "wait", Side(f) \notin InQueue(q'), q'.amount[Side(f)] = q.amount[Side(f)],
         q'.amount[Data(f)] >= size'[f],
         step = "write" \/ Data(f) \in q'.granted => q'.amount[Data(f)] >= size'[f] + Ask[Data(f)]
  PROVE  DiskInv'
<1>1. FileSound(f) /\ DiskTypes /\ DOMAIN pc = Files /\ pc[f] \in Writing /\ pc[f] # "renamed"
  BY DEF DiskInv, PinInv, PinTypes, Writing
<1>2. /\ f \notin attached /\ side[f] = "none" /\ reg[f] = "no" /\ f \notin final
      /\ Data(f) \notin orphans /\ Side(f) \notin orphans
      /\ q.amount[Side(f)] = Closed /\ Open(Files2Op[f]) /\ ~(busy.step = "unregister" /\ busy.file = f)
  BY <1>1, Unfinished
<1>3. pc'[f] = step
  BY <1>1
<1>4. StepOf(f) /\ DiskTypes'
  BY <1>1 DEF StepOf, DiskTypes
<1>5. Side(f) \notin q'.granted
  BY Told
<1>6. q'.amount[Data(f)] # Closed
  <2>1. size'[f] \in Nat
    OBVIOUS
  <2> QED
    BY <2>1 DEF Closed
<1>7. FileSound(f)'
  <2>1. Placed(f)' /\ Queued(f)'
    BY <1>2, <1>3 DEF Placed, Queued, Past
  <2>2. Holds(f)' /\ Covered(f)'
    BY <1>2, <1>3, <1>5 DEF Holds, Covered, Writing, Describing
  <2>3. Owning(f)'
    BY <1>2, <1>3, <1>6 DEF Owning, OwnsData, OwnsSide, Writing, Describing
  <2> QED
    BY <2>1, <2>2, <2>3 DEF FileSound
<1> QED
  BY <1>2, <1>4, <1>7, OneFile

LEMMA WriterTypes ==
  ASSUME PinInv, DiskInv
  PROVE  /\ q \in Quota /\ QuotaSound(q) /\ Settled(q) /\ q.amount \in [Leases -> Nat \cup {Closed}]
         /\ size \in [Files -> Nat] /\ DOMAIN pc = Files
BY QuotaFields DEF DiskInv, QuotaSound, DiskTypes, PinInv, PinTypes

\* write_chunk gets its grant at once, or gets into the queue.
LEMMA ChunkSound ==
  ASSUME PinInv, DiskInv, NEW f \in Files, WriteChunk(f), ~Fail(f, q)
  PROVE  DiskInv'
<1>1. Data(f) \in Leases /\ Side(f) \in Leases /\ Data(f) # Side(f) /\ Ask[Data(f)] \in Nat \ {0}
  BY LeasesOfFiles, Asks
<1>2. /\ q \in Quota /\ QuotaSound(q) /\ Settled(q) /\ q.amount \in [Leases -> Nat \cup {Closed}]
      /\ size \in [Files -> Nat] /\ size[f] \in Nat /\ DOMAIN pc = Files
  BY WriterTypes
<1>3. PICK step \in {"wait", "write"} :
      /\ pc[f] = "open" /\ step = IF AtOnce(q, Data(f)) THEN "write" ELSE "wait"
      /\ pc' = [pc EXCEPT ![f] = step]
      /\ q' = IF AtOnce(q, Data(f)) THEN Grant(q, Data(f)) ELSE Enqueue(q, Data(f))
      /\ UNCHANGED <<op, size, side, part, final, reg, attached, orphans, busy, cut>>
  BY DEF WriteChunk, At, Goto, disk, registry, reclaim, history
<1>4. /\ Side(f) \notin InQueue(q) /\ q.amount[Data(f)] >= size[f] /\ q.amount[Data(f)] # Closed
  BY <1>3, Unfinished DEF Writing
<1>5. Data(f) \notin InQueue(q)
  BY <1>3 DEF DiskInv, FileSound, Queued
<1>6. q.amount[Data(f)] \in Int
  BY <1>1, <1>2 DEF Closed
<1>7. CASE AtOnce(q, Data(f))
  <2>1. Added(q, q', Data(f), Ask[Data(f)]) /\ Settled(q') /\ step = "write"
    BY <1>1, <1>2, <1>3, <1>4, <1>7, GrantSound
  <2>2. /\ QuotaSound(q') /\ InQueue(q') = InQueue(q) /\ q'.granted = q.granted
        /\ q'.amount[Data(f)] = q.amount[Data(f)] + Ask[Data(f)]
        /\ \A x \in Leases \ {Data(f)} : q'.amount[x] = q.amount[x]
        /\ \A o \in Ops : q'.tx[o] = Closed <=> q.tx[o] = Closed
    BY <1>1, <1>2, <2>1 DEF Added, InQueue
  <2>3. QuotaOf(f)
    BY <1>1, <1>2, <2>2 DEF QuotaOf, Kept, Closed
  <2>4. /\ Data(f) \notin InQueue(q') /\ Side(f) \notin InQueue(q') /\ q'.amount[Side(f)] = q.amount[Side(f)]
        /\ q'.amount[Data(f)] >= size'[f] + Ask[Data(f)] /\ q'.amount[Data(f)] >= size'[f]
    BY <1>1, <1>2, <1>3, <1>4, <1>5, <1>6, <2>2
  <2> QED
    BY <1>2, <1>3, <2>1, <2>2, <2>3, <2>4, ChunkMoves
<1>8. CASE ~AtOnce(q, Data(f))
  <2>1. /\ QuotaSound(q') /\ Settled(q') /\ q'.amount = q.amount /\ q'.tx = q.tx
        /\ q'.granted = q.granted /\ InQueue(q') \subseteq InQueue(q) \cup {Data(f)}
        /\ step = "wait" /\ size' = size
    BY <1>1, <1>2, <1>3, <1>5, <1>8, EnqueueSound
  <2>2. QuotaOf(f)
    BY <1>2, <2>1 DEF QuotaOf, Kept, Closed
  <2>3. Data(f) \notin q'.granted /\ Side(f) \notin InQueue(q')
    BY <1>1, <1>4, <1>5, <2>1, Told
  <2> QED
    BY <1>2, <1>3, <1>4, <2>1, <2>2, <2>3, ChunkMoves
<1> QED
  BY <1>7, <1>8

LEMMA GrantedSound ==
  ASSUME PinInv, DiskInv, NEW f \in Files, Granted(f)
  PROVE  DiskInv'
<1>1. Data(f) \in Leases /\ Side(f) \in Leases /\ Data(f) # Side(f) /\ Ask[Data(f)] \in Nat \ {0}
  BY LeasesOfFiles, Asks
<1>2. /\ q \in Quota /\ QuotaSound(q) /\ Settled(q) /\ q.amount \in [Leases -> Nat \cup {Closed}]
      /\ size \in [Files -> Nat] /\ size[f] \in Nat /\ DOMAIN pc = Files
  BY WriterTypes
<1>3. /\ pc[f] = "wait" /\ Data(f) \in q.granted /\ pc' = [pc EXCEPT ![f] = "write"]
      /\ q' = [q EXCEPT !.granted = q.granted \ {Data(f)}]
      /\ UNCHANGED <<op, size, side, part, final, reg, attached, orphans, busy, cut>>
  BY DEF Granted, At, Goto, disk, registry, reclaim, history
<1>4. Side(f) \notin InQueue(q) /\ q.amount[Data(f)] >= size[f]
  BY <1>3, Unfinished DEF Writing
<1>5. q.amount[Data(f)] >= size[f] + Ask[Data(f)]
  BY <1>3 DEF DiskInv, FileSound, Holds
<1>6. /\ QuotaSound(q') /\ Settled(q') /\ q'.amount = q.amount /\ q'.tx = q.tx
      /\ q'.granted = q.granted \ {Data(f)} /\ InQueue(q') \subseteq InQueue(q) /\ Data(f) \notin InQueue(q')
  BY <1>2, <1>3, AckSound
<1>7. QuotaOf(f)
  BY <1>2, <1>6 DEF QuotaOf, Kept, Closed
<1> QED
  BY <1>2, <1>3, <1>4, <1>5, <1>6, <1>7, ChunkMoves

LEMMA GiveUpSound ==
  ASSUME PinInv, DiskInv, NEW f \in Files, GiveUp(f)
  PROVE  DiskInv'
<1>1. Data(f) \in Leases /\ Ask[Data(f)] \in Nat \ {0}
  BY LeasesOfFiles, Asks
<1>2. /\ q \in Quota /\ QuotaSound(q) /\ Settled(q) /\ q.amount \in [Leases -> Nat \cup {Closed}] /\ size[f] \in Nat
  BY WriterTypes
<1>3. pc[f] = "wait" /\ pc[f] \in Writing \ {"renamed"} /\ Fail(f, Abandon(q, Data(f)))
  BY DEF GiveUp, At, Writing
<1>4. q.amount[Data(f)] >= size[f] /\ q.amount[Data(f)] # Closed
  BY <1>3, Unfinished
<1>5. Data(f) \in q.granted => q.amount[Data(f)] >= size[f] + Ask[Data(f)]
  BY <1>3 DEF DiskInv, FileSound, Holds
<1>6. q.amount[Data(f)] \in Int
  BY <1>1, <1>2 DEF Closed
<1>7. Left(q, Abandon(q, Data(f)), Data(f))
  BY <1>1, <1>2, <1>4, <1>5, <1>6, AbandonSound
<1>8. Ready(q, Abandon(q, Data(f)), Data(f)) /\ Abandon(q, Data(f)).amount[Data(f)] >= size[f]
  BY <1>1, <1>2, <1>4, <1>5, <1>6, <1>7 DEF Left, Ready
<1> QED
  BY <1>3, <1>8, FailSound

\* A step that fails without having waited.
LEMMA FailHere ==
  ASSUME PinInv, DiskInv, NEW f \in Files, pc[f] \in {"open", "write", "rename"}, Fail(f, q)
  PROVE  DiskInv'
<1>1. pc[f] \in Writing \ {"renamed"}
  BY DEF Writing
<1>2. Data(f) \notin InQueue(q)
  BY DEF DiskInv, FileSound, Queued
<1>3. q.amount[Data(f)] >= size[f]
  BY <1>1, Unfinished
<1> QED
  BY <1>1, <1>2, <1>3, ReadySelf, FailSound

LEMMA WriteSound ==
  ASSUME PinInv, DiskInv, NEW f \in Files, Write(f) \/ Commit(f) \/ CutWriter(f), ~Fail(f, q)
  PROVE  DiskInv'
<1>1. Data(f) \in Leases /\ Side(f) \in Leases /\ Data(f) # Side(f) /\ Ask[Data(f)] \in Nat \ {0}
  BY LeasesOfFiles, Asks
<1>2. /\ q \in Quota /\ q.amount \in [Leases -> Nat \cup {Closed}]
      /\ size \in [Files -> Nat] /\ size[f] \in Nat /\ DOMAIN pc = Files
  BY WriterTypes
<1>3. q' = q /\ UNCHANGED <<op, side, part, final, reg, attached, orphans, busy, cut>>
  BY DEF Write, Commit, CutWriter, disk, registry, reclaim, history
<1>4. QuotaOf(f) /\ QuotaSound(q') /\ Settled(q')
  BY <1>3, QuotaKept
<1>5. pc[f] \in {"open", "write"} /\ pc[f] \in Writing
  BY DEF Write, Commit, CutWriter, At, Writing
<1>6. Data(f) \notin InQueue(q) /\ Side(f) \notin InQueue(q) /\ q.amount[Data(f)] >= size[f]
  BY <1>5, Unfinished DEF DiskInv, FileSound, Queued
<1>7. Data(f) \notin q.granted
  BY <1>6, Told
<1>8. CASE pc' = [pc EXCEPT ![f] = "open"] /\ pc[f] = "write" /\ size' = [size EXCEPT ![f] = size[f] + Ask[Data(f)]]
  <2>1. q.amount[Data(f)] >= size[f] + Ask[Data(f)]
    BY <1>8 DEF DiskInv, FileSound, Holds
  <2>2. size' \in [Files -> Nat] /\ size'[f] = size[f] + Ask[Data(f)] /\ \A g \in Files \ {f} : size'[g] = size[g]
    BY <1>1, <1>2, <1>8
  <2> QED
    BY <1>3, <1>4, <1>5, <1>6, <1>7, <1>8, <2>1, <2>2, ChunkMoves
<1>9. CASE pc' = [pc EXCEPT ![f] = "rename"] /\ size' = size
  BY <1>2, <1>3, <1>4, <1>5, <1>6, <1>7, <1>9, ChunkMoves
<1> QED
  BY <1>8, <1>9 DEF Write, Commit, CutWriter, At, Goto

LEMMA RenameSound ==
  ASSUME PinInv, DiskInv, NEW f \in Files, Rename(f), ~Fail(f, q)
  PROVE  DiskInv'
<1>1. size \in [Files -> Nat] /\ DOMAIN pc = Files /\ DiskTypes /\ FileSound(f)
  BY WriterTypes DEF DiskInv
<1>2. /\ pc[f] = "rename" /\ pc' = [pc EXCEPT ![f] = "renamed"] /\ pc'[f] = "renamed"
      /\ part' = part \ {f} /\ final' = final \cup {f}
      /\ q' = q /\ UNCHANGED <<op, size, side, reg, attached, orphans, busy, cut>>
  BY <1>1 DEF Rename, At, Goto, disk, registry, reclaim, history
<1>3. QuotaOf(f) /\ QuotaSound(q') /\ Settled(q')
  BY <1>2, QuotaKept
<1>4. /\ f \notin attached /\ side[f] = "none" /\ reg[f] = "no"
      /\ Data(f) \notin orphans /\ Side(f) \notin orphans /\ Side(f) \notin InQueue(q)
      /\ q.amount[Data(f)] >= size[f] /\ q.amount[Data(f)] # Closed /\ q.amount[Side(f)] = Closed
      /\ Open(Files2Op[f]) /\ ~(busy.step = "unregister" /\ busy.file = f)
  BY <1>2, Unfinished DEF Writing
<1>5. Data(f) \notin InQueue(q)
  BY <1>1, <1>2 DEF FileSound, Queued
<1>6. Data(f) \notin q.granted /\ Side(f) \notin q.granted
  BY <1>4, <1>5, Told
<1>7. StepOf(f) /\ DiskTypes'
  BY <1>1, <1>2 DEF StepOf, DiskTypes
<1>8. FileSound(f)'
  <2>1. Placed(f)' /\ Queued(f)'
    BY <1>2, <1>4, <1>5 DEF Placed, Queued
  <2>2. Holds(f)' /\ Covered(f)'
    BY <1>2, <1>4, <1>6 DEF Holds, Covered, Describing
  <2>3. Owning(f)'
    BY <1>2, <1>4 DEF Owning, OwnsData, OwnsSide, Writing, Describing
  <2> QED
    BY <2>1, <2>2, <2>3 DEF FileSound
<1> QED
  BY <1>3, <1>4, <1>7, <1>8, OneFile

LEMMA RegisterFileSound ==
  ASSUME PinInv, DiskInv, NEW f \in Files, NEW matches \in BOOLEAN, Register(f, matches)
  PROVE  DiskInv'
<1>1. size \in [Files -> Nat] /\ DOMAIN pc = Files /\ DOMAIN reg = Files /\ DiskTypes /\ FileSound(f)
  BY WriterTypes DEF DiskInv, PinInv, PinTypes
<1>2. PICK step \in {"committed", "mismatch"} :
      /\ pc[f] = "renamed" /\ pc' = [pc EXCEPT ![f] = step] /\ pc'[f] = step
      /\ reg'[f] # "no" /\ (\A g \in Files \ {f} : reg'[g] = reg[g])
      /\ q' = q /\ UNCHANGED <<op, size, side, part, final, attached, orphans, busy, cut>>
  BY <1>1 DEF Register, At, Goto, disk, history
<1>3. QuotaOf(f) /\ QuotaSound(q') /\ Settled(q')
  BY <1>2, QuotaKept
<1>4. /\ f \notin attached /\ side[f] = "none" /\ f \notin part
      /\ Data(f) \notin orphans /\ Side(f) \notin orphans /\ Side(f) \notin InQueue(q)
      /\ q.amount[Data(f)] >= size[f] /\ q.amount[Data(f)] # Closed /\ q.amount[Side(f)] = Closed
      /\ Open(Files2Op[f]) /\ ~(busy.step = "unregister" /\ busy.file = f)
  BY <1>2, Unfinished DEF Writing
<1>5. Data(f) \notin InQueue(q)
  BY <1>1, <1>2 DEF FileSound, Queued
<1>6. Data(f) \notin q.granted /\ Side(f) \notin q.granted
  BY <1>4, <1>5, Told
<1>7. StepOf(f) /\ DiskTypes'
  BY <1>1, <1>2 DEF StepOf, DiskTypes
<1>8. FileSound(f)'
  <2>1. Placed(f)' /\ Queued(f)'
    BY <1>2, <1>4, <1>5 DEF Placed, Queued, Past
  <2>2. Holds(f)' /\ Covered(f)'
    BY <1>2, <1>4, <1>6 DEF Holds, Covered, Writing, Describing
  <2>3. Owning(f)'
    BY <1>2, <1>4 DEF Owning, OwnsData, OwnsSide, Writing, Describing
  <2> QED
    BY <2>1, <2>2, <2>3 DEF FileSound
<1> QED
  BY <1>3, <1>4, <1>7, <1>8, OneFile

LEMMA CutRenameSound ==
  ASSUME PinInv, DiskInv, NEW f \in Files, CutRename(f)
  PROVE  DiskInv'
<1>1. /\ size \in [Files -> Nat] /\ DOMAIN pc = Files /\ DiskTypes /\ FileSound(f)
      /\ Data(f) \in Leases /\ Side(f) \in Leases /\ Data(f) # Side(f)
  BY WriterTypes, LeasesOfFiles DEF DiskInv
<1>2. /\ pc[f] \in {"rename", "renamed"} /\ pc' = [pc EXCEPT ![f] = "dropped"] /\ pc'[f] = "dropped"
      /\ part' = part \ {f} /\ final' = final \cup {f} /\ cut' = cut \cup {f}
      /\ q' = DropLease(q, Data(f)) /\ UNCHANGED <<op, size, side, reg, attached, orphans, busy>>
  BY <1>1 DEF CutRename, At, Goto, registry, reclaim
<1>3. /\ f \notin attached /\ side[f] = "none" /\ reg[f] = "no"
      /\ Data(f) \notin orphans /\ Side(f) \notin orphans /\ Side(f) \notin InQueue(q) /\ q.amount[Side(f)] = Closed
      /\ Open(Files2Op[f]) /\ ~(busy.step = "unregister" /\ busy.file = f)
  BY <1>2, Unfinished DEF Writing
<1>4. Data(f) \notin InQueue(q)
  BY <1>1, <1>2 DEF FileSound, Queued
<1>5. Ready(q, q', Data(f)) /\ q'.amount[Data(f)] = Closed
  BY <1>1, <1>2, <1>4, ReadySelf, ReadyDrop
<1>6. QuotaOf(f) /\ QuotaSound(q') /\ Settled(q')
  BY <1>5, ReadyQuota
<1>7. /\ Data(f) \notin InQueue(q') /\ Side(f) \notin InQueue(q') /\ q'.amount[Side(f)] = Closed
      /\ Data(f) \notin q'.granted /\ Side(f) \notin q'.granted
  BY <1>1, <1>3, <1>5, Told DEF Ready, Kept
<1>8. StepOf(f) /\ DiskTypes'
  BY <1>1, <1>2 DEF StepOf, DiskTypes
<1>9. FileSound(f)'
  <2>1. Placed(f)' /\ Queued(f)'
    BY <1>2, <1>3, <1>7 DEF Placed, Queued
  <2>2. Holds(f)' /\ Covered(f)'
    BY <1>2, <1>3, <1>7 DEF Holds, Covered, Writing, Describing
  <2>3. Owning(f)'
    BY <1>2, <1>3, <1>5, <1>7 DEF Owning, OwnsData, OwnsSide, Writing, Describing
  <2> QED
    BY <2>1, <2>2, <2>3 DEF FileSound
<1> QED
  BY <1>3, <1>6, <1>8, <1>9, OneFile

LEMMA WriterSound ==
  ASSUME PinInv, DiskInv, NEW f \in Files, WriterStep(f)
  PROVE  DiskInv'
<1>1. CASE Fail(f, q) /\ (WriteChunk(f) \/ Write(f) \/ Commit(f) \/ Rename(f) \/ CutWriter(f))
  <2>1. pc[f] \in {"open", "write", "rename"}
    BY <1>1 DEF WriteChunk, Write, Commit, Rename, CutWriter, At
  <2> QED
    BY <1>1, <2>1, FailHere
<1>2. CASE ~Fail(f, q) /\ (WriteChunk(f) \/ Write(f) \/ Commit(f) \/ Rename(f) \/ CutWriter(f))
  BY <1>2, ChunkSound, WriteSound, RenameSound
<1>3. CASE Begin(f) \/ Granted(f) \/ GiveUp(f) \/ CutRename(f) \/ \E matches \in BOOLEAN : Register(f, matches)
  BY <1>3, BeginSound, GrantedSound, GiveUpSound, CutRenameSound, RegisterFileSound
<1> QED
  BY <1>1, <1>2, <1>3 DEF WriterStep

-----------------------------------------------------------------------------
(* The manifest.                                                            *)

\* The manifest of f and its lease, at the step it gets to.
Described(f, step) ==
  /\ side'[f] # "none" => step \in {"mfull", "mclean", "mfailed", "finished"} /\ q'.amount[Side(f)] >= Ask[Side(f)]
  /\ Side(f) \in orphans' => step = "mfailed"
  /\ f \in attached' => step = "finished" /\ reg[f] = "readable"
  /\ Side(f) \in InQueue(q') => step = "mwait"
  /\ step \in Describing \/ Side(f) \in q'.granted => q'.amount[Side(f)] >= Ask[Side(f)]
  /\ q'.amount[Side(f)] # Closed <=> Side(f) \in orphans' \/ step \in {"mwait"} \cup Describing \/ f \in attached'

LEMMA ManifestMoves ==
  ASSUME PinInv, DiskInv, NEW f \in Files, pc[f] \in Past, Open(Files2Op[f]), NEW step \in Past,
         pc' = [pc EXCEPT ![f] = step], UNCHANGED <<op, size, part, final, reg, busy, cut>>,
         DiskTypes', \A g \in Files \ {f} : side'[g] = side[g],
         attached' \in {attached, attached \cup {f}}, orphans' \in {orphans, orphans \cup {Side(f)}},
         QuotaOf(f), QuotaSound(q'), Settled(q'), Kept(q, q', Data(f)), Described(f, step),
         Data(f) \in InQueue(q') => Data(f) \in InQueue(q)
  PROVE  DiskInv'
<1>1. FileSound(f) /\ DOMAIN pc = Files /\ size[f] \in Nat
  BY DEF DiskInv, PinInv, PinTypes, DiskTypes
<1>2. pc'[f] = step
  BY <1>1
<1>3. /\ f \notin part /\ Data(f) \notin orphans /\ Data(f) \notin InQueue(q)
      /\ (q.amount[Data(f)] # Closed <=> reg[f] # "no")
      /\ (f \in final \ cut => q.amount[Data(f)] >= size[f])
  BY <1>1 DEF FileSound, Placed, Queued, Covered, Owning, OwnsData, Past, Writing
<1>4. Data(f) \notin orphans' /\ Data(f) \notin q'.granted
  BY <1>3, LeasesOfFiles, Told
<1>5. q'.amount[Data(f)] = q.amount[Data(f)]
  BY <1>3 DEF Kept
<1>6. FileSound(f)'
  <2>1. Placed(f)' /\ Queued(f)'
    BY <1>1, <1>2, <1>3, <1>4 DEF FileSound, Placed, Queued, Past, Described
  <2>2. Holds(f)' /\ Covered(f)'
    BY <1>2, <1>3, <1>4, <1>5 DEF Holds, Covered, Past, Writing, Described
  <2>3. Owning(f)'
    BY <1>2, <1>3, <1>4, <1>5 DEF Owning, OwnsData, OwnsSide, Past, Writing, Described
  <2> QED
    BY <2>1, <2>2, <2>3 DEF FileSound
<1>7. StepOf(f)
  <2>1. \A g \in Files \ {f} : Data(g) # Side(f) /\ Side(g) # Side(f)
    BY LeasesOfFiles
  <2>2. DOMAIN pc = Files
    BY <1>1
  <2> QED
    BY <2>1, <2>2 DEF StepOf
<1>8. busy.step = "unregister" /\ busy.file = f => f \notin part' \cup final' /\ f \notin attached'
  <2>1. busy.step = "unregister" /\ busy.file = f => reg[f] # "readable"
    BY DEF PinInv, ReclaimQuiet, Nothing
  <2> QED
    BY <2>1 DEF DiskInv, Deleted, Described
<1> QED
  BY <1>6, <1>7, <1>8, OneFile

\* What there is of a manifest while it is being made.
LEMMA Undescribed ==
  ASSUME PinInv, DiskInv, NEW f \in Files, pc[f] \in {"committed", "mwait", "mwrite", "mfull", "mclean"}
  PROVE  /\ f \notin attached /\ Side(f) \notin orphans /\ Data(f) \notin InQueue(q) /\ pc[f] \in Past
         /\ (pc[f] # "committed" => Open(Files2Op[f]) /\ q.amount[Side(f)] # Closed)
         /\ (pc[f] = "committed" => q.amount[Side(f)] = Closed)
         /\ (pc[f] # "mwait" => Side(f) \notin InQueue(q) /\ Side(f) \notin q.granted)
         /\ (pc[f] \notin {"mfull", "mclean"} => side[f] = "none")
         /\ (pc[f] \in Describing => q.amount[Side(f)] >= Ask[Side(f)])
<1>1. FileSound(f)
  BY DEF DiskInv
<1>2. /\ f \notin attached /\ Side(f) \notin orphans /\ Data(f) \notin InQueue(q) /\ pc[f] \in Past
      /\ (pc[f] \notin {"mfull", "mclean"} => side[f] = "none")
  BY <1>1 DEF FileSound, Placed, Queued, Past
<1>3. pc[f] # "committed" => Open(Files2Op[f])
  BY DEF PinInv, WritersDrained, Ended, Active, Open
<1>4. q.amount[Side(f)] # Closed <=> pc[f] # "committed"
  BY <1>1, <1>2 DEF FileSound, Owning, OwnsSide, Describing
<1>5. pc[f] # "mwait" => Side(f) \notin InQueue(q) /\ Side(f) \notin q.granted
  BY <1>1, Told DEF FileSound, Queued
<1>6. pc[f] \in Describing => q.amount[Side(f)] >= Ask[Side(f)]
  BY <1>1 DEF FileSound, Holds
<1> QED
  BY <1>2, <1>3, <1>4, <1>5, <1>6

LEMMA ManifestSound ==
  ASSUME PinInv, DiskInv, NEW f \in Files, Manifest(f)
  PROVE  DiskInv'
<1>1. /\ Data(f) \in Leases /\ Side(f) \in Leases /\ Data(f) # Side(f) /\ Ask[Side(f)] \in Nat \ {0}
      /\ OpOf[Side(f)] = Files2Op[f] /\ Files2Op[f] \in Ops
  BY LeasesOfFiles, Asks, OpsOfFiles
<1>2. /\ q \in Quota /\ QuotaSound(q) /\ Settled(q) /\ q.amount \in [Leases -> Nat \cup {Closed}]
      /\ DOMAIN pc = Files /\ DiskTypes
  BY WriterTypes DEF DiskInv
<1>3. PICK r : r = RegisterReservation(q, Side(f))
  OBVIOUS
<1>4. PICK step \in {"mfailed", "mwrite", "mwait"} :
      /\ pc[f] = "committed" /\ Active(Files2Op[f]) /\ pc' = [pc EXCEPT ![f] = step]
      /\ step = IF TooLarge(r, Side(f)) THEN "mfailed" ELSE IF AtOnce(r, Side(f)) THEN "mwrite" ELSE "mwait"
      /\ q' = IF TooLarge(r, Side(f)) THEN q ELSE IF AtOnce(r, Side(f)) THEN Grant(r, Side(f)) ELSE Enqueue(r, Side(f))
      /\ UNCHANGED <<op, size, side, part, final, reg, attached, orphans, busy, cut>>
  BY <1>3 DEF Manifest, At, Goto, disk, registry, reclaim, history
<1>5. /\ f \notin attached /\ Side(f) \notin orphans /\ Data(f) \notin InQueue(q) /\ pc[f] \in Past
      /\ q.amount[Side(f)] = Closed /\ Side(f) \notin InQueue(q) /\ Side(f) \notin q.granted /\ side[f] = "none"
  BY <1>4, Undescribed
<1>6. Open(Files2Op[f]) /\ q.tx[OpOf[Side(f)]] # Closed
  BY <1>1, <1>4 DEF Open, Active, DiskInv, TransactionOpen
<1>7. DiskTypes' /\ step \in Past
  BY <1>2, <1>4 DEF DiskTypes, Past
<1>8. /\ r \in Quota /\ QuotaSound(r) /\ Settled(r) /\ r.tx = q.tx /\ r.amount = [q.amount EXCEPT ![Side(f)] = 0]
      /\ r.granted = q.granted /\ InQueue(r) = InQueue(q)
  BY <1>1, <1>2, <1>3, <1>5, <1>6, RegisterSound
<1>9. r.amount[Side(f)] = 0 /\ r.amount[Side(f)] # Closed /\ \A x \in Leases \ {Side(f)} : r.amount[x] = q.amount[x]
  BY <1>1, <1>2, <1>8 DEF Closed
<1>10. CASE TooLarge(r, Side(f))
  <2>1. q' = q /\ step = "mfailed"
    BY <1>4, <1>10
  <2>2. QuotaOf(f) /\ QuotaSound(q') /\ Settled(q')
    BY <2>1, QuotaKept
  <2>3. Kept(q, q', Data(f))
    BY <1>1, <1>2, <2>1, FlowsSelf DEF Flows
  <2>4. Described(f, step)
    BY <1>4, <1>5, <2>1 DEF Described, Describing
  <2> QED
    BY <1>4, <1>5, <1>6, <1>7, <2>1, <2>2, <2>3, <2>4, ManifestMoves
<1>11. CASE ~TooLarge(r, Side(f)) /\ AtOnce(r, Side(f))
  <2>1. Added(r, q', Side(f), Ask[Side(f)]) /\ Settled(q') /\ step = "mwrite"
    BY <1>1, <1>4, <1>8, <1>9, <1>11, GrantSound
  <2>2. /\ QuotaSound(q') /\ InQueue(q') = InQueue(q) /\ q'.granted = q.granted
        /\ q'.amount[Side(f)] = Ask[Side(f)]
        /\ \A x \in Leases \ {Side(f)} : q'.amount[x] = q.amount[x]
        /\ \A o \in Ops : q'.tx[o] = Closed <=> q.tx[o] = Closed
    <3>1. r.amount \in [Leases -> Nat \cup {Closed}] /\ q'.amount = [r.amount EXCEPT ![Side(f)] = r.amount[Side(f)] + Ask[Side(f)]]
      BY <1>8, <2>1, QuotaFields DEF Added
    <3>2. q'.amount[Side(f)] = Ask[Side(f)] /\ \A x \in Leases \ {Side(f)} : q'.amount[x] = q.amount[x]
      BY <1>1, <1>9, <3>1
    <3> QED
      BY <1>8, <2>1, <3>2 DEF Added, InQueue
  <2>3. \A x \in Leases \ {Side(f)} : Kept(q, q', x)
    BY <1>2, <2>2 DEF Kept, Closed
  <2>4. QuotaOf(f) /\ Kept(q, q', Data(f))
    BY <1>1, <2>2, <2>3 DEF QuotaOf
  <2>5. Described(f, step)
    BY <1>1, <1>4, <1>5, <2>1, <2>2 DEF Described, Describing, Closed
  <2> QED
    BY <1>4, <1>5, <1>6, <1>7, <2>1, <2>2, <2>4, <2>5, ManifestMoves
<1>12. CASE ~TooLarge(r, Side(f)) /\ ~AtOnce(r, Side(f))
  <2>1. /\ QuotaSound(q') /\ Settled(q') /\ q'.amount = r.amount /\ q'.tx = r.tx /\ step = "mwait"
        /\ q'.granted = r.granted /\ InQueue(q') \subseteq InQueue(r) \cup {Side(f)}
    BY <1>1, <1>4, <1>5, <1>8, <1>12, EnqueueSound
  <2>2. \A x \in Leases \ {Side(f)} : Kept(q, q', x)
    BY <1>2, <1>8, <1>9, <2>1 DEF Kept, Closed
  <2>3. QuotaOf(f) /\ Kept(q, q', Data(f)) /\ (Data(f) \in InQueue(q') => Data(f) \in InQueue(q))
    BY <1>1, <1>8, <2>1, <2>2 DEF QuotaOf
  <2>4. Described(f, step)
    BY <1>4, <1>5, <1>8, <1>9, <2>1 DEF Described, Describing
  <2> QED
    BY <1>4, <1>5, <1>6, <1>7, <2>1, <2>3, <2>4, ManifestMoves
<1> QED
  BY <1>10, <1>11, <1>12

LEMMA ManifestWaitedSound ==
  ASSUME PinInv, DiskInv, NEW f \in Files, ManifestWaited(f)
  PROVE  DiskInv'
<1>1. Data(f) \in Leases /\ Side(f) \in Leases /\ Data(f) # Side(f) /\ Ask[Side(f)] \in Nat \ {0}
  BY LeasesOfFiles, Asks
<1>2. /\ q \in Quota /\ QuotaSound(q) /\ Settled(q) /\ q.amount \in [Leases -> Nat \cup {Closed}]
      /\ DOMAIN pc = Files /\ DiskTypes /\ FileSound(f)
  BY WriterTypes DEF DiskInv
<1>3. /\ pc[f] = "mwait" /\ UNCHANGED <<op, size, side, part, final, reg, attached, orphans, busy, cut>>
      /\ \/ /\ Side(f) \in q.granted /\ pc' = [pc EXCEPT ![f] = "mwrite"]
            /\ q' = [q EXCEPT !.granted = q.granted \ {Side(f)}]
         \/ /\ pc' = [pc EXCEPT ![f] = "mfailed"]
            /\ q' = DropLease(Abandon(q, Side(f)), Side(f))
  BY DEF ManifestWaited, At, Goto, disk, registry, reclaim, history
<1>4. /\ f \notin attached /\ Side(f) \notin orphans /\ Data(f) \notin InQueue(q) /\ pc[f] \in Past
      /\ q.amount[Side(f)] # Closed /\ side[f] = "none" /\ Open(Files2Op[f])
  BY <1>3, Undescribed
<1>5. Side(f) \in q.granted => q.amount[Side(f)] >= Ask[Side(f)]
  BY <1>2 DEF FileSound, Holds
<1>6. DiskTypes'
  BY <1>2, <1>3 DEF DiskTypes
<1>7. CASE /\ Side(f) \in q.granted /\ pc' = [pc EXCEPT ![f] = "mwrite"]
           /\ q' = [q EXCEPT !.granted = q.granted \ {Side(f)}]
  <2>1. /\ QuotaSound(q') /\ Settled(q') /\ q'.amount = q.amount /\ q'.tx = q.tx
        /\ q'.granted = q.granted \ {Side(f)} /\ InQueue(q') \subseteq InQueue(q) /\ Side(f) \notin InQueue(q')
    BY <1>2, <1>7, AckSound
  <2>2. QuotaOf(f) /\ Kept(q, q', Data(f))
    BY <1>1, <1>2, <2>1 DEF QuotaOf, Kept, Closed
  <2>3. Described(f, "mwrite") /\ "mwrite" \in Past
    BY <1>3, <1>4, <1>5, <1>7, <2>1 DEF Described, Describing, Past
  <2> QED
    BY <1>3, <1>4, <1>6, <1>7, <2>1, <2>2, <2>3, ManifestMoves
<1>8. CASE pc' = [pc EXCEPT ![f] = "mfailed"] /\ q' = DropLease(Abandon(q, Side(f)), Side(f))
  <2>1. Left(q, Abandon(q, Side(f)), Side(f))
    BY <1>1, <1>2, <1>4, <1>5, AbandonSound
  <2>2. Ready(q, Abandon(q, Side(f)), Side(f))
    BY <2>1 DEF Left, Ready
  <2>3. Ready(q, q', Side(f)) /\ q'.amount[Side(f)] = Closed
    BY <1>1, <1>8, <2>2, ReadyDrop
  <2>4. QuotaOf(f) /\ QuotaSound(q') /\ Settled(q')
    BY <2>3, ReadyQuota
  <2>5. Kept(q, q', Data(f)) /\ Side(f) \notin InQueue(q') /\ InQueue(q') \subseteq InQueue(q) /\ Side(f) \notin q'.granted
    BY <1>1, <2>3, Told DEF Ready
  <2>6. Described(f, "mfailed") /\ "mfailed" \in Past
    BY <1>3, <1>4, <2>3, <2>5 DEF Described, Describing, Past
  <2> QED
    BY <1>3, <1>4, <1>6, <1>8, <2>4, <2>5, <2>6, ManifestMoves
<1> QED
  BY <1>3, <1>7, <1>8

\* The manifest's file and its place in the registry change, its lease does not.
LEMMA ManifestFileSound ==
  ASSUME PinInv, DiskInv, NEW f \in Files, ManifestWrite(f) \/ Attach(f) \/ RetainDownload(f)
  PROVE  DiskInv'
<1>1. Data(f) \in Leases /\ Side(f) \in Leases /\ Data(f) # Side(f)
  BY LeasesOfFiles
<1>2. q \in Quota /\ DOMAIN pc = Files /\ DiskTypes /\ DOMAIN side = Files
  BY WriterTypes DEF DiskInv, DiskTypes
<1>3. q' = q /\ UNCHANGED <<op, size, part, final, reg, orphans, busy, cut>>
  BY DEF ManifestWrite, Attach, RetainDownload, disk, registry, reclaim, history
<1>4. QuotaOf(f) /\ QuotaSound(q') /\ Settled(q')
  BY <1>3, QuotaKept
<1>5. Kept(q, q', Data(f))
  BY <1>1, <1>2, <1>3, FlowsSelf DEF Flows
<1>6. CASE ManifestWrite(f)
  <2>1. PICK disk1 \in {"none", "part", "full"}, step \in {"mfull", "mclean"} :
          side' = [side EXCEPT ![f] = disk1] /\ pc' = [pc EXCEPT ![f] = step]
    BY <1>6 DEF ManifestWrite, Goto
  <2>2. pc[f] = "mwrite" /\ attached' = attached
    BY <1>6 DEF ManifestWrite, At, registry
  <2>3. Described(f, step) /\ step \in Past
    BY <1>2, <1>3, <2>1, <2>2, Undescribed, FileAmounts DEF Described, Describing, Past
  <2>4. DiskTypes' /\ \A g \in Files \ {f} : side'[g] = side[g]
    BY <1>2, <1>3, <2>1, <2>2 DEF DiskTypes
  <2> QED
    BY <1>3, <1>4, <1>5, <2>1, <2>2, <2>3, <2>4, Undescribed, ManifestMoves
<1>7. CASE Attach(f)
  <2>1. pc[f] = "mfull" /\ side' = side
    BY <1>7 DEF Attach, At, disk
  <2>2. \/ reg[f] = "readable" /\ pc' = [pc EXCEPT ![f] = "finished"] /\ attached' = attached \cup {f}
        \/ pc' = [pc EXCEPT ![f] = "mclean"] /\ attached' = attached
    BY <1>7 DEF Attach, Goto
  <2>3. DiskTypes' /\ "finished" \in Past /\ "mclean" \in Past
    BY <1>2, <1>3, <2>1, <2>2 DEF DiskTypes, Past
  <2>4. CASE reg[f] = "readable" /\ pc' = [pc EXCEPT ![f] = "finished"] /\ attached' = attached \cup {f}
    <3>1. Described(f, "finished")
      BY <1>3, <2>1, <2>4, Undescribed DEF Described, Describing
    <3> QED
      BY <1>3, <1>4, <1>5, <2>1, <2>3, <2>4, <3>1, Undescribed, ManifestMoves
  <2>5. CASE pc' = [pc EXCEPT ![f] = "mclean"] /\ attached' = attached
    <3>1. Described(f, "mclean")
      BY <1>3, <2>1, <2>5, Undescribed DEF Described, Describing
    <3> QED
      BY <1>3, <1>4, <1>5, <2>1, <2>3, <2>5, <3>1, Undescribed, ManifestMoves
  <2> QED
    BY <2>2, <2>4, <2>5
<1>8. CASE RetainDownload(f)
  <2>1. /\ pc[f] = "committed" /\ side' = side /\ attached' = attached /\ Active(Files2Op[f])
        /\ pc' = [pc EXCEPT ![f] = "finished"]
    BY <1>8 DEF RetainDownload, At, Goto, disk
  <2>2. Described(f, "finished") /\ "finished" \in Past
    BY <1>3, <2>1, Undescribed DEF Described, Describing, Past
  <2>3. DiskTypes' /\ Open(Files2Op[f])
    BY <1>2, <1>3, <2>1 DEF DiskTypes, Open, Active
  <2> QED
    BY <1>3, <1>4, <1>5, <2>1, <2>2, <2>3, Undescribed, ManifestMoves
<1> QED
  BY <1>6, <1>7, <1>8

\* What is left of a failed manifest keeps its lease.
LEMMA ManifestCleanSound ==
  ASSUME PinInv, DiskInv, NEW f \in Files, ManifestClean(f)
  PROVE  DiskInv'
<1>1. Data(f) \in Leases /\ Side(f) \in Leases /\ Data(f) # Side(f)
  BY LeasesOfFiles
<1>2. q \in Quota /\ DOMAIN pc = Files /\ DiskTypes /\ DOMAIN side = Files
  BY WriterTypes DEF DiskInv, DiskTypes
<1>3. /\ pc[f] = "mclean" /\ pc' = [pc EXCEPT ![f] = "mfailed"] /\ "mfailed" \in Past
      /\ UNCHANGED <<op, size, part, final, reg, attached, busy, cut>>
  BY DEF ManifestClean, At, Goto, registry, reclaim, history, Past
<1>4. PICK left : /\ side' = [side EXCEPT ![f] = left]
                  /\ IF left = "none"
                     THEN q' = DropLease(q, Side(f)) /\ orphans' = orphans
                     ELSE q' = q /\ orphans' = orphans \cup {Side(f)}
  BY DEF ManifestClean
<1>5. side'[f] = left /\ \A g \in Files \ {f} : side'[g] = side[g]
  BY <1>2, <1>4
<1>6. /\ f \notin attached /\ Side(f) \notin orphans /\ Data(f) \notin InQueue(q) /\ pc[f] \in Past
      /\ Open(Files2Op[f]) /\ q.amount[Side(f)] # Closed /\ Side(f) \notin InQueue(q)
      /\ q.amount[Side(f)] >= Ask[Side(f)]
  BY <1>3, Undescribed DEF Describing
<1>7. DiskTypes'
  BY <1>1, <1>2, <1>3, <1>4 DEF DiskTypes
<1>8. Ready(q, q', Side(f))
  BY <1>1, <1>4, <1>6, ReadySelf, ReadyDrop
<1>9. QuotaOf(f) /\ QuotaSound(q') /\ Settled(q')
  BY <1>8, ReadyQuota
<1>10. Kept(q, q', Data(f)) /\ Side(f) \notin InQueue(q') /\ InQueue(q') \subseteq InQueue(q) /\ Side(f) \notin q'.granted
  BY <1>1, <1>8, Told DEF Ready
<1>11. Described(f, "mfailed")
  <2>1. CASE left = "none"
    <3>1. q'.amount[Side(f)] = Closed /\ orphans' = orphans
      BY <1>1, <1>4, <1>6, <2>1, ReadySelf, ReadyDrop
    <3> QED
      BY <1>3, <1>5, <1>6, <1>10, <2>1, <3>1 DEF Described, Describing
  <2>2. CASE left # "none"
    BY <1>3, <1>4, <1>5, <1>6, <1>10, <2>2 DEF Described, Describing
  <2> QED
    BY <2>1, <2>2
<1> QED
  BY <1>3, <1>4, <1>5, <1>6, <1>7, <1>9, <1>10, <1>11, ManifestMoves

-----------------------------------------------------------------------------
(* The operations, the registry and reclamation.                            *)

LEMMA QueueOpen ==
  ASSUME DiskInv
  PROVE  \A l \in InQueue(q) : l \in Leases /\ q.amount[l] # Closed
<1>1. q \in Quota
  BY DEF DiskInv, QuotaSound
<1>2. InQueue(q) \subseteq Leases
  BY <1>1, QuotaFields DEF InQueue
<1>3. ASSUME NEW f \in Files
      PROVE  /\ Data(f) \in InQueue(q) => q.amount[Data(f)] # Closed
             /\ Side(f) \in InQueue(q) => q.amount[Side(f)] # Closed
  BY DEF DiskInv, FileSound, Queued, Owning, OwnsData, OwnsSide, Writing
<1> QED
  BY <1>2, <1>3, LeasesOfFiles

\* No writer moves, and the leases and entries stay.
LEMMA StillFiles ==
  ASSUME DiskInv, QuotaSound(q'), q'.amount = q.amount, q'.granted = q.granted, InQueue(q') = InQueue(q),
         UNCHANGED <<pc, size, attached, orphans, cut>>, part' \subseteq part, final' \subseteq final,
         \A g \in Files : side'[g] \in {"none", side[g]} /\ (reg'[g] # "no" <=> reg[g] # "no")
  PROVE  \A g \in Files : FileSound(g)'
<1> SUFFICES ASSUME NEW g \in Files PROVE FileSound(g)'
  OBVIOUS
<1>1. q.amount[Data(g)] \in Int /\ q.amount[Side(g)] \in Int
  BY FileAmounts DEF DiskInv, QuotaSound
<1>2. Kept(q, q', Data(g)) /\ Kept(q, q', Side(g))
  BY <1>1 DEF Kept
<1>3. FileStays(g)
  BY <1>2 DEF FileStays, DataStays, SideStays
<1> QED
  BY <1>3, StaySound

\* The registry's marks, the reclaimer's steps and what happens outside.
LEMMA QuietSound ==
  ASSUME PinInv, DiskInv, q' = q, op' = op, UNCHANGED <<pc, size, attached, orphans, cut>>,
         part' \subseteq part, final' \subseteq final, DOMAIN side' = Files,
         \A g \in Files : side'[g] \in {"none", side[g]} /\ (reg'[g] # "no" <=> reg[g] # "no"),
         Deleted'
  PROVE  DiskInv'
<1>1. DiskTypes'
  BY DEF DiskInv, DiskTypes
<1>2. QuotaSound(q') /\ Settled(q')
  BY DEF DiskInv
<1>3. \A g \in Files : FileSound(g)'
  BY <1>2, StillFiles
<1>4. \A o \in Ops : TransactionOpen(o)'
  BY DEF DiskInv, TransactionOpen, Open
<1> QED
  BY <1>1, <1>2, <1>3, <1>4 DEF DiskInv

LEMMA MarksSound ==
  ASSUME PinInv, DiskInv, NEW f \in Files,
         Pin(f) \/ Unpin(f) \/ Purge(f) \/ RemoveExternally(f) \/ ReclaimBegin(f)
  PROVE  DiskInv'
<1>1. DOMAIN side = Files /\ DOMAIN reg = Files
  BY DEF DiskInv, DiskTypes, PinInv, PinTypes
<1>2. /\ q' = q /\ op' = op /\ UNCHANGED <<pc, size, attached, orphans, cut>>
      /\ part' \subseteq part /\ final' \subseteq final /\ side' = side
  BY DEF Pin, Unpin, Purge, RemoveExternally, ReclaimBegin, disk, registry, history
<1>3. \A g \in Files : reg'[g] # "no" <=> reg[g] # "no"
  BY <1>1 DEF Pin, Unpin, Purge, RemoveExternally, ReclaimBegin, registry
<1>4. busy' = busy \/ busy'.step = "delete"
  BY DEF Pin, Unpin, Purge, RemoveExternally, ReclaimBegin, reclaim
<1>5. Deleted'
  BY <1>2, <1>4 DEF DiskInv, Deleted
<1> QED
  BY <1>1, <1>2, <1>3, <1>5, QuietSound

LEMMA SweepsSound ==
  ASSUME PinInv, DiskInv, Sweep \/ ShutdownBegin \/ MarkAll \/ DrainSweep \/ UNCHANGED vars
  PROVE  DiskInv'
<1>1. DOMAIN side = Files /\ DOMAIN reg = Files
  BY DEF DiskInv, DiskTypes, PinInv, PinTypes
<1>2. /\ q' = q /\ op' = op /\ UNCHANGED <<pc, size, attached, orphans, cut, part, final, side, busy>>
  BY DEF Sweep, ShutdownBegin, MarkAll, DrainSweep, vars, disk, registry, history, reclaim
<1>3. \A g \in Files : reg'[g] # "no" <=> reg[g] # "no"
  BY <1>1 DEF Sweep, ShutdownBegin, MarkAll, DrainSweep, SweepBatch, Expirable, vars, registry
<1>4. Deleted'
  BY <1>2 DEF DiskInv, Deleted
<1> QED
  BY <1>1, <1>2, <1>3, <1>4, QuietSound

LEMMA ReclaimDeleteSound ==
  ASSUME PinInv, DiskInv, ReclaimDelete
  PROVE  DiskInv'
<1>1. DOMAIN side = Files
  BY DEF DiskInv, DiskTypes
<1>2. PICK f \in Files : busy = [file |-> f, step |-> "delete"]
  BY DEF PinInv, ReclaimQuiet, Nothing, ReclaimDelete
<1>3. q' = q /\ op' = op /\ UNCHANGED <<pc, size, reg, attached, orphans, cut>>
  BY DEF ReclaimDelete, registry, history
<1>4. /\ part' \subseteq part /\ final' \subseteq final /\ DOMAIN side' = Files
      /\ \A g \in Files : side'[g] \in {"none", side[g]}
  BY <1>1, <1>2 DEF ReclaimDelete
<1>5. \/ /\ part' = part \ {f} /\ final' = final \ {f} /\ side' = [side EXCEPT ![f] = "none"]
         /\ busy' = [busy EXCEPT !.step = "unregister"]
      \/ busy' = Nothing
  BY <1>2 DEF ReclaimDelete
<1>6. Deleted'
  <2>1. CASE busy' = Nothing
    BY <2>1 DEF Deleted, Nothing
  <2>2. CASE /\ part' = part \ {f} /\ final' = final \ {f} /\ side' = [side EXCEPT ![f] = "none"]
             /\ busy' = [busy EXCEPT !.step = "unregister"]
    <3>1. busy'.file = f
      BY <1>2, <2>2
    <3> QED
      BY <1>1, <2>2, <3>1 DEF Deleted
  <2> QED
    BY <1>5, <2>1, <2>2
<1> QED
  BY <1>3, <1>4, <1>6, QuietSound

\* Settle: the transactions of operations that have returned close with their last lease.
LEMMA SettleSound ==
  ASSUME DiskInv, DiskTypes', NEW r, QuotaSound(r), Settled(r), \A l \in InQueue(r) : r.amount[l] # Closed,
         \A o \in Ops : /\ r.tx[o] = Closed <=> q.tx[o] = Closed
                        /\ op'[o] = "idle" => op[o] = "idle"
                        /\ Open(o)' => Open(o),
         q' = Settle(r, op')
  PROVE  /\ QuotaSound(q') /\ Settled(q') /\ q'.amount = r.amount /\ q'.granted = r.granted
         /\ InQueue(q') = InQueue(r) /\ \A o \in Ops : TransactionOpen(o)'
<1>1. PICK ops : ops = {o \in Ops : op'[o] \in {"done", "failed"}}
  OBVIOUS
<1>2. q' = CloseTransactions(r, ops)
  BY <1>1 DEF Settle
<1>3. /\ QuotaSound(q') /\ Settled(q') /\ q'.amount = r.amount /\ q'.granted = r.granted
      /\ InQueue(q') = InQueue(r)
      /\ \A o \in Ops : q'.tx[o] # Closed <=>
           r.tx[o] # Closed /\ (o \in ops => \E l \in Leases : OpOf[l] = o /\ r.amount[l] # Closed)
  BY <1>2, CloseTransactionsSound
<1>4. ASSUME NEW o \in Ops PROVE TransactionOpen(o)'
  <2>1. TransactionOpen(o) /\ op'[o] \in {"idle", "run", "stop", "clean", "done", "failed"}
    BY DEF DiskInv, DiskTypes
  <2>2. \A l \in Leases : OpOf[l] = o /\ r.amount[l] # Closed => r.tx[o] # Closed
    BY DEF QuotaSound, Books
  <2>3. Open(o) => r.tx[o] # Closed
    BY <2>1 DEF TransactionOpen
  <2>4. op[o] = "idle" => r.tx[o] = Closed
    BY <2>1 DEF TransactionOpen
  <2>5. CASE op'[o] = "idle"
    BY <1>3, <2>2, <2>4, <2>5 DEF TransactionOpen, Open
  <2>6. CASE op'[o] \in {"run", "stop", "clean"}
    <3>1. Open(o)' /\ Open(o) /\ o \notin ops
      BY <1>1, <2>6 DEF Open
    <3> QED
      BY <1>3, <2>3, <2>6, <3>1 DEF TransactionOpen
  <2>7. CASE op'[o] \in {"done", "failed"}
    BY <1>1, <1>3, <2>2, <2>7 DEF TransactionOpen, Open
  <2> QED
    BY <2>1, <2>5, <2>6, <2>7
<1> QED
  BY <1>3, <1>4

LEMMA StartSound ==
  ASSUME PinInv, DiskInv, NEW o \in Ops, StartOp(o)
  PROVE  DiskInv'
<1>1. /\ op[o] = "idle" /\ op' = [op EXCEPT ![o] = "run"] /\ q' = RegisterTransaction(q, o)
      /\ UNCHANGED <<pc, size, part, final, side, reg, attached, orphans, busy, cut>>
  BY DEF StartOp, disk, registry, reclaim, history
<1>2. DiskTypes /\ QuotaSound(q) /\ Settled(q) /\ q.tx[o] = Closed
  BY <1>1 DEF DiskInv, TransactionOpen
<1>3. DiskTypes' /\ op'[o] = "run" /\ \A x \in Ops : x # o => op'[x] = op[x]
  BY <1>1, <1>2 DEF DiskTypes
<1>4. /\ QuotaSound(q') /\ Settled(q') /\ q'.amount = q.amount
      /\ q'.granted = q.granted /\ InQueue(q') = InQueue(q)
      /\ q'.tx[o] # Closed /\ \A x \in Ops : x # o => q'.tx[x] = q.tx[x]
  BY <1>1, <1>2, OpenSound
<1>5. \A g \in Files : FileSound(g)'
  BY <1>1, <1>4, StillFiles
<1>6. ASSUME NEW x \in Ops PROVE TransactionOpen(x)'
  <2>1. CASE x = o
    BY <1>3, <1>4, <2>1 DEF TransactionOpen, Open
  <2>2. CASE x # o
    BY <1>3, <1>4, <2>2 DEF DiskInv, TransactionOpen, Open
  <2> QED
    BY <2>1, <2>2
<1>7. Deleted'
  BY <1>1 DEF DiskInv, Deleted
<1> QED
  BY <1>3, <1>4, <1>5, <1>6, <1>7 DEF DiskInv

\* An operation is cancelled, or cleans up: its transaction stays open.
LEMMA StopSound ==
  ASSUME PinInv, DiskInv, NEW o \in Ops, StopOp(o) \/ CleanupOp(o)
  PROVE  DiskInv'
<1>1. /\ Open(o) /\ q' = q /\ UNCHANGED <<pc, size, part, final, side, attached, orphans, busy, cut>>
      /\ \E step \in {"stop", "clean"} : op' = [op EXCEPT ![o] = step]
  BY DEF StopOp, CleanupOp, disk, registry, reclaim, history, Open
<1>2. DiskTypes /\ QuotaSound(q') /\ Settled(q') /\ DOMAIN reg = Files
  BY <1>1 DEF DiskInv, PinInv, PinTypes
<1>3. DiskTypes' /\ Open(o)' /\ \A x \in Ops : x # o => op'[x] = op[x]
  BY <1>1, <1>2 DEF DiskTypes, Open
<1>4. \A g \in Files : reg'[g] # "no" <=> reg[g] # "no"
  BY <1>2 DEF StopOp, CleanupOp, registry
<1>5. \A g \in Files : FileSound(g)'
  BY <1>1, <1>2, <1>4, StillFiles
<1>6. ASSUME NEW x \in Ops PROVE TransactionOpen(x)'
  <2>1. TransactionOpen(x)
    BY DEF DiskInv
  <2>2. CASE x = o
    BY <1>1, <1>3, <2>1, <2>2 DEF TransactionOpen, Open
  <2>3. CASE x # o
    BY <1>1, <1>3, <2>1, <2>3 DEF TransactionOpen, Open
  <2> QED
    BY <2>2, <2>3
<1>7. Deleted'
  BY <1>1 DEF DiskInv, Deleted
<1> QED
  BY <1>2, <1>3, <1>5, <1>6, <1>7 DEF DiskInv

\* An operation returns.
LEMMA ReturnSound ==
  ASSUME PinInv, DiskInv, NEW o \in Ops, FinishOp(o) \/ RemoveOpDir(o)
  PROVE  DiskInv'
<1>1. /\ Open(o) /\ q' = Settle(q, op') /\ UNCHANGED <<pc, size, reg, attached, orphans, busy, cut>>
      /\ \E step \in {"done", "failed"} : op' = [op EXCEPT ![o] = step]
  BY DEF FinishOp, RemoveOpDir, registry, reclaim, history, Open, Active
<1>2. DiskTypes /\ QuotaSound(q) /\ Settled(q)
  BY DEF DiskInv
<1>3. /\ part' \subseteq part /\ final' \subseteq final /\ DOMAIN side' = Files
      /\ \A g \in Files : side'[g] \in {"none", side[g]}
  BY <1>2 DEF FinishOp, RemoveOpDir, disk, DiskTypes
<1>4. DiskTypes'
  BY <1>1, <1>2, <1>3 DEF DiskTypes
<1>5. \A x \in Ops : (op'[x] = "idle" => op[x] = "idle") /\ (Open(x)' => Open(x))
  BY <1>1, <1>2 DEF DiskTypes, Open
<1>6. /\ QuotaSound(q') /\ Settled(q') /\ q'.amount = q.amount /\ q'.granted = q.granted
      /\ InQueue(q') = InQueue(q) /\ \A x \in Ops : TransactionOpen(x)'
  BY <1>1, <1>2, <1>4, <1>5, QueueOpen, SettleSound
<1>7. \A g \in Files : FileSound(g)'
  BY <1>1, <1>3, <1>6, StillFiles
<1>8. Deleted'
  BY <1>1, <1>3 DEF DiskInv, Deleted, PinInv, ReclaimQuiet, Nothing
<1> QED
  BY <1>4, <1>6, <1>7, <1>8 DEF DiskInv

\* Leases are dropped and transactions settled.
LEMMA DropSettleSound ==
  ASSUME DiskInv, DiskTypes', op' = op, NEW ls \in SUBSET Leases, ls \cap InQueue(q) = {},
         q' = Settle(DropLeases(q, ls), op)
  PROVE  /\ QuotaSound(q') /\ Settled(q') /\ InQueue(q') \subseteq InQueue(q)
         /\ (\A l \in ls : q'.amount[l] = Closed) /\ (\A l \in Leases \ ls : Kept(q, q', l))
         /\ \A o \in Ops : TransactionOpen(o)'
<1>1. PICK r : r = DropLeases(q, ls)
  OBVIOUS
<1>2. QuotaSound(q) /\ Settled(q)
  BY DEF DiskInv
<1>3. QuotaSound(r) /\ Settled(r) /\ Flows(q, r, ls)
  BY <1>1, <1>2, DropsSound
<1>4. \A l \in InQueue(r) : r.amount[l] # Closed
  BY <1>3, QueueOpen DEF Flows, Kept
<1>5. \A o \in Ops : /\ r.tx[o] = Closed <=> q.tx[o] = Closed
                     /\ op'[o] = "idle" => op[o] = "idle"
                     /\ Open(o)' => Open(o)
  BY <1>3 DEF Flows, Open
<1>6. /\ QuotaSound(q') /\ Settled(q') /\ q'.amount = r.amount /\ q'.granted = r.granted
      /\ InQueue(q') = InQueue(r) /\ \A o \in Ops : TransactionOpen(o)'
  BY <1>1, <1>3, <1>4, <1>5, SettleSound
<1>7. \A l \in Leases \ ls : Kept(q, q', l)
  BY <1>3, <1>6 DEF Flows, Kept
<1> QED
  BY <1>3, <1>6, <1>7 DEF Flows

\* What is left of file g, when the entries of fs go with their leases, those of
\* bare lose their sidecar's lease, and the orphans of freed are given back.
Leaves(g, fs, bare, freed) ==
  /\ reg'[g] = (IF g \in fs THEN "no" ELSE reg[g])
  /\ side'[g] \in {"none", side[g]}
  /\ g \in fs => g \notin final' /\ (g \in attached => side'[g] = "none")
  /\ g \in bare => side'[g] = "none"
  /\ Data(g) \in freed => g \notin part' \cup final'
  /\ Side(g) \in freed => side'[g] = "none"

Removing(fs, bare, freed) ==
  /\ fs \subseteq {f \in Files : reg[f] # "no"} /\ bare \subseteq attached /\ freed \subseteq orphans
  /\ attached' = attached \ (fs \cup bare) /\ orphans' = orphans \ freed
  /\ part' \subseteq part /\ final' \subseteq final /\ DOMAIN side' = Files
  /\ \A g \in Files : Leaves(g, fs, bare, freed)

LEMMA RemovalSound ==
  ASSUME PinInv, DiskInv, Deleted', UNCHANGED <<op, pc, size, cut>>, NEW fs, NEW bare, NEW freed,
         Removing(fs, bare, freed),
         q' = Settle(DropLeases(q, freed \cup EntryLeases(fs) \cup {Side(f) : f \in bare}), op)
  PROVE  DiskInv'
<1> USE DEF Removing, Leaves
<1>1. PICK ls : ls = freed \cup EntryLeases(fs) \cup {Side(f) : f \in bare}
  OBVIOUS
<1>2. DiskTypes /\ bare \subseteq Files /\ fs \subseteq Files
  BY DEF DiskInv, DiskTypes
<1>3. DiskTypes'
  BY <1>2 DEF DiskTypes
<1>4. ASSUME NEW g \in Files
      PROVE  /\ Data(g) \in ls <=> Data(g) \in freed \/ g \in fs
             /\ Side(g) \in ls <=> Side(g) \in freed \/ g \in fs \cap attached \/ g \in bare
  <2>1. Data(g) \in ls <=> Data(g) \in freed \/ g \in fs
    BY <1>1, <1>2, LeasesOfFiles DEF EntryLeases
  <2>2. Side(g) \in ls <=> Side(g) \in freed \/ g \in fs \cap attached \/ g \in bare
    BY <1>1, <1>2, LeasesOfFiles DEF EntryLeases
  <2> QED
    BY <2>1, <2>2
<1>5. ASSUME NEW g \in Files, Data(g) \in ls
      PROVE  DataGoes(g) \/ q'.amount[Data(g)] # Closed
  <2>1. FileSound(g)
    BY DEF DiskInv
  <2>2. reg[g] # "no" => pc[g] \in Past
    BY DEF PinInv, EntriesPast
  <2>3. CASE Data(g) \in freed
    <3>1. pc[g] = "dropped" /\ reg[g] = "no" /\ g \notin attached
      BY <2>1, <2>2, <2>3 DEF FileSound, Placed, Past
    <3> QED
      BY <2>3, <3>1 DEF DataGoes, Writing
  <2>4. CASE g \in fs
    <3>1. pc[g] \in Past /\ reg'[g] = "no" /\ g \notin attached'
      BY <2>2, <2>4
    <3>2. Data(g) \notin orphans /\ g \notin part /\ g \notin final'
      BY <2>1, <2>4, <3>1 DEF FileSound, Placed, Past
    <3> QED
      BY <3>1, <3>2 DEF DataGoes, Past, Writing
  <2> QED
    BY <1>4, <1>5, <2>3, <2>4
<1>6. ASSUME NEW g \in Files, Side(g) \in ls
      PROVE  SideGoes(g) \/ q'.amount[Side(g)] # Closed
  <2>1. FileSound(g)
    BY DEF DiskInv
  <2>2. CASE Side(g) \in freed
    <3>1. pc[g] = "mfailed" /\ g \notin attached
      BY <2>1, <2>2 DEF FileSound, Placed
    <3> QED
      BY <2>2, <3>1 DEF SideGoes, Describing
  <2>3. CASE g \in (fs \cap attached) \cup bare
    <3>1. pc[g] = "finished" /\ Side(g) \notin orphans
      BY <2>1, <2>3 DEF FileSound, Placed
    <3> QED
      BY <2>3, <3>1 DEF SideGoes, Describing
  <2> QED
    BY <1>4, <1>6, <2>2, <2>3
<1>7. ls \in SUBSET Leases
  BY <1>1, <1>2, LeasesOfFiles DEF EntryLeases, DiskTypes
<1>8. ls \cap InQueue(q) = {}
  <2> SUFFICES ASSUME NEW l \in ls, l \in InQueue(q) PROVE FALSE
    OBVIOUS
  <2>1. PICK g \in Files : l = Data(g) \/ l = Side(g)
    BY <1>7, LeasesOfFiles
  <2>2. FileSound(g) /\ (reg[g] # "no" => pc[g] \in Past)
    BY DEF DiskInv, PinInv, EntriesPast
  <2>3. CASE l = Data(g)
    <3>1. pc[g] = "wait" /\ (Data(g) \in freed \/ g \in fs)
      BY <1>4, <2>2, <2>3 DEF FileSound, Queued
    <3> QED
      BY <2>2, <3>1 DEF FileSound, Placed, Past
  <2>4. CASE l = Side(g)
    <3>1. pc[g] = "mwait" /\ (Side(g) \in orphans \/ g \in attached)
      BY <1>4, <2>2, <2>4 DEF FileSound, Queued
    <3> QED
      BY <2>2, <3>1 DEF FileSound, Placed
  <2> QED
    BY <2>1, <2>3, <2>4
<1>9. /\ QuotaSound(q') /\ Settled(q') /\ InQueue(q') \subseteq InQueue(q)
      /\ (\A l \in ls : q'.amount[l] = Closed) /\ (\A l \in Leases \ ls : Kept(q, q', l))
      /\ \A o \in Ops : TransactionOpen(o)'
  BY <1>1, <1>3, <1>7, <1>8, DropSettleSound
<1>10. ASSUME NEW g \in Files PROVE FileSound(g)'
  <2>1. Data(g) \in Leases /\ Side(g) \in Leases
    BY LeasesOfFiles
  <2>2. DataStays(g) \/ DataGoes(g)
    <3>1. CASE Data(g) \in ls
      BY <1>5, <1>9, <3>1
    <3>2. CASE Data(g) \notin ls
      <4>1. Kept(q, q', Data(g)) /\ Data(g) \notin freed /\ g \notin fs
        BY <1>4, <1>9, <2>1, <3>2
      <4> QED
        BY <4>1 DEF DataStays
    <3> QED
      BY <3>1, <3>2
  <2>3. SideStays(g) \/ SideGoes(g)
    <3>1. CASE Side(g) \in ls
      BY <1>6, <1>9, <3>1
    <3>2. CASE Side(g) \notin ls
      <4>1. Kept(q, q', Side(g)) /\ Side(g) \notin freed /\ g \notin fs \cap attached /\ g \notin bare
        BY <1>4, <1>9, <2>1, <3>2
      <4> QED
        BY <4>1 DEF SideStays
    <3> QED
      BY <3>1, <3>2
  <2>4. FileStays(g)
    BY <1>9, <2>2, <2>3 DEF FileStays
  <2> QED
    BY <1>9, <2>4, StaySound
<1> QED
  BY <1>3, <1>9, <1>10 DEF DiskInv

LEMMA ReconcileSound ==
  ASSUME PinInv, DiskInv, Reconcile, UNCHANGED <<op, pc, size, part, final, busy, cut>>
  PROVE  DiskInv'
<1>1. PICK fs, bare, stuck, freed :
        /\ fs = {f \in Files : reg[f] # "no" /\ f \notin final} \ stuck
        /\ bare = {f \in attached : f \in final /\ side[f] = "none"}
        /\ freed = {l \in orphans : ~OnDisk(l) \/ \E f \in fs : l = Side(f)}
        /\ Unregister(fs)
        /\ attached' = attached \ (fs \cup bare)
        /\ side' = [f \in Files |-> IF f \in fs THEN "none" ELSE side[f]]
        /\ orphans' = orphans \ freed
        /\ q' = Settle(DropLeases(q, freed \cup EntryLeases(fs) \cup {Side(f) : f \in bare}), op)
  BY DEF Reconcile
<1>2. /\ fs \subseteq {f \in Files : reg[f] # "no"} /\ bare \subseteq attached /\ freed \subseteq orphans
      /\ part' \subseteq part /\ final' \subseteq final /\ DOMAIN side' = Files
      /\ \A g \in Files : reg'[g] = IF g \in fs THEN "no" ELSE reg[g]
  BY <1>1 DEF Unregister
<1>3. ASSUME NEW g \in Files
      PROVE  /\ side'[g] \in {"none", side[g]}
             /\ g \in fs => g \notin final' /\ (g \in attached => side'[g] = "none")
             /\ g \in bare => side'[g] = "none"
             /\ Data(g) \in freed => g \notin part' \cup final'
             /\ Side(g) \in freed => side'[g] = "none"
  <2>1. side'[g] \in {"none", side[g]} /\ (g \in fs => g \notin final' /\ side'[g] = "none") /\ (g \in bare => side'[g] = "none")
    BY <1>1
  <2>2. Data(g) \in freed => g \notin part' \cup final'
    <3>1. Data(g) \in freed => ~OnDisk(Data(g))
      BY <1>1, <1>2, LeasesOfFiles
    <3> QED
      BY <3>1 DEF OnDisk
  <2>3. Side(g) \in freed => side'[g] = "none"
    <3>1. Side(g) \in freed => ~OnDisk(Side(g)) \/ g \in fs
      BY <1>1, <1>2, LeasesOfFiles
    <3> QED
      BY <2>1, <3>1 DEF OnDisk
  <2> QED
    BY <2>1, <2>2, <2>3
<1>4. Deleted'
  <2> SUFFICES ASSUME busy.step = "unregister" PROVE busy.file \notin part \cup final /\ (busy.file \in attached' => side'[busy.file] = "none")
    BY DEF Deleted
  <2>1. PICK g \in Files : busy.file = g
    BY DEF PinInv, ReclaimQuiet, Nothing
  <2> QED
    BY <1>1, <1>3, <2>1 DEF DiskInv, Deleted
<1>5. Removing(fs, bare, freed)
  BY <1>1, <1>2, <1>3 DEF Removing, Leaves
<1> QED
  BY <1>1, <1>4, <1>5, RemovalSound

LEMMA ReclaimUnregisterSound ==
  ASSUME PinInv, DiskInv, ReclaimUnregister
  PROVE  DiskInv'
<1>1. PICK f \in Files : busy.file = f /\ busy.step = "unregister"
  BY DEF PinInv, ReclaimQuiet, Nothing, ReclaimUnregister
<1>2. PICK fs, freed, bare : /\ fs = (IF reg[f] = "no" THEN {} ELSE {f}) /\ bare = {}
                             /\ freed = {l \in orphans : ~OnDisk(l)}
  OBVIOUS
<1>3. EntryLeases({}) = {}
  BY DEF EntryLeases
<1>4. (IF reg[f] = "no" THEN {} ELSE EntryLeases({f})) = EntryLeases(fs) /\ {Side(g) : g \in bare} = {}
  BY <1>2, <1>3
<1>5. /\ UNCHANGED <<op, pc, size, cut, part, final, side>> /\ busy' = Nothing /\ Unregister({f})
      /\ attached' = attached \ {f} /\ orphans' = orphans \ freed
  BY <1>1, <1>2 DEF ReclaimUnregister, disk, history
<1>6. q' = Settle(DropLeases(q, EntryLeases(fs) \cup freed), op)
  BY <1>1, <1>2, <1>4 DEF ReclaimUnregister
<1>7. EntryLeases(fs) \cup freed = freed \cup EntryLeases(fs) \cup {Side(g) : g \in bare}
  BY <1>4
<1>8. q' = Settle(DropLeases(q, freed \cup EntryLeases(fs) \cup {Side(g) : g \in bare}), op)
  BY <1>6, <1>7
<1>9. FileSound(f) /\ DOMAIN side = Files /\ f \notin part \cup final /\ (f \in attached => side[f] = "none")
  BY <1>1 DEF DiskInv, DiskTypes, Deleted
<1>10. f \in attached => reg[f] # "no"
  BY <1>9 DEF FileSound, Placed
<1>11. /\ fs \subseteq {g \in Files : reg[g] # "no"} /\ bare \subseteq attached /\ freed \subseteq orphans
       /\ attached' = attached \ (fs \cup bare)
  BY <1>1, <1>2, <1>5, <1>10
<1>12. \A g \in Files : reg'[g] = IF g \in fs THEN "no" ELSE reg[g]
  BY <1>2, <1>5 DEF Unregister
<1>13. ASSUME NEW g \in Files
       PROVE  /\ side'[g] \in {"none", side[g]}
              /\ g \in fs => g \notin final' /\ (g \in attached => side'[g] = "none")
              /\ g \in bare => side'[g] = "none"
              /\ Data(g) \in freed => g \notin part' \cup final'
              /\ Side(g) \in freed => side'[g] = "none"
  <2>1. g \in fs => g = f
    BY <1>2
  <2>2. Data(g) \in freed => g \notin part' \cup final'
    BY <1>2, <1>5 DEF OnDisk
  <2>3. Side(g) \in freed => side'[g] = "none"
    BY <1>2, <1>5 DEF OnDisk
  <2> QED
    BY <1>2, <1>5, <1>9, <2>1, <2>2, <2>3
<1>14. Deleted'
  BY <1>5 DEF Deleted, Nothing
<1>15. Removing(fs, bare, freed)
  BY <1>5, <1>9, <1>11, <1>12, <1>13 DEF Removing, Leaves
<1> QED
  BY <1>5, <1>8, <1>14, <1>15, RemovalSound

LEMMA CleanupSessionSound ==
  ASSUME PinInv, DiskInv, CleanupSession
  PROVE  DiskInv'
<1>1. CASE Reconcile /\ UNCHANGED <<op, pc, size, part, final, reclaim, history>>
  BY <1>1, ReconcileSound DEF reclaim, history
<1>2. CASE ~(Reconcile /\ UNCHANGED <<op, pc, size, part, final, reclaim, history>>)
  <2>1. PICK fs, bare : fs = {f \in Files : reg[f] # "no"} /\ bare = {}
    OBVIOUS
  <2>2. /\ UNCHANGED <<op, pc, size, busy, cut>> /\ part' = {} /\ final' = {} /\ side' = [f \in Files |-> "none"]
        /\ Unregister(fs) /\ attached' = {} /\ orphans' = {}
        /\ q' = Settle(DropLeases(q, orphans \cup EntryLeases(fs)), op)
    BY <1>2, <2>1 DEF CleanupSession, reclaim, history
  <2>3. orphans \cup EntryLeases(fs) = orphans \cup EntryLeases(fs) \cup {Side(g) : g \in bare}
    BY <2>1
  <2>4. q' = Settle(DropLeases(q, orphans \cup EntryLeases(fs) \cup {Side(g) : g \in bare}), op)
    BY <2>2, <2>3
  <2>5. attached \subseteq fs
    BY <2>1 DEF DiskInv, DiskTypes, FileSound, Placed
  <2>6. attached' = attached \ (fs \cup bare) /\ orphans' = orphans \ orphans
    BY <2>2, <2>5
  <2>7. Deleted'
    <3> SUFFICES ASSUME busy.step = "unregister" PROVE side'[busy.file] = "none"
      BY <2>2 DEF Deleted
    <3>1. busy.file \in Files
      BY DEF PinInv, ReclaimQuiet, Nothing
    <3> QED
      BY <2>2, <3>1
  <2>8. /\ \A g \in Files : reg'[g] = IF g \in fs THEN "no" ELSE reg[g]
        /\ \A g \in Files : side'[g] = "none" /\ g \notin part' \cup final'
        /\ part' \subseteq part /\ final' \subseteq final /\ DOMAIN side' = Files
        /\ fs \subseteq {f \in Files : reg[f] # "no"} /\ bare \subseteq attached
    BY <2>1, <2>2 DEF Unregister
  <2>9. Removing(fs, bare, orphans)
    BY <2>6, <2>8 DEF Removing, Leaves
  <2> QED
    BY <2>2, <2>4, <2>7, <2>9, RemovalSound
<1> QED
  BY <1>1, <1>2

LEMMA DiskStep == PinInv /\ DiskInv /\ [Next]_vars => DiskInv'
<1> SUFFICES ASSUME PinInv, DiskInv, [Next]_vars PROVE DiskInv'
  OBVIOUS
<1>1. ASSUME NEW f \in Files, WriterStep(f) PROVE DiskInv'
  BY <1>1, WriterSound
<1>2. ASSUME NEW f \in Files, ManifestStep(f) PROVE DiskInv'
  BY <1>2, ManifestSound, ManifestWaitedSound, ManifestFileSound, ManifestCleanSound DEF ManifestStep
<1>3. ASSUME NEW f \in Files, Pin(f) \/ Unpin(f) \/ Purge(f) \/ RemoveExternally(f) PROVE DiskInv'
  BY <1>3, MarksSound
<1>4. ASSUME NEW o \in Ops, OpStep(o) PROVE DiskInv'
  BY <1>4, StartSound, StopSound, ReturnSound DEF OpStep
<1>5. CASE ReclaimStep
  BY <1>5, MarksSound, ReclaimDeleteSound, ReclaimUnregisterSound DEF ReclaimStep
<1>6. CASE ReconcileDisk
  BY <1>6, ReconcileSound DEF ReconcileDisk, reclaim, history
<1>7. CASE Sweep \/ ShutdownStep \/ UNCHANGED vars
  BY <1>7, SweepsSound, CleanupSessionSound DEF ShutdownStep
<1> QED
  BY <1>1, <1>2, <1>3, <1>4, <1>5, <1>6, <1>7 DEF Next

LEMMA DiskInitial == Init => DiskInv
<1> SUFFICES ASSUME Init PROVE DiskInv
  OBVIOUS
<1>1. /\ q.reserved = 0 /\ q.tx = [o \in Ops |-> Closed] /\ q.amount = [l \in Leases |-> Closed]
      /\ q.waiters = <<>> /\ q.granted = {} /\ q.refused = {} /\ q = Empty
  BY DEF Init, Empty
<1>2. q \in Quota
  BY <1>1 DEF Empty, Quota, Closed
<1>3. HeldBy(q, Leases) = 0
  <2>1. \A l \in Leases : l \in Leases => q.amount[l] = Closed
    BY <1>1
  <2> QED
    BY <1>2, <2>1, HeldNone
<1>4. Books(q)
  <2>1. Limit \in Nat
    BY QuotaConstants
  <2> QED
    BY <1>1, <1>3, <2>1 DEF Books
<1>5. Queue(q) /\ Settled(q) /\ InQueue(q) = {}
  BY <1>1 DEF Queue, Settled, InQueue
<1>6. QuotaSound(q)
  BY <1>2, <1>4, <1>5 DEF QuotaSound
<1>7. ASSUME NEW f \in Files PROVE FileSound(f)
  <2>1. q.amount[Data(f)] = Closed /\ q.amount[Side(f)] = Closed
    BY <1>1, LeasesOfFiles
  <2>2. /\ pc[f] = "none" /\ size[f] = 0 /\ part = {} /\ final = {} /\ side[f] = "none" /\ reg[f] = "no"
        /\ attached = {} /\ orphans = {}
    BY DEF Init
  <2>3. Placed(f) /\ Queued(f)
    BY <1>5, <2>2 DEF Placed, Queued
  <2>4. Holds(f) /\ Covered(f)
    BY <1>1, <2>2 DEF Holds, Covered, Writing, Describing
  <2>5. Owning(f)
    BY <2>1, <2>2 DEF Owning, OwnsData, OwnsSide, Writing, Describing
  <2> QED
    BY <2>3, <2>4, <2>5 DEF FileSound
<1>8. \A o \in Ops : TransactionOpen(o)
  BY <1>1 DEF Init, TransactionOpen, Open
<1>9. DiskTypes /\ Deleted
  BY DEF Init, DiskTypes, Deleted, Nothing
<1> QED
  BY <1>5, <1>6, <1>7, <1>8, <1>9 DEF DiskInv

LEMMA DiskInvAccounted == DiskInv => DiskAccounted
<1> SUFFICES ASSUME DiskInv PROVE DiskAccounted
  OBVIOUS
<1>1. DiskReserved
  BY DEF DiskInv, FileSound, Covered, DiskReserved
<1>2. q.reserved = HeldBy(q, Leases) /\ q.reserved <= Limit
  BY DEF DiskInv, QuotaSound, Books
<1>3. ASSUME NEW l \in Leases PROVE q.amount[l] # Closed <=> Owned(l)
  <2>1. PICK f \in Files : l = Data(f) \/ l = Side(f)
    BY LeasesOfFiles
  <2>2. Owning(f)
    BY DEF DiskInv, FileSound
  <2>3. CASE l = Data(f)
    <3>1. Owned(l) <=> OwnsData(f)
      BY <2>3, LeasesOfFiles DEF Owned, OwnsData, Writing
    <3> QED
      BY <2>2, <2>3, <3>1 DEF Owning
  <2>4. CASE l = Side(f)
    <3>1. Owned(l) <=> OwnsSide(f)
      BY <2>4, LeasesOfFiles DEF Owned, OwnsSide, Describing
    <3> QED
      BY <2>2, <2>4, <3>1 DEF Owning
  <2> QED
    BY <2>1, <2>3, <2>4
<1>4. \A o \in Ops : q.tx[o] # Closed <=>
        op[o] \in {"run", "stop", "clean"} \/ \E l \in Registered(q) : OpOf[l] = o
  BY DEF DiskInv, TransactionOpen, Open, Registered
<1> QED
  BY <1>1, <1>2, <1>3, <1>4 DEF DiskAccounted, NothingLeaks

LEMMA DiskInvariant == Spec => [](PinInv /\ DiskInv)
<1>1. Init => PinInv /\ DiskInv
  BY PinInitial, DiskInitial
<1>2. PinInv /\ DiskInv /\ [Next]_vars => (PinInv /\ DiskInv)'
  BY PinStep, DiskStep
<1> QED
  BY <1>1, <1>2, PTL DEF Spec

\* For any number of files and operations, any ceiling and any sizes of chunks,
\* through commits, refusals, cancelled waits, failed deletes, sidecars, orphans,
\* reclamation, reconciliation and shutdown (StreamingDiskCoordinator,
\* StreamingDiskLease, ArtifactWriter, reconcile_missing_artifacts): every byte on
\* disk is covered by a lease, except that of a writer cut off in its rename; the
\* counter is the sum of the leases and within the ceiling; every lease has one
\* owner that will drop it; and a transaction closes with its operation and its
\* last lease.
THEOREM DiskIsAccounted == Spec => []DiskAccounted
<1>1. PinInv /\ DiskInv => DiskAccounted
  BY DiskInvAccounted
<1> QED
  BY <1>1, DiskInvariant, PTL

\* For any number of writers and manifests in the queue (acquire,
\* wake_waiters_locked, shrink, Drop of StreamingDiskLease): whoever gives bytes
\* back or leaves the queue wakes all that fit by then, so the waiter in front
\* always is one that does not fit.
THEOREM WaitersAreWoken == Spec => []NoLostWakeup
<1>1. PinInv /\ DiskInv => NoLostWakeup
  BY DEF DiskInv, Settled, NoLostWakeup
<1> QED
  BY <1>1, DiskInvariant, PTL
-----------------------------------------------------------------------------
(* The cuts of a window.                                                    *)

LEMMA Divides ==
  ASSUME NEW w \in Nat, NEW c \in Nat \ {0}
  PROVE  /\ w \div c \in Nat /\ w % c \in Nat /\ w % c < c
         /\ w = c * (w \div c) + (w % c)
<1>1. w \div c \in Nat
  OBVIOUS
<1>2. w % c \in 0 .. c - 1
  OBVIOUS
<1>3. w = c * (w \div c) + (w % c)
  OBVIOUS
<1> QED
  BY <1>1, <1>2, <1>3

LEMMA CutsAre ==
  ASSUME NEW start \in Int, NEW end \in Int, start < end, NEW requested \in Nat \ {0}
  PROVE  \E c \in Nat \ {0}, o \in Nat, r \in Nat :
           /\ c = Least(requested, end - start) /\ end - start = c * o + r /\ r < c
           /\ \A i \in 0 .. c : Cuts(start, end, requested)[i] = start + i * o + Least(i, r)
<1>1. PICK w \in Nat \ {0} : w = end - start
  OBVIOUS
<1>2. PICK c \in Nat \ {0} : c = Least(requested, w)
  BY DEF Least
<1>3. PICK o \in Nat : o = w \div c
  BY <1>1, <1>2, Divides
<1>4. PICK r \in Nat : r = w % c
  BY <1>1, <1>2, Divides
<1>5. w = c * o + r /\ r < c
  BY <1>1, <1>2, <1>3, <1>4, Divides
<1> DEFINE Wide(i) == IF i - 1 < r THEN 1 ELSE 0
           Means(g) == g = [i \in 0 .. c |-> IF i = 0 THEN start ELSE g[i - 1] + o + Wide(i)]
           Fall(i) == start + i * o + Least(i, r)
           f == [i \in 0 .. c |-> Fall(i)]
           u == CHOOSE g : Means(g)
<1>6. Cuts(start, end, requested) = u
  BY <1>1, <1>2, <1>3, <1>4, Zenon DEF Cuts
<1>7. Fall(0) = start /\ \A i \in 1 .. c : Fall(i) = Fall(i - 1) + o + Wide(i)
  <2>1. Fall(0) = start
    BY DEF Least
  <2>2. ASSUME NEW i \in 1 .. c PROVE Fall(i) = Fall(i - 1) + o + Wide(i)
    <3>1. PICK a \in Nat : a = (i - 1) * o
      OBVIOUS
    <3>2. i * o = a + o
      BY <3>1
    <3>3. Least(i, r) = Least(i - 1, r) + Wide(i)
      BY DEF Least
    <3>4. Least(i - 1, r) \in Int /\ Wide(i) \in Int
      BY DEF Least
    <3> HIDE DEF Wide
    <3> QED
      BY <3>1, <3>2, <3>3, <3>4
  <2> QED
    BY <2>1, <2>2
<1>8. Means(f)
  <2> HIDE DEF Fall, Wide
  <2>1. \A i \in 0 .. c : f[i] = Fall(i)
    OBVIOUS
  <2>2. \A i \in 0 .. c : Fall(i) = IF i = 0 THEN start ELSE f[i - 1] + o + Wide(i)
    <3> TAKE i \in 0 .. c
    <3>1. CASE i = 0
      BY <1>7, <3>1
    <3>2. CASE i # 0
      <4>1. i \in 1 .. c /\ i - 1 \in 0 .. c
        BY <3>2
      <4> QED
        BY <1>7, <2>1, <3>2, <4>1
    <3> QED
      BY <3>1, <3>2
  <2> QED
    BY <2>2
<1>9. Means(u)
  <2> HIDE DEF Means
  <2> QED
    BY <1>8, Zenon
<1> HIDE DEF u, f, Fall
<1> DEFINE S == {i \in 0 .. c : u[i] = Fall(i)}
<1>10. 0 \in S
  <2>1. 0 \in 0 .. c
    OBVIOUS
  <2> QED
    BY <1>7, <1>9, <2>1
<1>11. ASSUME NEW i \in 1 .. c, i - 1 \in S PROVE i \in S
  <2>1. i \in 0 .. c /\ i # 0
    OBVIOUS
  <2> HIDE DEF Wide
  <2>2. u[i] = u[i - 1] + o + Wide(i)
    BY <1>9, <2>1
  <2>3. u[i - 1] = Fall(i - 1)
    BY <1>11
  <2> QED
    BY <1>7, <2>1, <2>2, <2>3
<1>12. \A i \in 0 .. c : i \in S
  <2> HIDE DEF S
  <2> QED
    BY <1>10, <1>11, UpTo
<1>13. \A i \in 0 .. c : u[i] = start + i * o + Least(i, r)
  BY <1>12 DEF Fall
<1>14. /\ c = Least(requested, end - start) /\ end - start = c * o + r /\ r < c
       /\ \A i \in 0 .. c : Cuts(start, end, requested)[i] = start + i * o + Least(i, r)
  BY <1>1, <1>2, <1>5, <1>6, <1>13, Zenon
<1> QED
  BY <1>14

\* The intervals of a window: adjacent, inside it, and all of it.
Divided(n, iv, start, end) ==
  /\ \A i \in 1 .. n : /\ iv[i].start \in Int /\ iv[i].end \in Int
                       /\ start <= iv[i].start /\ iv[i].start <= iv[i].end /\ iv[i].end <= end
  /\ \A i, k \in 1 .. n : i # k => iv[i].end <= iv[k].start \/ iv[k].end <= iv[i].start
  /\ \A t \in Int : start <= t /\ t < end => \E i \in 1 .. n : iv[i].start <= t /\ t < iv[i].end

LEMMA HalvesDivide ==
  ASSUME NEW start \in Int, NEW end \in Int, start < end, NEW requested \in Nat \ {0}
  PROVE  \E n \in Nat : /\ n <= requested
                        /\ HalfOpenPartitions(start, end, requested) \in [1 .. n -> [start : Int, end : Int]]
                        /\ Divided(n, HalfOpenPartitions(start, end, requested), start, end)
<1> DEFINE edge == Cuts(start, end, requested)
           iv == HalfOpenPartitions(start, end, requested)
<1>1. PICK c \in Nat \ {0}, o \in Nat, r \in Nat :
           /\ c = Least(requested, end - start) /\ end - start = c * o + r /\ r < c
           /\ \A i \in 0 .. c : edge[i] = start + i * o + Least(i, r)
  BY CutsAre
<1>2. iv = [i \in 1 .. c |-> [start |-> edge[i - 1], end |-> edge[i]]]
  <2>1. ~(start >= end \/ requested = 0)
    OBVIOUS
  <2> QED
    BY <1>1, <2>1, Zenon DEF HalfOpenPartitions
<1>3. \A i \in 0 .. c : edge[i] \in Int
  <2> TAKE i \in 0 .. c
  <2>1. PICK a \in Nat : a = i * o
    OBVIOUS
  <2>2. Least(i, r) \in Nat
    BY DEF Least
  <2> HIDE DEF edge
  <2> QED
    BY <1>1, <2>1, <2>2
<1>4. ASSUME NEW i \in 0 .. c, NEW k \in 0 .. c, i <= k PROVE edge[i] <= edge[k]
  <2>1. PICK d \in Nat : k = i + d
    BY <1>4
  <2>2. PICK a \in Nat : a = i * o
    OBVIOUS
  <2>3. PICK b \in Nat : b = d * o
    OBVIOUS
  <2>4. k * o = a + b
    BY <2>1, <2>2, <2>3
  <2>5. Least(i, r) \in Nat /\ Least(k, r) \in Nat /\ Least(i, r) <= Least(k, r)
    BY <1>4 DEF Least
  <2> HIDE DEF edge
  <2> QED
    BY <1>1, <2>2, <2>4, <2>5
<1>5. edge[0] = start
  <2>1. 0 \in 0 .. c /\ Least(0, r) = 0 /\ 0 * o = 0
    BY DEF Least
  <2> HIDE DEF edge
  <2> QED
    BY <1>1, <2>1
<1>6. edge[c] = end
  <2>1. c \in 0 .. c /\ Least(c, r) = r
    BY <1>1 DEF Least
  <2>2. PICK a \in Nat : a = c * o
    OBVIOUS
  <2> HIDE DEF edge
  <2>3. edge[c] = start + a + r
    BY <1>1, <2>1, <2>2
  <2> QED
    BY <1>1, <2>2, <2>3
<1> HIDE DEF edge
<1>7. \A i \in 1 .. c : i - 1 \in 0 .. c /\ i \in 0 .. c
  OBVIOUS
<1>8. \A i \in 1 .. c : iv[i].start = edge[i - 1] /\ iv[i].end = edge[i]
  BY <1>2
<1>9. iv \in [1 .. c -> [start : Int, end : Int]]
  BY <1>2, <1>3, <1>7
<1> HIDE DEF iv
<1>10. ASSUME NEW i \in 1 .. c
       PROVE  /\ iv[i].start \in Int /\ iv[i].end \in Int
              /\ start <= iv[i].start /\ iv[i].start <= iv[i].end /\ iv[i].end <= end
  <2>1. edge[i - 1] \in Int /\ edge[i] \in Int
    BY <1>3, <1>7
  <2>2. edge[0] <= edge[i - 1] /\ edge[i - 1] <= edge[i] /\ edge[i] <= edge[c]
    BY <1>4, <1>7
  <2> QED
    BY <1>5, <1>6, <1>8, <2>1, <2>2
<1>11. ASSUME NEW i \in 1 .. c, NEW k \in 1 .. c, i # k
       PROVE  iv[i].end <= iv[k].start \/ iv[k].end <= iv[i].start
  <2>1. CASE i < k
    <3>1. i <= k - 1
      BY <2>1
    <3>2. edge[i] <= edge[k - 1]
      BY <1>4, <1>7, <3>1
    <3> QED
      BY <1>8, <3>2
  <2>2. CASE k < i
    <3>1. k <= i - 1
      BY <2>2
    <3>2. edge[k] <= edge[i - 1]
      BY <1>4, <1>7, <3>1
    <3> QED
      BY <1>8, <3>2
  <2> QED
    BY <1>11, <2>1, <2>2
<1>12. ASSUME NEW t \in Int, start <= t, t < end
       PROVE  \E i \in 1 .. c : iv[i].start <= t /\ t < iv[i].end
  <2> SUFFICES ASSUME \A i \in 1 .. c : ~(iv[i].start <= t /\ t < iv[i].end) PROVE FALSE
    OBVIOUS
  <2> DEFINE S == {i \in 0 .. c : edge[i] <= t}
  <2>1. 0 \in S
    BY <1>5, <1>12
  <2>2. ASSUME NEW i \in 1 .. c, i - 1 \in S PROVE i \in S
    <3>1. iv[i].start <= t
      BY <1>8, <2>2
    <3>2. ~(t < edge[i])
      BY <1>8, <3>1
    <3>3. edge[i] \in Int /\ i \in 0 .. c
      BY <1>3, <1>7
    <3> QED
      BY <3>2, <3>3
  <2>3. \A i \in 0 .. c : i \in S
    <3> HIDE DEF S
    <3> QED
      BY <2>1, <2>2, UpTo
  <2>4. edge[c] <= t
    BY <2>3
  <2> QED
    BY <1>6, <1>12, <2>4
<1>13. Divided(c, iv, start, end)
  BY <1>10, <1>11, <1>12 DEF Divided
<1>14. c <= requested
  BY <1>1 DEF Least
<1> QED
  BY <1>9, <1>13, <1>14 DEF iv

LEMMA IntervalsDivide ==
  ASSUME NEW j \in Jobs, Divisible(j)
  PROVE  \E n \in Nat : /\ n <= j.count
                        /\ Intervals(j) \in [1 .. n -> [start : Int, end : Int]]
                        /\ Divided(n, Intervals(j), j.start, j.end)
<1>1. j.start \in Int /\ j.end \in Int /\ j.start < j.end /\ j.count \in Nat \ {0}
  BY IngestAssumption DEF Divisible
<1>2. PICK h : h = HalfOpenPartitions(j.start, j.end, j.count)
  OBVIOUS
<1>3. PICK n \in Nat : /\ n <= j.count
                      /\ h \in [1 .. n -> [start : Int, end : Int]] /\ Divided(n, h, j.start, j.end)
  BY <1>1, <1>2, HalvesDivide
<1>4. CASE ~j.reverse
  BY <1>2, <1>3, <1>4, Zenon DEF Intervals
<1>5. CASE j.reverse
  <2>1. Len(h) = n
    BY <1>3
  <2>2. PICK g : g = Reverse(h)
    OBVIOUS
  <2>3. g = [i \in 1 .. n |-> h[(n - i) + 1]]
    BY <2>1, <2>2 DEF Reverse
  <2>4. \A i \in 1 .. n : (n - i) + 1 \in 1 .. n /\ g[i] = h[(n - i) + 1]
    BY <2>3
  <2>5. g \in [1 .. n -> [start : Int, end : Int]]
    BY <1>3, <2>3, <2>4
  <2>6. Divided(n, g, j.start, j.end)
    <3>1. \A i \in 1 .. n : /\ g[i].start \in Int /\ g[i].end \in Int
                            /\ j.start <= g[i].start /\ g[i].start <= g[i].end /\ g[i].end <= j.end
      BY <1>3, <2>4 DEF Divided
    <3>2. ASSUME NEW i \in 1 .. n, NEW k \in 1 .. n, i # k
          PROVE  g[i].end <= g[k].start \/ g[k].end <= g[i].start
      <4>1. PICK a \in 1 .. n : a = (n - i) + 1
        BY <2>4
      <4>2. PICK b \in 1 .. n : b = (n - k) + 1
        BY <2>4
      <4>3. a # b /\ g[i] = h[a] /\ g[k] = h[b]
        BY <2>4, <3>2, <4>1, <4>2
      <4> QED
        BY <1>3, <4>3 DEF Divided
    <3>3. ASSUME NEW t \in Int, j.start <= t, t < j.end
          PROVE  \E i \in 1 .. n : g[i].start <= t /\ t < g[i].end
      <4>1. PICK a \in 1 .. n : h[a].start <= t /\ t < h[a].end
        BY <1>3, <3>3 DEF Divided
      <4>2. PICK i \in 1 .. n : i = (n - a) + 1
        OBVIOUS
      <4>3. (n - i) + 1 = a
        BY <4>2
      <4>4. g[i] = h[a]
        BY <2>4, <4>3
      <4> QED
        BY <4>1, <4>4
    <3> QED
      BY <3>1, <3>2, <3>3 DEF Divided
  <2>7. Intervals(j) = g
    BY <1>2, <1>5, <2>2, Zenon DEF Intervals
  <2> QED
    BY <1>3, <2>5, <2>6, <2>7
<1>6. j.reverse \in BOOLEAN
  BY IngestAssumption
<1> QED
  BY <1>4, <1>5, <1>6

\* What Splunk is asked for, as decimal seconds, is the interval.
LEMMA BoundsKept ==
  ASSUME NEW ns \in Int
  PROVE  SplunkBound(EpochSeconds(ns)) = ns
<1>1. PICK m \in Nat : m = IF ns < 0 THEN -ns ELSE ns
  OBVIOUS
<1>2. PICK a \in Nat : a = m \div Second
  BY <1>1, IngestAssumption, Divides
<1>3. PICK b \in Nat : b = m % Second
  BY <1>1, IngestAssumption, Divides
<1>4. m = Second * a + b
  BY <1>1, <1>2, <1>3, IngestAssumption, Divides
<1>5. EpochSeconds(ns) = [negative |-> ns < 0, seconds |-> a, nanos |-> b]
  BY <1>1, <1>2, <1>3, Zenon DEF EpochSeconds
<1>6. PICK e : e = EpochSeconds(ns) /\ e.negative = (ns < 0) /\ e.seconds = a /\ e.nanos = b
  BY <1>5
<1>7. SplunkBound(e) = (IF ns < 0 THEN -a ELSE a) * Second + (IF ns < 0 THEN -b ELSE b)
  BY <1>6, Zenon DEF SplunkBound
<1>8. PICK x \in Nat : x = Second * a
  BY IngestAssumption
<1>9. a * Second = x /\ (-a) * Second = -x
  BY <1>8, IngestAssumption
<1>10. CASE ns < 0
  <2>1. SplunkBound(e) = (-a) * Second + (-b)
    BY <1>7, <1>10, Zenon
  <2>2. m = -ns
    BY <1>1, <1>10
  <2> QED
    BY <1>4, <1>6, <1>8, <1>9, <2>1, <2>2
<1>11. CASE ~(ns < 0)
  <2>1. SplunkBound(e) = a * Second + b
    BY <1>7, <1>11, Zenon
  <2>2. m = ns
    BY <1>1, <1>11
  <2> QED
    BY <1>4, <1>6, <1>8, <1>9, <2>1, <2>2
<1> QED
  BY <1>10, <1>11

LEMMA HitsAre ==
  ASSUME NEW j, NEW interval \in [start : Int, end : Int]
  PROVE  Hits(j, interval) = {r \in store : r.ts >= interval.start /\ r.ts < interval.end}
<1>1. PICK asked : asked = Asked(j, interval)
  OBVIOUS
<1>2. asked.start = interval.start /\ asked.end = interval.end
  <2>1. CASE j.vendor = "splunk"
    <3>1. asked = [start |-> SplunkBound(EpochSeconds(interval.start)), end |-> SplunkBound(EpochSeconds(interval.end))]
      BY <1>1, <2>1, Zenon DEF Asked
    <3>2. interval.start \in Int /\ interval.end \in Int
      OBVIOUS
    <3>3. /\ SplunkBound(EpochSeconds(interval.start)) = interval.start
          /\ SplunkBound(EpochSeconds(interval.end)) = interval.end
      BY <3>2, BoundsKept
    <3> QED
      BY <3>1, <3>3
  <2>2. CASE j.vendor # "splunk"
    BY <1>1, <2>2, Zenon DEF Asked
  <2> QED
    BY <2>1, <2>2
<1>3. Hits(j, interval) = {r \in store : r.ts >= asked.start /\ r.ts < asked.end}
  BY <1>1, Zenon DEF Hits
<1> QED
  BY <1>2, <1>3, Zenon

-----------------------------------------------------------------------------
(* The parsers: what is read without a complaint is what was sent.          *)

ObjectKeys == {"head", "wrong_head", "body", "other"}

Parses(inner) ==
  {st \in [head : BOOLEAN, body : BOOLEAN, bad : BOOLEAN, rows : {<<>>, inner.rows}] :
     st.body => st.rows = inner.rows /\ (inner.bad => st.bad)}

LEMMA ParseStep ==
  ASSUME NEW inner, inner.bad \in BOOLEAN, NEW st \in Parses(inner), NEW key
  PROVE  EnvelopeStep(inner, st, key) \in Parses(inner)
<1>1. PICK v : v = EnvelopeStep(inner, st, key)
  OBVIOUS
<1> DEFINE R == [head : BOOLEAN, body : BOOLEAN, bad : BOOLEAN, rows : {<<>>, inner.rows}]
           body == [st EXCEPT !.body = TRUE, !.bad = inner.bad, !.rows = inner.rows]
<1>2. st \in R /\ (st.body => st.rows = inner.rows /\ (inner.bad => st.bad))
  BY DEF Parses
<1>3. \/ v = st \/ v = [st EXCEPT !.head = TRUE] \/ v = body \/ v = [st EXCEPT !.bad = TRUE]
  BY <1>1, Zenon DEF EnvelopeStep
<1>4. CASE v = st
  BY <1>1, <1>4, Zenon
<1>5. CASE v = [st EXCEPT !.head = TRUE]
  <2>1. v \in R /\ v.body = st.body /\ v.rows = st.rows /\ v.bad = st.bad
    BY <1>2, <1>5
  <2>2. v \in Parses(inner)
    BY <1>2, <2>1, Zenon DEF Parses
  <2> QED
    BY <1>1, <2>2, Zenon
<1>6. CASE v = body
  <2>1. v \in R /\ v.rows = inner.rows /\ v.bad = inner.bad
    BY <1>2, <1>6
  <2>2. v \in Parses(inner)
    BY <2>1, Zenon DEF Parses
  <2> QED
    BY <1>1, <2>2, Zenon
<1>7. CASE v = [st EXCEPT !.bad = TRUE]
  <2>1. v \in R /\ v.body = st.body /\ v.rows = st.rows /\ v.bad = TRUE
    BY <1>2, <1>7
  <2>2. v \in Parses(inner)
    BY <1>2, <2>1, Zenon DEF Parses
  <2> QED
    BY <1>1, <2>2, Zenon
<1> QED
  BY <1>3, <1>4, <1>5, <1>6, <1>7, Zenon

LEMMA EnvelopeReads ==
  ASSUME NEW keys \in Seq(ObjectKeys), NEW inner, inner.bad \in BOOLEAN
  PROVE  /\ Envelope(keys, inner).bad \in BOOLEAN
         /\ ~Envelope(keys, inner).bad => Envelope(keys, inner).rows = inner.rows /\ ~inner.bad
<1>1. PICK N \in Nat : N = Len(keys)
  OBVIOUS
<1> DEFINE Q == Parses(inner)
           first == [head |-> FALSE, body |-> FALSE, bad |-> FALSE, rows |-> <<>>]
           Of(n, st) == EnvelopeStep(inner, st, keys[n])
           G == [n \in 1 .. N |-> [st \in Q |-> Of(n, st)]]
<1>2. \A n \in 1 .. N, st \in Q : Of(n, st) \in Q
  BY ParseStep
<1>3. first \in Q
  BY DEF Parses
<1>4. G \in Steps(N, Q)
  <2> HIDE DEF Of, Q
  <2> QED
    BY <1>2 DEF Steps
<1> HIDE DEF first
<1>5. PICK f \in [0 .. N -> Q] : f[0] = first /\ \A n \in 1 .. N : f[n] = G[n][f[n - 1]]
  <2> HIDE DEF G, Q
  <2>1. PICK g : Walk(g, N, Q, first, G)
    BY <1>3, <1>4, Iterates, Zenon
  <2> QED
    BY <2>1 DEF Walk
<1>6. ASSUME NEW n \in 1 .. N PROVE f[n] = Of(n, f[n - 1])
  <2>1. n - 1 \in 0 .. N
    OBVIOUS
  <2> HIDE DEF Of, Q
  <2>2. f[n - 1] \in Q
    BY <2>1
  <2> QED
    BY <1>5, <2>2
<1> HIDE DEF Q, G
<1> DEFINE Means(g) == g = [n \in 0 .. N |-> IF n = 0 THEN first ELSE Of(n, g[n - 1])]
           u == CHOOSE g : Means(g)
<1>7. Means(f)
  <2>1. f = [n \in 0 .. N |-> f[n]] /\ \A n \in 0 .. N : n # 0 => n \in 1 .. N
    OBVIOUS
  <2> HIDE DEF Of
  <2>2. \A n \in 0 .. N : f[n] = IF n = 0 THEN first ELSE Of(n, f[n - 1])
    BY <1>5, <1>6, <2>1, Zenon
  <2> QED
    BY <2>1, <2>2, Zenon
<1>8. Means(u)
  <2> HIDE DEF Means
  <2> QED
    BY <1>7, Zenon
<1>9. Envelope(keys, inner) = [bad |-> u[N].bad \/ ~u[N].head \/ ~u[N].body, rows |-> u[N].rows]
  BY <1>1, Zenon DEF Envelope, first
<1> HIDE DEF u
<1>10. u[0] = first /\ \A n \in 1 .. N : u[n] = Of(n, u[n - 1])
  <2>1. 0 \in 0 .. N /\ \A n \in 1 .. N : n \in 0 .. N /\ n # 0
    OBVIOUS
  <2> HIDE DEF Of
  <2> QED
    BY <1>8, <2>1
<1> DEFINE A == {n \in 0 .. N : u[n] \in Q}
<1>11. \A n \in 0 .. N : n \in A
  <2> HIDE DEF Of
  <2>1. 0 \in A
    BY <1>3, <1>10
  <2>2. ASSUME NEW n \in 1 .. N, n - 1 \in A PROVE n \in A
    <3>1. n \in 0 .. N
      OBVIOUS
    <3>2. u[n] = Of(n, u[n - 1]) /\ u[n - 1] \in Q
      BY <1>10, <2>2, Zenon
    <3>3. u[n] \in Q
      BY <1>2, <3>2, Zenon
    <3> QED
      BY <3>1, <3>3, Zenon
  <2> HIDE DEF A
  <2> QED
    BY <2>1, <2>2, UpTo
<1>12. PICK e \in Parses(inner) : e = u[N]
  <2>1. N \in 0 .. N
    OBVIOUS
  <2> QED
    BY <1>11, <2>1 DEF Q
<1>13. Envelope(keys, inner) = [bad |-> e.bad \/ ~e.head \/ ~e.body, rows |-> e.rows]
  BY <1>9, <1>12, Zenon
<1>14. PICK v : v = Envelope(keys, inner)
  OBVIOUS
<1>15. v.bad = (e.bad \/ ~e.head \/ ~e.body) /\ v.rows = e.rows
  BY <1>13, <1>14
<1>16. e.body \in BOOLEAN /\ (e.body => e.rows = inner.rows /\ (inner.bad => e.bad))
  BY DEF Parses
<1> QED
  BY <1>14, <1>15, <1>16, Zenon

LEMMA NormalizedReads ==
  ASSUME NEW j, NEW rows, NEW shape \in Shapes
  PROVE  ~Normalized(j, rows, "root", shape, FALSE).bad =>
           Normalized(j, rows, "root", shape, FALSE).rows = rows
<1>1. shape \in Seq(ObjectKeys)
  BY IngestAssumption, Zenon DEF ObjectKeys
<1>2. CASE j.vendor = "splunk"
  <2>1. PICK inner : inner = [bad |-> FALSE, rows |-> rows]
    OBVIOUS
  <2>2. inner.bad \in BOOLEAN /\ inner.rows = rows
    BY <2>1
  <2>3. Normalized(j, rows, "root", shape, FALSE) = Envelope(shape, inner)
    BY <1>2, <2>1, Zenon DEF Normalized, NormalizeStreamedResponse, StreamSplunkJsonRows
  <2>4. ~Envelope(shape, inner).bad => Envelope(shape, inner).rows = inner.rows /\ ~inner.bad
    BY <1>1, <2>2, EnvelopeReads
  <2> QED
    BY <2>2, <2>3, <2>4, Zenon
<1>3. CASE j.vendor # "splunk"
  <2>8. PICK good \in Seq(ObjectKeys) : good = <<"head", "body">>
    <3>1. "head" \in ObjectKeys /\ "body" \in ObjectKeys
      BY DEF ObjectKeys
    <3>2. \A a, b \in ObjectKeys : <<a, b>> \in Seq(ObjectKeys)
      OBVIOUS
    <3>3. <<"head", "body">> \in Seq(ObjectKeys)
      BY <3>1, <3>2, Zenon
    <3> QED
      BY <3>3, Zenon
  <2>1. PICK item : item = StreamItems(good, rows, FALSE)
    OBVIOUS
  <2>2. PICK data : data = Envelope(good, item)
    OBVIOUS
  <2>3. "data" # "root" /\ "stream" # "root"
    OBVIOUS
  <2>4. Normalized(j, rows, "root", shape, FALSE) = Envelope(shape, data)
    BY <1>3, <2>1, <2>2, <2>3, <2>8, Zenon DEF Normalized, NormalizeLokiResponse, StreamLokiResponse
  <2>5. item.bad \in BOOLEAN /\ (~item.bad => item.rows = rows)
    <3>1. CASE rows = <<>>
      <4>1. item = [bad |-> FALSE, rows |-> rows]
        BY <2>1, <3>1, Zenon DEF StreamItems
      <4> QED
        BY <4>1
    <3>2. CASE rows # <<>>
      <4>1. PICK inner : inner = [bad |-> FALSE, rows |-> rows]
        OBVIOUS
      <4>2. inner.bad \in BOOLEAN /\ inner.rows = rows
        BY <4>1
      <4>3. item = Envelope(good, inner)
        BY <2>1, <3>2, <4>1, Zenon DEF StreamItems
      <4>4. /\ Envelope(good, inner).bad \in BOOLEAN
            /\ ~Envelope(good, inner).bad => Envelope(good, inner).rows = inner.rows /\ ~inner.bad
        BY <4>2, EnvelopeReads
      <4> QED
        BY <4>2, <4>3, <4>4, Zenon
    <3> QED
      BY <3>1, <3>2
  <2>6. data.bad \in BOOLEAN /\ (~data.bad => data.rows = item.rows /\ ~item.bad)
    <3>1. /\ Envelope(good, item).bad \in BOOLEAN
          /\ ~Envelope(good, item).bad => Envelope(good, item).rows = item.rows /\ ~item.bad
      BY <2>5, EnvelopeReads
    <3> QED
      BY <2>2, <3>1, Zenon
  <2>7. ~Envelope(shape, data).bad => Envelope(shape, data).rows = data.rows /\ ~data.bad
    BY <1>1, <2>6, EnvelopeReads
  <2> QED
    BY <2>4, <2>5, <2>6, <2>7, Zenon
<1> QED
  BY <1>2, <1>3

-----------------------------------------------------------------------------
(* Answers and partitions.                                                  *)

Distinct(rows, n) == \A a, b \in 1 .. n : a # b => rows[a] # rows[b]

\* The whole of the hits, or as many of the first of them as the limit says.
Answered(j, hits, rows, n) ==
  /\ rows \in [1 .. n -> hits] /\ Distinct(rows, n)
  /\ \/ Range(rows) = hits
     \/ /\ j.limit # NoLimit /\ n = j.limit
        /\ \A r \in hits : r \in Range(rows) \/ \A a \in 1 .. n : InOrder(j, rows[a], r)

LEMMA AnswerSays ==
  ASSUME NEW j \in Jobs, NEW interval, IsFiniteSet(Hits(j, interval)),
         NEW rows \in UpstreamAnswers(j, interval)
  PROVE  \E n \in Nat : Answered(j, Hits(j, interval), rows, n)
<1>1. PICK hits : hits = Hits(j, interval) /\ IsFiniteSet(hits)
  OBVIOUS
<1>2. PICK c \in Nat : c = Cardinality(hits)
  BY <1>1, FS_CardinalityType
<1>3. j.limit = NoLimit \/ j.limit \in Nat
  BY IngestAssumption
<1>4. PICK n \in Nat : n = IF j.limit = NoLimit THEN Cardinality(hits) ELSE Least(j.limit, Cardinality(hits))
  BY <1>2, <1>3 DEF Least
<1>5. /\ rows \in [1 .. n -> hits]
      /\ \A a, b \in 1 .. n : a < b => rows[a] # rows[b]
      /\ \A r \in hits : r \in Range(rows) \/ \A a \in 1 .. n : InOrder(j, rows[a], r)
  BY <1>1, <1>4, Zenon DEF UpstreamAnswers, AnswersFrom
<1>6. Distinct(rows, n)
  <2> SUFFICES ASSUME NEW a \in 1 .. n, NEW b \in 1 .. n, a # b PROVE rows[a] # rows[b]
    BY DEF Distinct
  <2>1. a < b \/ b < a
    OBVIOUS
  <2> QED
    BY <1>5, <2>1
<1>7. CASE n = c
  <2>1. rows \in Injection(1 .. n, hits)
    BY <1>5, <1>6 DEF Injection, IsInjective, Distinct
  <2>2. Cardinality(1 .. n) = n /\ IsFiniteSet(1 .. n)
    BY FS_Interval
  <2>3. rows \in Surjection(1 .. n, hits)
    BY <1>1, <1>2, <1>7, <2>1, <2>2, FS_Injection
  <2>4. Range(rows) = hits
    BY <1>5, <2>3 DEF Surjection, Range
  <2> QED
    BY <1>1, <1>5, <1>6, <2>4 DEF Answered
<1>8. CASE n # c
  <2>1. j.limit # NoLimit /\ n = j.limit
    BY <1>2, <1>3, <1>4, <1>8 DEF Least
  <2> QED
    BY <1>1, <1>5, <1>6, <2>1 DEF Answered
<1> QED
  BY <1>7, <1>8

\* What is in order step by step is in order.
LEMMA StepwiseOrdered ==
  ASSUME NEW n \in Nat, NEW f \in [1 .. n -> Int],
         \A i \in 1 .. n - 1 : f[i] <= f[i + 1],
         NEW a \in 1 .. n, NEW b \in 1 .. n, a <= b
  PROVE  f[a] <= f[b]
<1> DEFINE S == {d \in 0 .. n : a + d \in 1 .. n => f[a] <= f[a + d]}
<1>1. 0 \in S
  <2>1. f[a] \in Int /\ a + 0 = a
    OBVIOUS
  <2> QED
    BY <2>1
<1>2. ASSUME NEW d \in 1 .. n, d - 1 \in S PROVE d \in S
  <2> SUFFICES ASSUME a + d \in 1 .. n PROVE f[a] <= f[a + d]
    OBVIOUS
  <2>1. PICK i \in 1 .. n - 1 : i = a + (d - 1)
    OBVIOUS
  <2>2. i + 1 = a + d /\ i \in 1 .. n /\ i + 1 \in 1 .. n
    BY <2>1
  <2>3. f[a] <= f[i]
    BY <1>2, <2>1, <2>2
  <2>4. f[i] <= f[i + 1] /\ f[i] \in Int /\ f[i + 1] \in Int /\ f[a] \in Int
    BY <2>2
  <2> QED
    BY <2>2, <2>3, <2>4
<1>3. \A d \in 0 .. n : d \in S
  <2> HIDE DEF S
  <2> QED
    BY <1>1, <1>2, UpTo
<1>4. PICK d \in 0 .. n : a + d = b
  OBVIOUS
<1> QED
  BY <1>3, <1>4

SlotSet == [committed : BOOLEAN, records : Seq(store)]

LEMMA AllPartitioned ==
  ASSUME NEW n \in Nat, slots \in [1 .. n -> SlotSet], \A i \in 1 .. n : slots[i].committed
  PROVE  Partitioned = slots
<1>1. Len(slots) = n /\ slots \in Seq(SlotSet)
  OBVIOUS
<1> DEFINE Of(i, s) == IF slots[i].committed THEN Append(s, slots[i]) ELSE s
           Means(g) == g = [i \in 0 .. n |-> IF i = 0 THEN <<>> ELSE Of(i, g[i - 1])]
           f == [i \in 0 .. n |-> SubSeq(slots, 1, i)]
           u == CHOOSE g : Means(g)
<1>2. SubSeq(slots, 1, 0) = <<>> /\ \A i \in 1 .. n : SubSeq(slots, 1, i) = Append(SubSeq(slots, 1, i - 1), slots[i])
  <2>1. SubSeq(slots, 1, 0) = <<>>
    BY <1>1
  <2>2. ASSUME NEW i \in 1 .. n PROVE SubSeq(slots, 1, i) = Append(SubSeq(slots, 1, i - 1), slots[i])
    BY <1>1
  <2> QED
    BY <2>1, <2>2
<1>3. Partitioned = u[n]
  BY <1>1, Zenon DEF Partitioned
<1>4. \A i \in 1 .. n : Of(i, SubSeq(slots, 1, i - 1)) = SubSeq(slots, 1, i)
  BY <1>2, Zenon
<1> HIDE DEF Of
<1>5. Means(f)
  <2>1. \A i \in 0 .. n : f[i] = SubSeq(slots, 1, i)
    OBVIOUS
  <2>2. ASSUME NEW i \in 0 .. n PROVE SubSeq(slots, 1, i) = IF i = 0 THEN <<>> ELSE Of(i, f[i - 1])
    <3>1. CASE i = 0
      BY <1>2, <3>1, Zenon
    <3>2. CASE i # 0
      <4>1. i \in 1 .. n /\ i - 1 \in 0 .. n
        BY <3>2
      <4>2. f[i - 1] = SubSeq(slots, 1, i - 1)
        BY <2>1, <4>1, Zenon
      <4> QED
        BY <1>4, <3>2, <4>1, <4>2, Zenon
    <3> QED
      BY <3>1, <3>2
  <2> QED
    BY <2>2, Zenon
<1>6. Means(u)
  <2> HIDE DEF Means
  <2> QED
    BY <1>5, Zenon
<1> HIDE DEF u, f
<1> DEFINE S == {i \in 0 .. n : u[i] = SubSeq(slots, 1, i)}
<1>7. 0 \in S
  <2>1. 0 \in 0 .. n
    OBVIOUS
  <2>2. u[0] = <<>>
    BY <1>6, <2>1
  <2> QED
    BY <1>2, <2>1, <2>2, Zenon
<1>8. ASSUME NEW i \in 1 .. n, i - 1 \in S PROVE i \in S
  <2>1. i \in 0 .. n /\ i # 0
    OBVIOUS
  <2>2. u[i] = Of(i, u[i - 1])
    BY <1>6, <2>1
  <2>3. u[i - 1] = SubSeq(slots, 1, i - 1)
    BY <1>8
  <2> QED
    BY <1>4, <2>1, <2>2, <2>3, Zenon
<1>9. \A i \in 0 .. n : i \in S
  <2> HIDE DEF S
  <2> QED
    BY <1>7, <1>8, UpTo
<1>10. u[n] = SubSeq(slots, 1, n)
  BY <1>9
<1>11. SubSeq(slots, 1, n) = slots
  BY <1>1
<1> QED
  BY <1>3, <1>10, <1>11, Zenon

-----------------------------------------------------------------------------
(* The query's invariant.                                                   *)

Rank(r) == IF job.reverse THEN -r.ts ELSE r.ts

QueryTypes ==
  /\ job \in Jobs /\ store \in Stores /\ next \in Nat /\ failed \in BOOLEAN
  /\ phase \in {"begin", "single", "panicked", "acquire", "merge", "done", "failed"}
  /\ slots \in [1 .. job.count -> SlotSet]

\* A committed partition is an answer of its interval.
SlotsAnswer ==
  \A i \in 1 .. job.count : slots[i].committed =>
    /\ i \in DOMAIN Intervals(job)
    /\ slots[i].records \in UpstreamAnswers(job, Intervals(job)[i])

Unmerged ==
  /\ position = [i \in 1 .. job.count |-> 1] /\ out = <<>>
  /\ last = [key |-> <<>>, partition |-> 0] /\ limited = FALSE

\* Every request made is under way or answered, and some is under way until
\* all are made.
Requested ==
  /\ Eligible(job) /\ next <= job.count + 1 /\ next >= 1
  /\ \A i \in 1 .. next - 1 : i \in DOMAIN Intervals(job)
  /\ active \subseteq 1 .. next - 1
  /\ next > job.count \/ failed \/ active # {}
  /\ \A i \in 1 .. next - 1 : i \in active \/ slots[i].committed \/ failed

ReadSoFar ==
  {r \in store : \E p \in 1 .. job.count : \E k \in 1 .. position[p] - 1 : r = slots[p].records[k]}

\* What is merged: the records read so far, none twice, in order and none
\* after one that is still to be read.
MergedSoFar ==
  /\ Eligible(job)
  /\ \A p \in 1 .. job.count : slots[p].committed /\ Ordered(slots[p].records)
  /\ position \in [1 .. job.count -> Nat]
  /\ \A p \in 1 .. job.count : position[p] \in 1 .. Len(slots[p].records) + 1
  /\ out \in Seq(store) /\ Distinct(out, Len(out))
  /\ Range(out) = ReadSoFar
  /\ \A a, b \in 1 .. Len(out) : a <= b => Rank(out[a]) <= Rank(out[b])
  /\ \A a \in 1 .. Len(out), p \in 1 .. job.count :
       \A k \in 1 .. Len(slots[p].records) :
         position[p] <= k => Rank(out[a]) <= Rank(slots[p].records[k])
  /\ \/ last = [key |-> <<>>, partition |-> 0]
     \/ \E p \in 1 .. job.count : \E k \in 1 .. Len(slots[p].records) :
          last = [key |-> StableKey(slots[p].records[k]), partition |-> p]
  /\ job.limit # NoLimit => Len(out) <= job.limit
  /\ limited \in BOOLEAN /\ (limited => job.limit # NoLimit /\ Len(out) >= job.limit)

IngestInv ==
  /\ QueryTypes /\ SlotsAnswer
  /\ phase \in {"begin", "acquire"} => Unmerged
  /\ phase = "acquire" => Requested
  /\ phase \in {"merge", "done"} => MergedSoFar
  /\ phase = "done" => (Waiting = {} \/ limited) /\ complete = Completeness

LEMMA IngestInitial == IngestInit => IngestInv
<1> SUFFICES ASSUME IngestInit PROVE IngestInv
  OBVIOUS
<1>1. NoPartition \in SlotSet /\ NoPartition.committed = FALSE
  BY DEF NoPartition, SlotSet
<1>2. job \in Jobs /\ job.count \in Nat /\ store \in Stores
  BY IngestAssumption DEF IngestInit
<1>3. QueryTypes
  BY <1>1, <1>2 DEF IngestInit, QueryTypes
<1>4. SlotsAnswer
  BY <1>1, <1>2 DEF IngestInit, SlotsAnswer
<1>5. Unmerged
  BY DEF IngestInit, Unmerged
<1>6. phase = "begin"
  BY DEF IngestInit
<1> QED
  BY <1>3, <1>4, <1>5, <1>6 DEF IngestInv

LEMMA QueryJob ==
  ASSUME QueryTypes
  PROVE  /\ job.count \in Nat /\ job.start \in Int /\ job.end \in Int /\ job.reverse \in BOOLEAN
         /\ job.limit = NoLimit \/ job.limit \in Nat
         /\ IsFiniteSet(store) /\ \A r \in store : r.ts \in Int
  BY IngestAssumption DEF QueryTypes

LEMMA AnswersKept ==
  ASSUME SlotsAnswer, UNCHANGED <<job, store, slots>>
  PROVE  SlotsAnswer'
<1>1. job' = job /\ store' = store /\ slots' = slots
  OBVIOUS
<1>2. ASSUME NEW j, NEW interval PROVE UpstreamAnswers(j, interval)' = UpstreamAnswers(j, interval)
  BY <1>1, Zenon DEF UpstreamAnswers, Hits
<1>3. ASSUME NEW i \in 1 .. job.count, slots[i].committed
      PROVE  /\ i \in DOMAIN Intervals(job)
             /\ slots[i].records \in UpstreamAnswers(job, Intervals(job)[i])'
  BY <1>2, <1>3, Zenon DEF SlotsAnswer
<1> QED
  BY <1>1, <1>3, Zenon DEF SlotsAnswer

LEMMA BeginKeeps ==
  ASSUME IngestInv, BeginPartitions
  PROVE  IngestInv'
<1>1. QueryTypes /\ SlotsAnswer /\ Unmerged /\ phase = "begin" /\ job.count \in Nat
  BY QueryJob DEF IngestInv, BeginPartitions
<1>2. UNCHANGED <<job, store, slots, failed, position, out, last, limited, complete>>
  BY DEF BeginPartitions
<1>3. PICK c : c = Least(job.count, Concurrency)
  OBVIOUS
<1>4. \/ phase' \in {"single", "panicked"} /\ next' = next
      \/ /\ Eligible(job) /\ ~(c > Len(Intervals(job)))
         /\ phase' = "acquire" /\ active' = 1 .. c /\ next' = c + 1
  BY <1>3, Zenon DEF BeginPartitions
<1>5. SlotsAnswer'
  BY <1>1, <1>2, AnswersKept
<1>6. Unmerged'
  BY <1>1, <1>2 DEF Unmerged
<1>7. CASE phase' \in {"single", "panicked"} /\ next' = next
  <2>1. QueryTypes'
    BY <1>1, <1>2, <1>7 DEF QueryTypes, SlotSet
  <2> QED
    BY <1>5, <1>7, <2>1 DEF IngestInv
<1>8. CASE /\ Eligible(job) /\ ~(c > Len(Intervals(job)))
           /\ phase' = "acquire" /\ active' = 1 .. c /\ next' = c + 1
  <2>1. Divisible(job)
    BY <1>8 DEF Eligible, LokiEligible, SplunkEligible
  <2>2. c \in Nat \ {0} /\ c <= job.count
    BY <1>1, <1>3, <2>1, IngestAssumption DEF Least, Divisible
  <2>3. PICK n \in Nat : Intervals(job) \in [1 .. n -> [start : Int, end : Int]]
    BY <1>1, <2>1, IntervalsDivide DEF QueryTypes
  <2>4. Len(Intervals(job)) = n /\ DOMAIN Intervals(job) = 1 .. n
    BY <2>3
  <2>5. c <= n
    BY <1>8, <2>2, <2>4
  <2>6. QueryTypes'
    BY <1>1, <1>2, <1>8, <2>2 DEF QueryTypes, SlotSet
  <2>7. Requested'
    <3>1. Eligible(job)' /\ DOMAIN Intervals(job)' = 1 .. n /\ job.count' = job.count
      <4>1. job' = job
        BY <1>2
      <4> QED
        BY <1>8, <2>4, <4>1, Zenon
    <3>2. next' <= job.count + 1 /\ next' >= 1 /\ active' = 1 .. next' - 1 /\ active' # {}
      <4>1. next' - 1 = c /\ 1 \in 1 .. c
        BY <1>8, <2>2
      <4>2. active' = 1 .. next' - 1
        BY <1>8, <4>1, Zenon
      <4>3. next' <= job.count + 1 /\ next' >= 1
        <5>1. next' = c + 1
          BY <1>8
        <5> QED
          BY <1>1, <2>2, <5>1
      <4>4. active' # {}
        BY <1>8, <4>1, Zenon
      <4> QED
        BY <4>2, <4>3, <4>4
    <3>3. \A i \in 1 .. next' - 1 : i \in 1 .. n
      BY <1>8, <2>2, <2>5
    <3> QED
      BY <3>1, <3>2, <3>3 DEF Requested
  <2> QED
    BY <1>5, <1>6, <1>8, <2>6, <2>7 DEF IngestInv
<1> QED
  BY <1>4, <1>7, <1>8

-----------------------------------------------------------------------------
(* Acquisition.                                                             *)

LEMMA PartHits ==
  ASSUME QueryTypes, Eligible(job), NEW i \in DOMAIN Intervals(job)
  PROVE  /\ Hits(job, Intervals(job)[i]) =
              {r \in store : r.ts >= Intervals(job)[i].start /\ r.ts < Intervals(job)[i].end}
         /\ Hits(job, Intervals(job)[i]) \subseteq store
         /\ IsFiniteSet(Hits(job, Intervals(job)[i]))
<1>1. Divisible(job) /\ job \in Jobs
  BY DEF Eligible, LokiEligible, SplunkEligible, QueryTypes
<1>2. PICK n \in Nat : Intervals(job) \in [1 .. n -> [start : Int, end : Int]]
  BY <1>1, IntervalsDivide
<1>3. PICK v \in [start : Int, end : Int] : v = Intervals(job)[i]
  BY <1>2
<1>4. PICK h : h = Hits(job, Intervals(job)[i])
  OBVIOUS
<1>5. h = {r \in store : r.ts >= v.start /\ r.ts < v.end}
  BY <1>3, <1>4, HitsAre
<1>6. h \subseteq store
  BY <1>5
<1>7. IsFiniteSet(h)
  BY <1>6, QueryJob, FS_Subset
<1> QED
  BY <1>3, <1>4, <1>5, <1>6, <1>7

LEMMA AcquiredKeeps ==
  ASSUME IngestInv, NEW i, NEW shape \in Shapes, Acquired(i, "root", shape)
  PROVE  IngestInv'
<1>1. QueryTypes /\ SlotsAnswer /\ Unmerged /\ Requested /\ phase = "acquire" /\ i \in active
  BY DEF IngestInv, Acquired
<1>2. job' = job /\ store' = store /\ failed' = failed /\ position' = position /\ out' = out
      /\ last' = last /\ limited' = limited
  BY DEF Acquired
<1>3. job.count \in Nat /\ next \in Nat /\ i \in 1 .. next - 1 /\ next <= job.count + 1
      /\ i \in DOMAIN Intervals(job) /\ Eligible(job) /\ i \in 1 .. job.count
  BY <1>1, QueryJob DEF Requested, QueryTypes
<1>4. PICK rows \in UpstreamAnswers(job, Intervals(job)[i]) :
        slots' = [slots EXCEPT ![i] = [committed |-> TRUE, records |-> rows]]
  <2>1. PICK rows \in UpstreamAnswers(job, Intervals(job)[i]) :
          /\ ~Normalized(job, rows, "root", shape, FALSE).bad
          /\ slots' = [slots EXCEPT ![i] = [committed |-> TRUE,
                                            records |-> Normalized(job, rows, "root", shape, FALSE).rows]]
    BY Zenon DEF Acquired
  <2>2. Normalized(job, rows, "root", shape, FALSE).rows = rows
    BY <2>1, NormalizedReads
  <2> QED
    BY <2>1, <2>2, Zenon
<1>5. rows \in Seq(store)
  <2>1. PICK h : h = Hits(job, Intervals(job)[i]) /\ h \subseteq store /\ IsFiniteSet(h)
    BY <1>1, <1>3, PartHits
  <2>2. PICK n \in Nat : Answered(job, h, rows, n)
    BY <1>1, <2>1, AnswerSays DEF QueryTypes
  <2>3. rows \in [1 .. n -> store]
    BY <2>1, <2>2 DEF Answered
  <2> QED
    BY <2>3
<1>6. PICK s : s = [committed |-> TRUE, records |-> rows]
  OBVIOUS
<1>7. s \in SlotSet /\ s.committed = TRUE /\ s.records = rows
  BY <1>5, <1>6 DEF SlotSet
<1>8. slots' = [slots EXCEPT ![i] = s] /\ slots \in [1 .. job.count -> SlotSet]
  BY <1>1, <1>4, <1>6, Zenon DEF QueryTypes
<1>9. slots' \in [1 .. job.count -> SlotSet]
  BY <1>3, <1>7, <1>8
<1>10. \A k \in 1 .. job.count : slots'[k] = IF k = i THEN s ELSE slots[k]
  BY <1>3, <1>8
<1>11. SlotsAnswer'
  <2>1. \A j, v : UpstreamAnswers(j, v)' = UpstreamAnswers(j, v)
    BY <1>2, Zenon DEF UpstreamAnswers, Hits
  <2>2. ASSUME NEW k \in 1 .. job.count, slots'[k].committed
        PROVE  k \in DOMAIN Intervals(job) /\ slots'[k].records \in UpstreamAnswers(job, Intervals(job)[k])
    <3>1. CASE k = i
      BY <1>3, <1>4, <1>7, <1>10, <3>1, Zenon
    <3>2. CASE k # i
      BY <1>1, <1>10, <2>2, <3>2 DEF SlotsAnswer
    <3> QED
      BY <3>1, <3>2
  <2> QED
    BY <1>2, <2>1, <2>2, Zenon DEF SlotsAnswer
<1>12. Unmerged'
  BY <1>1, <1>2 DEF Unmerged
<1>13. \/ /\ failed \/ next > job.count
          /\ active' = active \ {i} /\ next' = next /\ phase' = phase
       \/ phase' = "panicked" /\ next' = next
       \/ /\ ~failed /\ ~(next > job.count) /\ ~(next > Len(Intervals(job)))
          /\ active' = (active \ {i}) \cup {next} /\ next' = next + 1 /\ phase' = phase
  BY Zenon DEF Acquired, Launch
<1>14. QueryTypes'
  <2>1. SlotSet' = SlotSet
    BY <1>2 DEF SlotSet
  <2>2. next' \in Nat /\ phase' \in {"acquire", "panicked"}
    BY <1>1, <1>3, <1>13
  <2> QED
    BY <1>1, <1>2, <1>9, <2>1, <2>2 DEF QueryTypes
<1>15. CASE phase' = "panicked"
  BY <1>11, <1>14, <1>15 DEF IngestInv
<1>16. CASE phase' # "panicked"
  <2>1. PICK D : D = DOMAIN Intervals(job)
    OBVIOUS
  <2>2. /\ \A k \in 1 .. next - 1 : k \in D
        /\ active \subseteq 1 .. next - 1
        /\ next > job.count \/ failed \/ active # {}
        /\ \A k \in 1 .. next - 1 : k \in active \/ slots[k].committed \/ failed
    BY <1>1, <2>1 DEF Requested
  <2>3. \A k \in 1 .. next - 1 : k \in active \ {i} \/ slots'[k].committed \/ failed
    BY <1>3, <1>7, <1>10, <2>2
  <2>4. /\ next' <= job.count + 1 /\ next' >= 1
        /\ \A k \in 1 .. next' - 1 : k \in D
        /\ active' \subseteq 1 .. next' - 1
        /\ next' > job.count \/ failed \/ active' # {}
        /\ \A k \in 1 .. next' - 1 : k \in active' \/ slots'[k].committed \/ failed
    <3>1. CASE active' = active \ {i} /\ next' = next /\ (failed \/ next > job.count)
      BY <1>3, <2>2, <2>3, <3>1
    <3>2. CASE /\ ~(next > job.count) /\ ~(next > Len(Intervals(job)))
               /\ active' = (active \ {i}) \cup {next} /\ next' = next + 1
      <4>1. next \in D
        <5>1. PICK n \in Nat : D = 1 .. n /\ Len(Intervals(job)) = n
          BY <1>1, <1>3, <2>1, IntervalsDivide DEF Eligible, LokiEligible, SplunkEligible, QueryTypes
        <5> QED
          BY <1>3, <3>2, <5>1
      <4>2. \A k \in 1 .. next' - 1 : k = next \/ k \in 1 .. next - 1
        BY <1>3, <3>2
      <4> QED
        BY <1>3, <2>2, <2>3, <3>2, <4>1, <4>2
    <3> QED
      BY <1>13, <1>16, <3>1, <3>2
  <2>5. Requested'
    <3>1. Eligible(job)' /\ DOMAIN Intervals(job)' = D /\ job.count' = job.count
      BY <1>2, <1>3, <2>1, Zenon
    <3> QED
      BY <1>2, <2>4, <3>1 DEF Requested
  <2>6. phase' = "acquire"
    BY <1>1, <1>13, <1>16
  <2> QED
    BY <1>11, <1>12, <1>14, <2>5, <2>6 DEF IngestInv
<1> QED
  BY <1>15, <1>16

LEMMA FirstErrorKeeps ==
  ASSUME IngestInv, NEW i, phase = "acquire", i \in active, FirstError(i)
  PROVE  IngestInv'
<1>1. QueryTypes /\ SlotsAnswer /\ Unmerged /\ Requested
  BY DEF IngestInv
<1>2. job' = job /\ store' = store /\ slots' = slots /\ position' = position /\ out' = out
      /\ last' = last /\ limited' = limited /\ next' = next /\ phase' = phase /\ failed' = TRUE
      /\ active' = active \ {i}
  BY DEF FirstError
<1>3. SlotsAnswer'
  BY <1>1, <1>2, AnswersKept
<1>4. Unmerged'
  BY <1>1, <1>2 DEF Unmerged
<1>5. QueryTypes'
  BY <1>1, <1>2 DEF QueryTypes, SlotSet
<1>6. Requested'
  <2>1. PICK D : D = DOMAIN Intervals(job)
    OBVIOUS
  <2>2. Eligible(job)' /\ DOMAIN Intervals(job)' = D /\ job.count' = job.count
    BY <1>1, <1>2, <2>1, Zenon DEF Requested
  <2>3. /\ \A k \in 1 .. next - 1 : k \in D
        /\ active \subseteq 1 .. next - 1 /\ next <= job.count + 1 /\ next >= 1
    BY <1>1, <2>1 DEF Requested
  <2> QED
    BY <1>2, <2>2, <2>3 DEF Requested
<1> QED
  BY <1>2, <1>3, <1>4, <1>5, <1>6 DEF IngestInv

-----------------------------------------------------------------------------
(* Validation.  Once every request has been answered the partitions are the *)
(* answers to adjacent intervals that make up the window.                   *)

Part(p) == Hits(job, Intervals(job)[p])

Parted ==
  /\ QueryTypes /\ SlotsAnswer /\ Eligible(job)
  /\ \A p \in 1 .. job.count : slots[p].committed

LEMMA PartsAre ==
  ASSUME Parted
  PROVE  /\ \A p \in 1 .. job.count :
              /\ Part(p) \subseteq Window
              /\ Len(slots[p].records) \in Nat
              /\ Answered(job, Part(p), slots[p].records, Len(slots[p].records))
         /\ \A p, o \in 1 .. job.count : p # o => \A a \in Part(p), b \in Part(o) : a.ts # b.ts
         /\ \A r \in Window : \E p \in 1 .. job.count : r \in Part(p)
<1>1. QueryTypes /\ SlotsAnswer /\ Eligible(job) /\ job.count \in Nat
  BY QueryJob DEF Parted
<1>2. Divisible(job) /\ job \in Jobs
  BY <1>1 DEF Eligible, LokiEligible, SplunkEligible, QueryTypes
<1>3. PICK iv : iv = Intervals(job)
  OBVIOUS
<1>4. PICK n \in Nat : /\ n <= job.count /\ iv \in [1 .. n -> [start : Int, end : Int]]
                       /\ Divided(n, iv, job.start, job.end)
  BY <1>2, <1>3, IntervalsDivide
<1>5. \A p \in 1 .. job.count : p \in 1 .. n
  <2> TAKE p \in 1 .. job.count
  <2>1. p \in DOMAIN iv
    BY <1>1, <1>3 DEF Parted, SlotsAnswer
  <2> QED
    BY <1>4, <2>1
<1>6. \A p \in 1 .. job.count : Part(p) = {r \in store : r.ts >= iv[p].start /\ r.ts < iv[p].end}
  <2> TAKE p \in 1 .. job.count
  <2>1. p \in DOMAIN Intervals(job)
    BY <1>1 DEF Parted, SlotsAnswer
  <2> QED
    BY <1>1, <1>3, <2>1, PartHits, Zenon DEF Part
<1>7. \A r \in store : r.ts \in Int
  BY <1>1, QueryJob
<1>8. job.start \in Int /\ job.end \in Int
  BY <1>1, QueryJob
<1>9. ASSUME NEW p \in 1 .. job.count
      PROVE  /\ Part(p) \subseteq Window
             /\ Len(slots[p].records) \in Nat
             /\ Answered(job, Part(p), slots[p].records, Len(slots[p].records))
  <2>1. p \in 1 .. n
    BY <1>5
  <2>2. Part(p) \subseteq Window
    <3>1. iv[p].start \in Int /\ iv[p].end \in Int /\ job.start <= iv[p].start /\ iv[p].end <= job.end
      BY <1>4, <2>1 DEF Divided
    <3> QED
      BY <1>6, <1>7, <1>8, <3>1 DEF Window
  <2>3. IsFiniteSet(Part(p)) /\ slots[p].records \in UpstreamAnswers(job, Intervals(job)[p])
    BY <1>1, PartHits DEF Parted, SlotsAnswer, Part
  <2>4. PICK m \in Nat : Answered(job, Part(p), slots[p].records, m)
    BY <1>2, <2>3, AnswerSays DEF Part
  <2>5. Len(slots[p].records) = m
    BY <2>4 DEF Answered
  <2> QED
    BY <2>2, <2>4, <2>5
<1>10. ASSUME NEW p \in 1 .. job.count, NEW o \in 1 .. job.count, p # o, NEW a \in Part(p), NEW b \in Part(o)
       PROVE  a.ts # b.ts
  <2>1. p \in 1 .. n /\ o \in 1 .. n
    BY <1>5
  <2>2. iv[p].end <= iv[o].start \/ iv[o].end <= iv[p].start
    BY <1>4, <1>10, <2>1 DEF Divided
  <2>3. iv[p].start \in Int /\ iv[p].end \in Int /\ iv[o].start \in Int /\ iv[o].end \in Int
    BY <1>4, <2>1 DEF Divided
  <2>4. a \in store /\ a.ts >= iv[p].start /\ a.ts < iv[p].end
    BY <1>6
  <2>5. b \in store /\ b.ts >= iv[o].start /\ b.ts < iv[o].end
    BY <1>6
  <2> QED
    BY <1>7, <2>2, <2>3, <2>4, <2>5
<1>11. ASSUME NEW r \in Window PROVE \E p \in 1 .. job.count : r \in Part(p)
  <2>1. r \in store /\ r.ts \in Int /\ job.start <= r.ts /\ r.ts < job.end
    BY <1>7, <1>8 DEF Window
  <2>2. PICK p \in 1 .. n : iv[p].start <= r.ts /\ r.ts < iv[p].end
    BY <1>4, <2>1 DEF Divided
  <2>3. p \in 1 .. job.count /\ iv[p].start \in Int
    BY <1>1, <1>4 DEF Divided
  <2> QED
    BY <1>6, <2>1, <2>2, <2>3
<1> QED
  BY <1>9, <1>10, <1>11, Zenon

LEMMA Ranks ==
  ASSUME QueryTypes
  PROVE  /\ \A r \in store : Rank(r) \in Int
         /\ \A a, b \in store :
              Rank(a) <= Rank(b) <=> IF job.reverse THEN a.ts >= b.ts ELSE a.ts <= b.ts
  BY QueryJob DEF Rank

LEMMA RankOrdered ==
  ASSUME QueryTypes, NEW s \in Seq(store), Ordered(s),
         NEW a \in 1 .. Len(s), NEW b \in 1 .. Len(s), a <= b
  PROVE  Rank(s[a]) <= Rank(s[b])
<1>1. PICK n \in Nat : n = Len(s) /\ s \in [1 .. n -> store]
  OBVIOUS
<1>2. PICK f : f = [i \in 1 .. n |-> Rank(s[i])]
  OBVIOUS
<1>3. f \in [1 .. n -> Int]
  BY <1>1, <1>2, Ranks
<1>4. \A i \in 1 .. n - 1 : f[i] <= f[i + 1]
  <2> TAKE i \in 1 .. n - 1
  <2>1. i \in 1 .. n /\ i + 1 \in 1 .. n
    OBVIOUS
  <2>2. IF job.reverse THEN s[i].ts >= s[i + 1].ts ELSE s[i].ts <= s[i + 1].ts
    BY <1>1 DEF Ordered
  <2>3. Rank(s[i]) <= Rank(s[i + 1])
    BY <1>1, <2>1, <2>2, Ranks
  <2> QED
    BY <1>2, <2>1, <2>3
<1>5. f[a] <= f[b]
  BY <1>1, <1>3, <1>4, StepwiseOrdered
<1> QED
  BY <1>1, <1>2, <1>5

LEMMA MergedKept ==
  ASSUME MergedSoFar, UNCHANGED <<job, store, slots, position, out, last, limited>>
  PROVE  MergedSoFar'
<1>1. job' = job /\ store' = store /\ slots' = slots /\ position' = position /\ out' = out
      /\ last' = last /\ limited' = limited
  OBVIOUS
<1>2. ReadSoFar' = ReadSoFar
  BY <1>1, Zenon DEF ReadSoFar
<1>3. \A r : Rank(r)' = Rank(r)
  BY <1>1, Zenon DEF Rank
<1>4. \A r : Ordered(r)' = Ordered(r)
  BY <1>1, Zenon DEF Ordered
<1> QED
  BY <1>1, <1>2, <1>3, <1>4 DEF MergedSoFar

LEMMA ValidateKeeps ==
  ASSUME IngestInv, Validate
  PROVE  IngestInv'
<1>1. QueryTypes /\ SlotsAnswer /\ Unmerged /\ Requested /\ phase = "acquire" /\ active = {}
  BY DEF IngestInv, Validate
<1>2. job' = job /\ store' = store /\ slots' = slots /\ position' = position /\ out' = out
      /\ last' = last /\ limited' = limited /\ next' = next /\ failed' = failed
  BY DEF Validate
<1>3. phase' = IF /\ ~failed
                  /\ \A i \in DOMAIN Partitioned : Ordered(Partitioned[i].records)
                  /\ Retained <= MaxRecords - Retained
               THEN "merge" ELSE "failed"
  BY Zenon DEF Validate
<1>4. phase' \in {"merge", "failed"}
  BY <1>3
<1>5. QueryTypes' /\ SlotsAnswer'
  <2>1. QueryTypes'
    BY <1>1, <1>2, <1>4 DEF QueryTypes, SlotSet
  <2> QED
    BY <1>1, <1>2, <2>1, AnswersKept
<1>6. CASE phase' = "failed"
  BY <1>5, <1>6 DEF IngestInv
<1>7. CASE phase' = "merge"
  <2>1. ~failed /\ \A i \in DOMAIN Partitioned : Ordered(Partitioned[i].records)
    BY <1>3, <1>7
  <2>2. job.count \in Nat /\ next = job.count + 1
    BY <1>1, <2>1, QueryJob DEF Requested, QueryTypes
  <2>3. \A p \in 1 .. job.count : slots[p].committed
    BY <1>1, <2>1, <2>2 DEF Requested
  <2>4. Partitioned = slots /\ slots \in [1 .. job.count -> SlotSet]
    BY <1>1, <2>2, <2>3, AllPartitioned DEF QueryTypes
  <2>5. \A p \in 1 .. job.count : Ordered(slots[p].records) /\ slots[p].records \in Seq(store)
    BY <2>1, <2>4 DEF SlotSet
  <2>6. position = [i \in 1 .. job.count |-> 1] /\ out = <<>>
        /\ last = [key |-> <<>>, partition |-> 0] /\ limited = FALSE
    BY <1>1 DEF Unmerged
  <2>7. position \in [1 .. job.count -> Nat]
        /\ \A p \in 1 .. job.count : position[p] = 1 /\ position[p] \in 1 .. Len(slots[p].records) + 1
    BY <2>5, <2>6
  <2>8. out \in Seq(store) /\ Len(out) = 0 /\ Range(out) = {}
    BY <2>6 DEF Range
  <2>9. ReadSoFar = {}
    BY <2>7 DEF ReadSoFar
  <2>10. job.limit # NoLimit => Len(out) <= job.limit
    BY <1>1, <2>8, QueryJob
  <2>11. 1 .. Len(out) = {}
    BY <2>8
  <2>12. MergedSoFar
    <3>1. Eligible(job)
      BY <1>1 DEF Requested
    <3>2. Distinct(out, Len(out)) /\ Range(out) = ReadSoFar
      BY <2>8, <2>9, <2>11, Zenon DEF Distinct
    <3> QED
      BY <2>3, <2>5, <2>6, <2>7, <2>8, <2>10, <2>11, <3>1, <3>2, Zenon DEF MergedSoFar
  <2>13. MergedSoFar'
    BY <1>2, <2>12, MergedKept
  <2> QED
    BY <1>5, <1>7, <2>13 DEF IngestInv
<1> QED
  BY <1>4, <1>6, <1>7

-----------------------------------------------------------------------------
(* The merge.                                                               *)

LEMMA MergeStepKeeps ==
  ASSUME IngestInv, NEW p, MergeStep(p)
  PROVE  IngestInv'
<1>1. QueryTypes /\ SlotsAnswer /\ MergedSoFar /\ phase = "merge" /\ phase' = phase
  BY DEF IngestInv, MergeStep
<1>2. job' = job /\ store' = store /\ slots' = slots /\ next' = next /\ failed' = failed
      /\ limited' = limited
  BY DEF MergeStep
<1>3. PICK N \in Nat : N = job.count
  BY <1>1, QueryJob
<1>4. Parted /\ Partitioned = slots /\ slots \in [1 .. N -> SlotSet]
  BY <1>1, <1>3, AllPartitioned DEF Parted, MergedSoFar, QueryTypes
<1>5. PICK S : S = [o \in 1 .. N |-> slots[o].records]
  OBVIOUS
<1>6. \A o \in 1 .. N : /\ S[o] = slots[o].records /\ S[o] \in Seq(store) /\ Ordered(S[o])
                        /\ position[o] \in 1 .. Len(S[o]) + 1 /\ Len(S[o]) \in Nat
  <2> TAKE o \in 1 .. N
  <2>1. S[o] = slots[o].records /\ slots[o] \in SlotSet
    BY <1>4, <1>5
  <2>2. S[o] \in Seq(store)
    BY <2>1 DEF SlotSet
  <2> QED
    BY <1>1, <1>3, <2>1, <2>2 DEF MergedSoFar
<1>7. position \in [1 .. N -> Nat]
  BY <1>1, <1>3 DEF MergedSoFar
<1>8. p \in 1 .. N /\ position[p] <= Len(S[p]) /\ Pops(p)
  <2>1. p \in Waiting /\ Pops(p)
    BY DEF MergeStep
  <2>2. p \in 1 .. N /\ position[p] <= Len(slots[p].records)
    BY <1>4, <2>1 DEF Waiting
  <2> QED
    BY <1>6, <2>1, <2>2
<1>9. PICK k \in 1 .. Len(S[p]) : k = position[p]
  BY <1>6, <1>8
<1>10. PICK r \in store : r = S[p][k]
  BY <1>6, <1>8
<1>11. HeadOf(p) = r
  BY <1>4, <1>6, <1>8, <1>9, <1>10, Zenon DEF HeadOf
<1>12. \A o \in 1 .. N : /\ S[o] \in [1 .. Len(S[o]) -> Part(o)] /\ Distinct(S[o], Len(S[o]))
  <2> TAKE o \in 1 .. N
  <2>1. Answered(job, Part(o), slots[o].records, Len(slots[o].records))
    BY <1>3, <1>4, PartsAre
  <2> QED
    BY <1>6, <2>1 DEF Answered
<1>13. ASSUME NEW o \in 1 .. N, NEW m \in 1 .. Len(S[o]), o # p PROVE S[o][m].ts # r.ts
  <2>1. S[o][m] \in Part(o) /\ r \in Part(p)
    BY <1>8, <1>10, <1>12
  <2> QED
    BY <1>3, <1>4, <1>8, <1>13, <2>1, PartsAre
<1>14. ~Duplicate(p, StableKey(r))
  <2> SUFFICES ASSUME last.key = StableKey(r), last.partition # p PROVE FALSE
    BY DEF Duplicate
  <2>1. StableKey(r) = <<r.ts, r.stream, r.payload>>
    BY DEF StableKey
  <2>2. CASE last = [key |-> <<>>, partition |-> 0]
    <3>1. last.key = <<>>
      BY <2>2
    <3>2. Len(<<r.ts, r.stream, r.payload>>) = 3 /\ Len(<<>>) = 0
      OBVIOUS
    <3>3. Len(last.key) = 3 /\ Len(last.key) = 0
      BY <2>1, <3>1, <3>2, Zenon
    <3> QED
      BY <3>3
  <2>3. ASSUME NEW o \in 1 .. N, NEW m \in 1 .. Len(S[o]),
               last = [key |-> StableKey(S[o][m]), partition |-> o]
        PROVE  FALSE
    <3>1. last.partition = o /\ last.key = StableKey(S[o][m])
      BY <2>3
    <3>2. S[o][m].ts # r.ts
      BY <1>13, <3>1
    <3>3. StableKey(S[o][m]) = <<S[o][m].ts, S[o][m].stream, S[o][m].payload>>
      BY DEF StableKey
    <3> QED
      BY <2>1, <3>1, <3>2, <3>3
  <2> QED
    <3>1. \/ last = [key |-> <<>>, partition |-> 0]
          \/ \E o \in 1 .. N : \E m \in 1 .. Len(slots[o].records) :
               last = [key |-> StableKey(slots[o].records[m]), partition |-> o]
      BY <1>1, <1>3, Zenon DEF MergedSoFar
    <3> QED
      BY <1>6, <2>2, <2>3, <3>1
<1>15. out' = Append(out, r) /\ last' = [key |-> StableKey(r), partition |-> p]
  BY <1>11, <1>14, Zenon DEF MergeStep
<1>16. position' = [position EXCEPT ![p] = k + 1]
  BY <1>9, Zenon DEF MergeStep
<1>17. /\ position' \in [1 .. N -> Nat] /\ position'[p] = k + 1
       /\ \A o \in 1 .. N : o # p => position'[o] = position[o]
  BY <1>6, <1>7, <1>8, <1>9, <1>16
<1>18. \A o \in 1 .. N : position'[o] \in 1 .. Len(S[o]) + 1
  <2> TAKE o \in 1 .. N
  <2>1. CASE o = p
    <3>1. k + 1 \in 1 .. Len(S[p]) + 1
      BY <1>6, <1>8
    <3> QED
      BY <1>17, <2>1, <3>1, Zenon
  <2>2. CASE o # p
    BY <1>6, <1>17, <2>2, Zenon
  <2> QED
    BY <2>1, <2>2
<1>19. PICK n \in Nat : n = Len(out) /\ out \in [1 .. n -> store] /\ out \in Seq(store)
  BY <1>1 DEF MergedSoFar
<1>20. /\ out' \in Seq(store) /\ Len(out') = n + 1 /\ out'[n + 1] = r
       /\ \A a \in 1 .. n : out'[a] = out[a]
  BY <1>10, <1>15, <1>19
<1>21. ReadSoFar = {v \in store : \E o \in 1 .. N : \E m \in 1 .. position[o] - 1 : v = S[o][m]}
  BY <1>3, <1>6 DEF ReadSoFar
<1>22. ReadSoFar' = {v \in store : \E o \in 1 .. N : \E m \in 1 .. position'[o] - 1 : v = S[o][m]}
  BY <1>2, <1>3, <1>6 DEF ReadSoFar
<1>23. ReadSoFar' = ReadSoFar \cup {r}
  <2>1. ASSUME NEW v \in ReadSoFar PROVE v \in ReadSoFar'
    <3>1. v \in store /\ \E o \in 1 .. N : \E m \in 1 .. position[o] - 1 : v = S[o][m]
      BY <1>21
    <3> PICK o \in 1 .. N : \E m \in 1 .. position[o] - 1 : v = S[o][m]
      BY <3>1
    <3> PICK m \in 1 .. position[o] - 1 : v = S[o][m]
      OBVIOUS
    <3>2. m \in 1 .. position'[o] - 1
      <4>1. CASE o = p
        BY <1>8, <1>9, <1>17, <4>1
      <4>2. CASE o # p
        BY <1>17, <4>2
      <4> QED
        BY <4>1, <4>2
    <3> QED
      BY <1>22, <3>1, <3>2
  <2>2. r \in ReadSoFar'
    <3>1. k \in 1 .. position'[p] - 1 /\ k \in Nat
      BY <1>17
    <3> QED
      BY <1>8, <1>10, <1>22, <3>1
  <2>3. ASSUME NEW v \in ReadSoFar' PROVE v \in ReadSoFar \/ v = r
    <3>1. v \in store /\ \E o \in 1 .. N : \E m \in 1 .. position'[o] - 1 : v = S[o][m]
      BY <1>22
    <3> PICK o \in 1 .. N : \E m \in 1 .. position'[o] - 1 : v = S[o][m]
      BY <3>1
    <3> PICK m \in 1 .. position'[o] - 1 : v = S[o][m]
      OBVIOUS
    <3>2. CASE o = p /\ m = k
      BY <1>10, <3>1, <3>2
    <3>3. CASE ~(o = p /\ m = k)
      <4>1. m \in 1 .. position[o] - 1
        BY <1>7, <1>8, <1>9, <1>17, <3>1, <3>3
      <4> QED
        BY <1>21, <3>1, <4>1
    <3> QED
      BY <3>2, <3>3
  <2> QED
    BY <2>1, <2>2, <2>3
<1>24. r \notin Range(out)
  <2> SUFFICES ASSUME r \in ReadSoFar PROVE FALSE
    BY <1>1 DEF MergedSoFar
  <2> PICK o \in 1 .. N : \E m \in 1 .. position[o] - 1 : r = S[o][m]
    BY <1>21
  <2>1. PICK m \in 1 .. position[o] - 1 : r = S[o][m]
    OBVIOUS
  <2>2. m \in 1 .. Len(S[o])
    BY <1>6, <2>1
  <2>3. o = p
    BY <1>13, <2>1, <2>2
  <2>4. m # k
    BY <1>9, <2>1, <2>3
  <2> QED
    BY <1>10, <1>12, <2>1, <2>2, <2>3, <2>4 DEF Distinct
<1>25. Distinct(out', Len(out'))
  <2>1. Distinct(out, n)
    BY <1>1, <1>19 DEF MergedSoFar
  <2>2. \A a \in 1 .. n : out[a] # r
    BY <1>19, <1>24 DEF Range
  <2>3. \A a \in 1 .. n + 1 : a \in 1 .. n \/ a = n + 1
    OBVIOUS
  <2> QED
    BY <1>20, <2>1, <2>2, <2>3 DEF Distinct
<1>26. Range(out') = ReadSoFar'
  <2>1. Range(out') = Range(out) \cup {r}
    <3>1. \A a \in 1 .. n + 1 : a \in 1 .. n \/ a = n + 1
      OBVIOUS
    <3>2. DOMAIN out' = 1 .. n + 1 /\ DOMAIN out = 1 .. n /\ n + 1 \in 1 .. n + 1
          /\ \A a \in 1 .. n : a \in 1 .. n + 1
      BY <1>19, <1>20
    <3> QED
      BY <1>20, <3>1, <3>2 DEF Range
  <2> QED
    BY <1>1, <1>23, <2>1 DEF MergedSoFar
<1>27. \A s : Rank(s)' = Rank(s) /\ Ordered(s)' = Ordered(s)
  BY <1>2, Zenon DEF Rank, Ordered
<1>28. /\ \A a, b \in 1 .. n : a <= b => Rank(out[a]) <= Rank(out[b])
       /\ \A a \in 1 .. n, o \in 1 .. N :
            \A m \in 1 .. Len(S[o]) : position[o] <= m => Rank(out[a]) <= Rank(S[o][m])
  BY <1>1, <1>3, <1>6, <1>19 DEF MergedSoFar
<1>29. \A s \in store : Rank(s) \in Int
  BY <1>1, Ranks
<1>30. \A a, b \in 1 .. n + 1 : a <= b => Rank(out'[a]) <= Rank(out'[b])
  <2> SUFFICES ASSUME NEW a \in 1 .. n + 1, NEW b \in 1 .. n + 1, a <= b
               PROVE  Rank(out'[a]) <= Rank(out'[b])
    OBVIOUS
  <2>1. CASE b \in 1 .. n
    <3>1. a \in 1 .. n
      BY <2>1
    <3> QED
      BY <1>20, <1>28, <2>1, <3>1
  <2>2. CASE b = n + 1 /\ a \in 1 .. n
    <3>1. position[p] <= k
      BY <1>9
    <3>2. Rank(out[a]) <= Rank(r)
      BY <1>8, <1>10, <1>28, <2>2, <3>1
    <3> QED
      BY <1>20, <2>2, <3>2
  <2>3. CASE b = n + 1 /\ a = n + 1
    BY <1>20, <1>29, <2>3
  <2> QED
    BY <2>1, <2>2, <2>3
<1>31. ASSUME NEW o \in 1 .. N, NEW m \in 1 .. Len(S[o]), position'[o] <= m
       PROVE  Rank(r) <= Rank(S[o][m])
  <2>1. S[o][m] \in store
    BY <1>6
  <2>2. CASE o = p
    <3>1. k <= m
      BY <1>17, <1>31, <2>2
    <3> QED
      BY <1>1, <1>6, <1>8, <1>10, <2>1, <2>2, <3>1, RankOrdered
  <2>3. CASE o # p
    <3>1. PICK z \in 1 .. Len(S[o]) : z = position[o] /\ z <= m
      <4>1. position[o] \in 1 .. Len(S[o]) + 1 /\ position[o] <= m
        BY <1>6, <1>17, <1>31, <2>3
      <4> QED
        BY <1>6, <4>1
    <3>2. o \in Waiting \ {p} /\ HeadOf(o) = S[o][z]
      <4>1. o \in DOMAIN Partitioned /\ Partitioned[o].records = S[o]
        BY <1>4, <1>6
      <4>2. position[o] <= Len(S[o])
        BY <1>6, <3>1
      <4>3. o \in Waiting
        BY <4>1, <4>2 DEF Waiting
      <4> QED
        BY <2>3, <3>1, <4>1, <4>3, Zenon DEF HeadOf
    <3>3. PICK u \in store : u = S[o][z]
      BY <1>6
    <3>4. LET after == u.ts > r.ts \/ (u.ts = r.ts /\ o > p) IN after # job.reverse
      BY <1>8, <1>11, <3>2, <3>3, Zenon DEF Pops
    <3>5. u.ts \in Int /\ r.ts \in Int /\ job.reverse \in BOOLEAN
      BY <1>1, QueryJob
    <3>6. IF job.reverse THEN r.ts >= u.ts ELSE r.ts <= u.ts
      BY <3>4, <3>5
    <3>7. Rank(r) <= Rank(u)
      BY <1>1, <3>6, Ranks
    <3>8. Rank(u) <= Rank(S[o][m])
      BY <1>1, <1>6, <2>1, <3>1, <3>3, RankOrdered
    <3> QED
      BY <1>29, <2>1, <3>7, <3>8
  <2> QED
    BY <2>2, <2>3
<1>32. ASSUME NEW a \in 1 .. n + 1, NEW o \in 1 .. N, NEW m \in 1 .. Len(S[o]), position'[o] <= m
       PROVE  Rank(out'[a]) <= Rank(S[o][m])
  <2>1. CASE a = n + 1
    BY <1>20, <1>31, <1>32, <2>1
  <2>2. CASE a \in 1 .. n
    <3>1. position[o] <= m
      BY <1>7, <1>8, <1>9, <1>17, <1>32
    <3> QED
      BY <1>20, <1>28, <2>2, <3>1
  <2> QED
    BY <2>1, <2>2
<1>33. job.limit # NoLimit => n + 1 <= job.limit
  <2>1. job.limit = NoLimit \/ n < job.limit
    BY <1>19 DEF MergeStep
  <2> QED
    BY <1>1, <2>1, QueryJob
<1>34. limited \in BOOLEAN /\ (limited => job.limit # NoLimit /\ n + 1 >= job.limit)
  <2>1. limited \in BOOLEAN /\ (limited => job.limit # NoLimit /\ n >= job.limit)
    BY <1>1, <1>19 DEF MergedSoFar
  <2> QED
    BY <1>1, <2>1, QueryJob
<1>35. MergedSoFar'
  <2>1. Eligible(job)' /\ job.count' = N /\ job.limit' = job.limit
    BY <1>1, <1>2, <1>3, Zenon DEF MergedSoFar
  <2>2. \A o \in 1 .. N : slots'[o].committed /\ slots'[o].records = S[o]
    BY <1>1, <1>2, <1>3, <1>6 DEF MergedSoFar
  <2>5. \A o \in 1 .. N : Ordered(slots[o].records)'
    BY <1>2, <1>6, <1>27, Zenon
  <2>3. out' \in Seq(store') /\ Len(out') = n + 1
    BY <1>2, <1>20
  <2>4. \E o \in 1 .. N : \E m \in 1 .. Len(slots'[o].records) :
          last' = [key |-> StableKey(slots'[o].records[m]), partition |-> o]
    BY <1>8, <1>10, <1>15, <2>2
  <2>6. \A o \in 1 .. N : position'[o] \in 1 .. Len(slots'[o].records) + 1
    BY <1>18, <2>2
  <2>7. \A a, b \in 1 .. Len(out') : a <= b => Rank(out[a])' <= Rank(out[b])'
    BY <1>27, <1>30, <2>3
  <2>8. \A a \in 1 .. Len(out'), o \in 1 .. N :
          \A m \in 1 .. Len(slots'[o].records) :
            position'[o] <= m => Rank(out[a])' <= Rank(slots[o].records[m])'
    BY <1>27, <1>32, <2>2, <2>3
  <2>9. /\ job.limit' # NoLimit => Len(out') <= job.limit'
        /\ limited' \in BOOLEAN /\ (limited' => job.limit' # NoLimit /\ Len(out') >= job.limit')
    BY <1>2, <1>33, <1>34, <2>1, <2>3
  <2> QED
    BY <1>17, <1>25, <1>26, <2>1, <2>2, <2>3, <2>4, <2>5, <2>6, <2>7, <2>8, <2>9, Zenon DEF MergedSoFar
<1>36. QueryTypes' /\ SlotsAnswer'
  <2>1. QueryTypes'
    BY <1>1, <1>2 DEF QueryTypes, SlotSet
  <2> QED
    BY <1>1, <1>2, <2>1, AnswersKept
<1> QED
  BY <1>1, <1>35, <1>36 DEF IngestInv

LEMMA MergeLimitedKeeps ==
  ASSUME IngestInv, MergeLimited
  PROVE  IngestInv'
<1>1. QueryTypes /\ SlotsAnswer /\ MergedSoFar /\ phase = "merge" /\ phase' = phase
  BY DEF IngestInv, MergeLimited
<1>2. job' = job /\ store' = store /\ slots' = slots /\ next' = next /\ failed' = failed
      /\ position' = position /\ out' = out /\ last' = last
  BY DEF MergeLimited
<1>3. limited' = TRUE /\ job.limit # NoLimit /\ Len(out) >= job.limit
  BY DEF MergeLimited
<1>4. QueryTypes' /\ SlotsAnswer'
  <2>1. QueryTypes'
    BY <1>1, <1>2 DEF QueryTypes, SlotSet
  <2> QED
    BY <1>1, <1>2, <2>1, AnswersKept
<1>5. MergedSoFar'
  <2>1. ReadSoFar' = ReadSoFar
    BY <1>2, Zenon DEF ReadSoFar
  <2>2. \A r : Rank(r)' = Rank(r)
    BY <1>2, Zenon DEF Rank
  <2>3. \A r : Ordered(r)' = Ordered(r)
    BY <1>2, Zenon DEF Ordered
  <2> QED
    BY <1>1, <1>2, <1>3, <2>1, <2>2, <2>3 DEF MergedSoFar
<1> QED
  BY <1>1, <1>4, <1>5 DEF IngestInv

LEMMA CommitKeeps ==
  ASSUME IngestInv, CommitResult
  PROVE  IngestInv'
<1>1. QueryTypes /\ SlotsAnswer /\ MergedSoFar /\ phase' = "done" /\ (Waiting = {} \/ limited)
      /\ complete' = Completeness
  BY DEF IngestInv, CommitResult
<1>2. job' = job /\ store' = store /\ slots' = slots /\ next' = next /\ failed' = failed
      /\ position' = position /\ out' = out /\ last' = last /\ limited' = limited
  BY DEF CommitResult
<1>3. QueryTypes' /\ SlotsAnswer' /\ MergedSoFar'
  <2>1. QueryTypes'
    BY <1>1, <1>2 DEF QueryTypes, SlotSet
  <2> QED
    BY <1>1, <1>2, <2>1, AnswersKept, MergedKept
<1>4. Partitioned' = Partitioned
  BY <1>2, Zenon DEF Partitioned
<1>5. Waiting' = Waiting /\ Completeness' = Completeness
  BY <1>2, <1>4, Zenon DEF Waiting, Completeness, UpstreamLimitReached
<1> QED
  BY <1>1, <1>2, <1>3, <1>5 DEF IngestInv

LEMMA CommitFailsKeeps ==
  ASSUME IngestInv, CommitFails
  PROVE  IngestInv'
<1>1. QueryTypes /\ SlotsAnswer /\ phase' = "failed"
  BY DEF IngestInv, CommitFails
<1>2. job' = job /\ store' = store /\ slots' = slots /\ next' = next /\ failed' = failed
  BY DEF CommitFails
<1>3. QueryTypes'
  BY <1>1, <1>2 DEF QueryTypes, SlotSet
<1>4. SlotsAnswer'
  BY <1>1, <1>2, AnswersKept
<1> QED
  BY <1>1, <1>3, <1>4 DEF IngestInv

-----------------------------------------------------------------------------
(* The result.                                                              *)

LEMMA CountDistinct ==
  ASSUME NEW n \in Nat, NEW X, NEW f \in [1 .. n -> X], Distinct(f, n)
  PROVE  IsFiniteSet(Range(f)) /\ Cardinality(Range(f)) = n
<1>1. f \in Injection(1 .. n, Range(f))
  BY DEF Injection, IsInjective, Distinct, Range
<1>2. f \in Surjection(1 .. n, Range(f))
  BY <1>1 DEF Surjection, Range, Injection
<1>3. ExistsBijection(1 .. n, Range(f))
  BY <1>1, <1>2 DEF ExistsBijection, Bijection
<1>4. IsFiniteSet(1 .. n)
  BY FS_Interval
<1> QED
  BY <1>3, <1>4, FS_CountingElements, FS_Bijection

LEMMA DoneIsWhole ==
  ASSUME IngestInv, phase = "done"
  PROVE  MergedIsWhole
<1>1. QueryTypes /\ SlotsAnswer /\ MergedSoFar /\ (Waiting = {} \/ limited) /\ complete = Completeness
  BY DEF IngestInv
<1>2. PICK N \in Nat : N = job.count
  BY <1>1, QueryJob
<1>3. Parted /\ Partitioned = slots /\ slots \in [1 .. N -> SlotSet]
  BY <1>1, <1>2, AllPartitioned DEF Parted, MergedSoFar, QueryTypes
<1>4. PICK S : S = [o \in 1 .. N |-> slots[o].records]
  OBVIOUS
<1>5. \A o \in 1 .. N : /\ S[o] = slots[o].records /\ S[o] \in Seq(store) /\ Ordered(S[o])
                        /\ position[o] \in 1 .. Len(S[o]) + 1 /\ Len(S[o]) \in Nat
  <2> TAKE o \in 1 .. N
  <2>1. S[o] = slots[o].records /\ slots[o] \in SlotSet
    BY <1>3, <1>4
  <2>2. S[o] \in Seq(store)
    BY <2>1 DEF SlotSet
  <2> QED
    BY <1>1, <1>2, <2>1, <2>2 DEF MergedSoFar
<1>6. \A o \in 1 .. N : Part(o) \subseteq Window /\ Answered(job, Part(o), S[o], Len(S[o]))
  BY <1>2, <1>3, <1>5, PartsAre
<1>7. \A r \in Window : \E o \in 1 .. N : r \in Part(o)
  BY <1>2, <1>3, PartsAre
<1>8. PICK n \in Nat : n = Len(out) /\ out \in [1 .. n -> store] /\ out \in Seq(store)
  BY <1>1 DEF MergedSoFar
<1>9. PICK kept : kept = Range(out)
  OBVIOUS
<1>10. kept = {out[i] : i \in DOMAIN out} /\ DOMAIN out = 1 .. n
  BY <1>8, <1>9 DEF Range
<1>11. kept = {v \in store : \E o \in 1 .. N : \E m \in 1 .. position[o] - 1 : v = S[o][m]}
  <2>1. kept = ReadSoFar
    BY <1>1, <1>9 DEF MergedSoFar
  <2>2. ReadSoFar = {v \in store : \E o \in 1 .. N : \E m \in 1 .. position[o] - 1 : v = S[o][m]}
    BY <1>2, <1>5 DEF ReadSoFar
  <2> QED
    BY <2>1, <2>2, Zenon
<1>12. IsFiniteSet(kept) /\ Cardinality(kept) = n
  BY <1>1, <1>8, <1>9, CountDistinct DEF MergedSoFar
<1>13. IsFiniteSet(Window) /\ Cardinality(Window) \in Nat
  <2>1. Window \in SUBSET store /\ IsFiniteSet(store)
    BY <1>1, QueryJob DEF Window
  <2> QED
    BY <2>1, FS_Subset, FS_CardinalityType
<1>14. kept \subseteq Window
  <2> SUFFICES ASSUME NEW v \in kept PROVE v \in Window
    OBVIOUS
  <2> PICK o \in 1 .. N : \E m \in 1 .. position[o] - 1 : v = S[o][m]
    BY <1>11
  <2>1. PICK m \in 1 .. position[o] - 1 : v = S[o][m]
    OBVIOUS
  <2>2. m \in 1 .. Len(S[o])
    BY <1>5
  <2>3. S[o][m] \in Part(o)
    BY <1>6, <2>2 DEF Answered
  <2> QED
    BY <1>6, <2>1, <2>3
<1>15. n <= Cardinality(Window)
  BY <1>12, <1>13, <1>14, FS_Subset
<1>16. \A v \in store : Rank(v) \in Int
  BY <1>1, Ranks
<1>17. /\ \A a, b \in 1 .. n : a <= b => Rank(out[a]) <= Rank(out[b])
       /\ \A a \in 1 .. n, o \in 1 .. N :
            \A m \in 1 .. Len(S[o]) : position[o] <= m => Rank(out[a]) <= Rank(S[o][m])
  BY <1>1, <1>2, <1>5, <1>8 DEF MergedSoFar
<1>18. Ordered(out)
  <2> SUFFICES ASSUME NEW i \in 1 .. (Len(out) - 1)
               PROVE  IF job.reverse THEN out[i].ts >= out[i + 1].ts ELSE out[i].ts <= out[i + 1].ts
    BY DEF Ordered
  <2>1. i \in 1 .. n /\ i + 1 \in 1 .. n /\ i <= i + 1
    BY <1>8
  <2>2. Rank(out[i]) <= Rank(out[i + 1])
    BY <1>17, <2>1
  <2> QED
    BY <1>1, <1>8, <2>1, <2>2, Ranks
\* With nothing waiting, the records of a partition that is read whole are kept.
<1>19. ASSUME NEW o \in 1 .. N, position[o] = Len(S[o]) + 1 PROVE Range(S[o]) \subseteq kept
  <2>1. Len(S[o]) = position[o] - 1 /\ DOMAIN S[o] = 1 .. Len(S[o])
    BY <1>5, <1>19
  <2>2. ASSUME NEW m \in 1 .. Len(S[o]) PROVE S[o][m] \in kept
    <3>1. m \in 1 .. position[o] - 1 /\ S[o][m] \in store
      BY <1>5, <2>1
    <3> QED
      BY <1>11, <3>1
  <2> QED
    BY <2>1, <2>2 DEF Range
<1>20. \A o \in 1 .. N : IsFiniteSet(Range(S[o])) /\ Cardinality(Range(S[o])) = Len(S[o])
  BY <1>5, <1>6, CountDistinct DEF Answered
<1>21. Waiting = {} => \A o \in 1 .. N : position[o] = Len(S[o]) + 1
  <2> SUFFICES ASSUME Waiting = {}, NEW o \in 1 .. N PROVE position[o] = Len(S[o]) + 1
    OBVIOUS
  <2>1. ~(position[o] <= Len(S[o]))
    BY <1>3, <1>5 DEF Waiting
  <2> QED
    BY <1>5, <2>1
<1>22. ASSUME Waiting = {}, \A o \in 1 .. N : Range(S[o]) = Part(o) PROVE kept = Window
  <2>1. ASSUME NEW r \in Window PROVE r \in kept
    BY <1>7, <1>19, <1>21, <1>22
  <2> QED
    BY <1>14, <2>1
<1>23. \A o \in 1 .. N : \/ Range(S[o]) = Part(o)
                         \/ /\ job.limit # NoLimit /\ Len(S[o]) = job.limit
                            /\ \A r \in Part(o) : r \in Range(S[o])
                                 \/ \A a \in 1 .. Len(S[o]) : InOrder(job, S[o][a], r)
  BY <1>6 DEF Answered
<1>24. job.limit = NoLimit \/ job.limit \in Nat
  BY <1>1, QueryJob
<1>25. /\ job.limit # NoLimit => n <= job.limit
       /\ limited \in BOOLEAN /\ (limited => job.limit # NoLimit /\ n >= job.limit)
  BY <1>1, <1>8 DEF MergedSoFar
<1>26. complete => kept = Window
  <2> SUFFICES ASSUME complete PROVE kept = Window
    OBVIOUS
  <2>1. ~limited /\ ~UpstreamLimitReached
    BY <1>1 DEF Completeness
  <2>2. Waiting = {}
    BY <1>1, <2>1
  <2>3. \A o \in 1 .. N : Range(S[o]) = Part(o)
    <3> TAKE o \in 1 .. N
    <3>1. job.limit # NoLimit => ~(Len(slots[o].records) >= job.limit)
      BY <1>3, <2>1 DEF UpstreamLimitReached
    <3> QED
      BY <1>5, <1>23, <1>24, <3>1
  <2> QED
    BY <1>22, <2>2, <2>3
<1>27. kept = Window \/ (job.limit # NoLimit /\ n = job.limit)
  <2>1. CASE limited
    BY <1>24, <1>25, <2>1
  <2>2. CASE ~limited /\ \A o \in 1 .. N : Range(S[o]) = Part(o)
    BY <1>1, <1>22, <2>2
  <2>3. ASSUME ~limited, NEW o \in 1 .. N, Range(S[o]) # Part(o) PROVE job.limit # NoLimit /\ n = job.limit
    <3>1. job.limit # NoLimit /\ Len(S[o]) = job.limit
      BY <1>23, <2>3
    <3>2. Range(S[o]) \subseteq kept
      BY <1>1, <1>19, <1>21, <2>3
    <3>3. Len(S[o]) <= n
      BY <1>12, <1>20, <3>2, FS_Subset
    <3> QED
      BY <1>24, <1>25, <3>1, <3>3
  <2> QED
    BY <2>1, <2>2, <2>3
<1>28. Len(out) = IF job.limit = NoLimit THEN Cardinality(Window) ELSE Least(job.limit, Cardinality(Window))
  <2>1. CASE kept = Window
    <3>1. n = Cardinality(Window)
      BY <1>12, <2>1, Zenon
    <3> QED
      BY <1>8, <1>13, <1>24, <1>25, <3>1 DEF Least
  <2>2. CASE job.limit # NoLimit /\ n = job.limit
    BY <1>8, <1>13, <1>15, <2>2 DEF Least
  <2> QED
    BY <1>27, <2>1, <2>2
<1>29. ASSUME NEW k \in kept, NEW r \in Window \ kept PROVE Rank(k) <= Rank(r)
  <2>1. PICK a \in 1 .. n : k = out[a]
    BY <1>10
  <2>2. PICK o \in 1 .. N : r \in Part(o)
    BY <1>7
  <2>3. k \in store /\ r \in store
    BY <1>11 DEF Window
  <2>4. CASE r \in Range(S[o])
    <3>1. PICK m \in 1 .. Len(S[o]) : r = S[o][m]
      <4>1. DOMAIN S[o] = 1 .. Len(S[o])
        BY <1>5
      <4> QED
        BY <2>4, <4>1 DEF Range
    <3>2. ~(m \in 1 .. position[o] - 1)
      BY <1>11, <1>29, <2>3, <3>1
    <3>3. position[o] <= m
      BY <1>5, <3>1, <3>2
    <3> QED
      BY <1>17, <2>1, <3>1, <3>3
  <2>5. CASE r \notin Range(S[o])
    <3>1. /\ job.limit # NoLimit /\ Len(S[o]) = job.limit
          /\ \A b \in 1 .. Len(S[o]) : InOrder(job, S[o][b], r)
      BY <1>23, <2>2, <2>5
    <3>2. job.reverse \/ job.upstream = "oldest_first"
      BY <1>1, <3>1, LimitsAreDirected DEF QueryTypes
    <3>3. ASSUME NEW b \in 1 .. Len(S[o]) PROVE Rank(S[o][b]) <= Rank(r)
      <4>1. S[o][b] \in store /\ InOrder(job, S[o][b], r)
        BY <1>5, <3>1
      <4>2. IF job.reverse THEN S[o][b].ts >= r.ts ELSE S[o][b].ts <= r.ts
        BY <3>2, <4>1 DEF InOrder
      <4> QED
        BY <1>1, <2>3, <4>1, <4>2, Ranks
    <3>4. CASE k \in Range(S[o])
      <4>1. PICK b \in 1 .. Len(S[o]) : k = S[o][b]
        BY <1>5, <3>4 DEF Range
      <4> QED
        BY <3>3, <4>1
    <3>5. CASE position[o] # Len(S[o]) + 1
      <4>1. PICK b \in 1 .. Len(S[o]) : b = position[o]
        BY <1>5, <3>5
      <4>2. Rank(k) <= Rank(S[o][b])
        BY <1>17, <2>1, <4>1
      <4>3. S[o][b] \in store
        BY <1>5
      <4> QED
        BY <1>16, <2>3, <3>3, <4>2, <4>3
    <3>6. CASE k \notin Range(S[o]) /\ position[o] = Len(S[o]) + 1
      <4>1. PICK T : T = Range(S[o]) \cup {k}
        OBVIOUS
      <4>2. Cardinality(T) = Len(S[o]) + 1
        <5>1. PICK Q : Q = Range(S[o])
          OBVIOUS
        <5>2. IsFiniteSet(Q) /\ Cardinality(Q) = Len(S[o]) /\ k \notin Q
          BY <1>20, <3>6, <5>1
        <5>3. Cardinality(Q \cup {k}) = Cardinality(Q) + 1
          BY <5>2, FS_AddElement
        <5> QED
          BY <4>1, <5>1, <5>2, <5>3, Zenon
      <4>3. T \in SUBSET kept
        BY <1>19, <3>6, <4>1
      <4>4. Cardinality(T) <= n
        BY <1>12, <4>3, FS_Subset
      <4> QED
        BY <1>24, <1>25, <3>1, <4>2, <4>4
    <3> QED
      BY <3>4, <3>5, <3>6
  <2> QED
    BY <2>4, <2>5
<1>30. \A k \in kept, r \in Window \ kept : IF job.reverse THEN r.ts <= k.ts ELSE r.ts >= k.ts
  <2> SUFFICES ASSUME NEW k \in kept, NEW r \in Window \ kept
               PROVE  IF job.reverse THEN r.ts <= k.ts ELSE r.ts >= k.ts
    BY Zenon
  <2>1. k \in store /\ r \in store /\ k.ts \in Int /\ r.ts \in Int
    BY <1>1, <1>11, QueryJob DEF Window
  <2>2. Rank(k) <= Rank(r)
    BY <1>29
  <2>3. IF job.reverse THEN k.ts >= r.ts ELSE k.ts <= r.ts
    BY <1>1, <2>1, <2>2, Ranks
  <2> QED
    BY <2>1, <2>3
<1>31. Cardinality(kept) = Len(out)
  BY <1>8, <1>12
<1> QED
  BY <1>10, <1>14, <1>18, <1>26, <1>28, <1>30, <1>31, Zenon DEF MergedIsWhole

\* The merged artifact of a partitioned query is what one query over the whole
\* window would have answered (controllers/splunk.rs, controllers/grafana.rs,
\* ingestion.rs): for every store, window, number of partitions, limit and
\* direction, whatever order the partitions were answered in, and whatever
\* order the vendor gives to records of one instant.
THEOREM MergesAreWhole == IngestSpec => []MergedIsWhole
<1>1. IngestInit => IngestInv
  BY IngestInitial
<1>2. IngestInv /\ [IngestNext]_ingestVars => IngestInv'
  <2> SUFFICES ASSUME IngestInv, [IngestNext]_ingestVars PROVE IngestInv'
    OBVIOUS
  <2>1. CASE BeginPartitions
    BY <2>1, BeginKeeps
  <2>2. ASSUME NEW i \in active, NEW shape \in Shapes, Acquired(i, "root", shape) PROVE IngestInv'
    BY <2>2, AcquiredKeeps
  <2>3. ASSUME NEW i \in active, AcquireFails(i) PROVE IngestInv'
    BY <2>3, FirstErrorKeeps DEF AcquireFails
  <2>4. ASSUME NEW i \in active, NEW level \in Levels, NEW shape \in Shapes, NEW badRow \in BOOLEAN,
               AnswerRefused(i, level, shape, badRow)
        PROVE  IngestInv'
    <3>1. phase = "acquire" /\ FirstError(i)
      BY <2>4 DEF AnswerRefused
    <3> QED
      BY <3>1, FirstErrorKeeps
  <2>5. CASE Validate
    BY <2>5, ValidateKeeps
  <2>6. ASSUME NEW p \in Waiting, MergeStep(p) PROVE IngestInv'
    BY <2>6, MergeStepKeeps
  <2>7. CASE MergeLimited
    BY <2>7, MergeLimitedKeeps
  <2>8. CASE CommitResult
    BY <2>8, CommitKeeps
  <2>9. CASE CommitFails
    BY <2>9, CommitFailsKeeps
  <2>10. CASE UNCHANGED ingestVars
    <3>1. UNCHANGED <<job, store, slots, position, out, last, limited>>
          /\ next' = next /\ failed' = failed /\ phase' = phase /\ active' = active /\ complete' = complete
      BY <2>10 DEF ingestVars
    <3>2. QueryTypes' /\ SlotsAnswer'
      <4>1. QueryTypes'
        BY <3>1 DEF IngestInv, QueryTypes, SlotSet
      <4> QED
        BY <3>1, <4>1, AnswersKept DEF IngestInv
    <3>3. phase \in {"begin", "acquire"} => Unmerged'
      BY <3>1 DEF IngestInv, Unmerged
    <3>4. phase = "acquire" => Requested'
      BY <3>1, Zenon DEF IngestInv, Requested
    <3>5. phase \in {"merge", "done"} => MergedSoFar'
      BY <3>1, MergedKept DEF IngestInv
    <3>6. Partitioned' = Partitioned
      BY <3>1, Zenon DEF Partitioned
    <3>7. Waiting' = Waiting /\ Completeness' = Completeness
      BY <3>1, <3>6, Zenon DEF Waiting, Completeness, UpstreamLimitReached
    <3> QED
      BY <3>1, <3>2, <3>3, <3>4, <3>5, <3>7 DEF IngestInv
  <2> QED
    BY <2>1, <2>2, <2>3, <2>4, <2>5, <2>6, <2>7, <2>8, <2>9, <2>10 DEF IngestNext
<1>3. IngestInv => MergedIsWhole
  <2>1. CASE phase = "done"
    BY <2>1, DoneIsWhole
  <2>2. CASE phase # "done"
    BY <2>2 DEF MergedIsWhole
  <2> QED
    BY <2>1, <2>2
<1> QED
  BY <1>1, <1>2, <1>3, PTL DEF IngestSpec
=============================================================================
