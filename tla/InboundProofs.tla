---------------------------- MODULE InboundProofs ----------------------------
(***************************************************************************)
(* Proofs about inbound bearer tokens (Inbound): for any tokens, documents, *)
(* settings and number of requests, over a JWKS file or a remote provider.  *)
(***************************************************************************)
EXTENDS Inbound, TLAPS

-----------------------------------------------------------------------------
(* The inductive invariant.                                                *)

Answers == Docs \cup {Failed, NoDoc}

Mats == {None} \cup {AdmitKeys(d)[k] : d \in Answers, k \in Kids}

Waits == {"loading", "firsting", "refetching"}

Labels == {"loading", "firsting", "refetching", "done", "load", "lookup", "snapshot", "first",
           "unknown", "resnapshot", "verify", "bearer"}

Ends == {None, "unavailable", "invalid", "unknown_key", "revoked", "scope", "kind", "ok"}

ReqState ==
  [pc : Labels, tok : Tokens \cup {NoTok}, mat : Mats, fresh : BOOLEAN, why : Ends,
   vouched : BOOLEAN, lacked : BOOLEAN]

KeyTypes ==
  /\ published \in Docs /\ gate \in [by : Reqs \cup {Nobody, Refresher}, answer : Answers]
  /\ keys \in {AdmitKeys(d) : d \in Answers}
  /\ FileMode => keys = AdmitKeys(digest)
  /\ req \in [Reqs -> ReqState]
  /\ refresher = "busy" => gate.by = Refresher

\* What the cache vouches for was verified by its own material, which is admitted.
CacheSound ==
  /\ validated \in [Tokens -> [mat : Mats, expired : BOOLEAN]]
  /\ \A t \in Tokens : validated[t] # NoEntry => /\ validated[t].mat = TokenOf[t].mat
                                                 /\ KeyOf(keys, t) = validated[t].mat

\* The request has run under these keys.
Seen(r, ks) ==
  /\ KeyOf(ks, req[r].tok) = TokenOf[req[r].tok].mat => req[r].vouched
  /\ KeyOf(ks, req[r].tok) = None => req[r].lacked

\* Remote keys are in force as they are installed.  Those of a file are in force as it
\* is published: a request that has begun to read it has seen the answer at the gate,
\* and one that has read it the keys that are there.
SeenKeys(r) ==
  /\ ~FileMode /\ req[r].pc # "done" => Seen(r, keys)
  /\ FileMode /\ req[r].pc # "done" => Seen(r, AdmitKeys(published))
  /\ FileMode /\ req[r].pc \notin {"done", "load"} /\ gate.by # Nobody /\ gate.answer # Failed =>
       Seen(r, AdmitKeys(gate.answer))
  /\ FileMode /\ req[r].pc \notin {"done", "load", "loading"} => Seen(r, keys)

\* What a request has in hand.
InHand(r) ==
  /\ req[r].fresh => req[r].mat = KeyOf(keys, req[r].tok)
  /\ req[r].pc = "verify" /\ req[r].mat = TokenOf[req[r].tok].mat => req[r].vouched
  /\ req[r].pc = "bearer" => req[r].vouched
  /\ req[r].why = "ok" => req[r].vouched
  /\ req[r].why = "unknown_key" => req[r].lacked

ReqSound(r) ==
  /\ req[r].pc # "done" => req[r].tok \in Tokens
  /\ req[r].pc \in Waits => gate.by = r
  /\ SeenKeys(r) /\ InHand(r)

InboundInv == KeyTypes /\ CacheSound /\ \A r \in Reqs : ReqSound(r)

-----------------------------------------------------------------------------
(* Keys, and requests one at a time. *)

LEMMA KeyOfType ==
  ASSUME NEW d \in Answers, NEW t \in Tokens
  PROVE  KeyOf(AdmitKeys(d), t) \in Mats
BY DEF KeyOf, Mats

LEMMA NobodyAsks == Nobody \notin Reqs /\ Refresher \notin Reqs /\ Nobody # Refresher
BY InboundConstants DEF Nobody, Refresher

LEMMA ReqTyped ==
  ASSUME InboundInv, NEW r \in Reqs
  PROVE  req \in [Reqs -> ReqState] /\ req[r] \in ReqState
BY DEF InboundInv, KeyTypes

(* A request that does not move, while somebody may take or free the gate. *)
LEMMA OtherStays ==
  ASSUME InboundInv, NEW q \in Reqs, req'[q] = req[q], UNCHANGED <<settings, published, keys>>,
         \/ gate' = gate
         \/ gate.by = Nobody /\ gate'.answer \in {Failed, published}
         \/ gate'.by = Nobody /\ req[q].pc \notin Waits
  PROVE  ReqSound(q)'
<1>1. ReqSound(q) /\ FileMode' = FileMode
  BY DEF InboundInv, FileMode
<1>2. \A ks : Seen(q, ks) => Seen(q, ks)'
  BY DEF Seen
<1>3. SeenKeys(q)'
  BY <1>1, <1>2 DEF ReqSound, SeenKeys, Seen
<1>4. InHand(q)'
  BY <1>1 DEF ReqSound, InHand
<1>5. /\ req'[q].pc # "done" => req'[q].tok \in Tokens
      /\ req'[q].pc \in Waits => gate'.by = q
  BY <1>1, NobodyAsks DEF ReqSound
<1> QED
  BY <1>3, <1>4, <1>5 DEF ReqSound

(* One request moves; the keys stay, and the gate goes from Nobody to it or *)
(* back.                                                                    *)
LEMMA OneMoves ==
  ASSUME InboundInv, NEW r \in Reqs, NEW new \in ReqState, req' = [req EXCEPT ![r] = new],
         UNCHANGED <<settings, published, keys, digest>>,
         gate' \in [by : Reqs \cup {Nobody, Refresher}, answer : Answers],
         \/ gate' = gate
         \/ gate.by = Nobody /\ gate'.answer \in {Failed, published}
         \/ gate'.by = Nobody /\ gate.by = r,
         refresher' = "busy" => refresher = "busy",
         CacheSound', ReqSound(r)'
  PROVE  InboundInv'
<1>1. req' \in [Reqs -> ReqState] /\ \A q \in Reqs : q # r => req'[q] = req[q]
  BY ReqTyped
<1>2. ASSUME NEW q \in Reqs, q # r PROVE ReqSound(q)'
  <2>1. gate.by = r => req[q].pc \notin Waits
    BY <1>2 DEF InboundInv, ReqSound
  <2> QED
    BY <1>1, <1>2, <2>1, OtherStays
<1>3. KeyTypes'
  BY <1>1, NobodyAsks DEF InboundInv, KeyTypes, FileMode
<1> QED
  BY <1>2, <1>3 DEF InboundInv

(* The keys and the cache stay as well. *)
LEMMA CacheStays ==
  ASSUME InboundInv, keys' = keys, validated' = validated
  PROVE  CacheSound'
BY DEF InboundInv, CacheSound

-----------------------------------------------------------------------------
(* The steps of a request without the gate. *)

LEMMA QuietMove ==
  ASSUME InboundInv, NEW r \in Reqs, NEW new \in ReqState, req' = [req EXCEPT ![r] = new],
         UNCHANGED <<settings, published, keys, digest, gate>>, CacheSound',
         refresher' = "busy" => refresher = "busy",
         new.pc # "done" => new.tok \in Tokens, new.pc \notin Waits,
         SeenKeys(r)', InHand(r)'
  PROVE  InboundInv'
<1>1. req'[r] = new
  BY ReqTyped
<1>2. ReqSound(r)'
  BY <1>1 DEF ReqSound
<1>3. gate \in [by : Reqs \cup {Nobody, Refresher}, answer : Answers]
  BY DEF InboundInv, KeyTypes
<1> QED
  BY <1>2, <1>3, OneMoves

(* A request under way goes on with the same token and the same history. *)
LEMMA SeenStays ==
  ASSUME InboundInv, NEW r \in Reqs, req'[r].tok = req[r].tok,
         req'[r].vouched = req[r].vouched, req'[r].lacked = req[r].lacked,
         UNCHANGED <<settings, published, keys, gate>>,
         req'[r].pc # "done" => req[r].pc \notin {"done", "load", "loading"}
  PROVE  SeenKeys(r)'
<1>1. SeenKeys(r) /\ FileMode' = FileMode
  BY DEF InboundInv, ReqSound, FileMode
<1>2. \A ks : Seen(r, ks) => Seen(r, ks)'
  BY DEF Seen
<1> QED
  BY <1>1, <1>2 DEF SeenKeys

LEMMA GotoState ==
  ASSUME InboundInv, NEW r \in Reqs, NEW label \in Labels, NEW new, new = [req[r] EXCEPT !.pc = label]
  PROVE  /\ new \in ReqState /\ Goto(r, label) = [req EXCEPT ![r] = new]
         /\ new.pc = label /\ new.tok = req[r].tok /\ new.mat = req[r].mat /\ new.fresh = req[r].fresh
         /\ new.why = req[r].why /\ new.vouched = req[r].vouched /\ new.lacked = req[r].lacked
<1>1. req \in [Reqs -> ReqState] /\ req[r] \in ReqState
  BY ReqTyped
<1>2. Goto(r, label) = [req EXCEPT ![r] = [req[r] EXCEPT !.pc = label]]
  BY <1>1 DEF Goto, ReqState
<1> QED
  BY <1>1, <1>2 DEF ReqState

LEMMA OverState ==
  ASSUME InboundInv, NEW r \in Reqs, NEW why \in Ends
  PROVE  \E new \in ReqState :
           /\ Over(req, r, why) = [req EXCEPT ![r] = new]
           /\ new.pc = "done" /\ new.why = why /\ new.fresh = FALSE /\ new.mat = None
           /\ new.tok = req[r].tok /\ new.vouched = req[r].vouched /\ new.lacked = req[r].lacked
<1> DEFINE new == [req[r] EXCEPT !.pc = "done", !.why = why, !.mat = None, !.fresh = FALSE]
<1>1. req \in [Reqs -> ReqState] /\ req[r] \in ReqState /\ None \in Mats /\ "done" \in Labels
  BY ReqTyped DEF Mats, Labels
<1>2. Over(req, r, why) = [req EXCEPT ![r] = new]
  BY <1>1 DEF Over, ReqState
<1>3. /\ new \in ReqState
      /\ new.pc = "done" /\ new.why = why /\ new.fresh = FALSE /\ new.mat = None
      /\ new.tok = req[r].tok /\ new.vouched = req[r].vouched /\ new.lacked = req[r].lacked
  BY <1>1 DEF ReqState
<1> HIDE DEF new
<1> QED
  BY <1>2, <1>3

(* The request is over: whatever it ends with follows from its history. *)
LEMMA Finishes ==
  ASSUME InboundInv, NEW r \in Reqs, NEW why \in Ends, req' = Over(req, r, why),
         UNCHANGED <<settings, published, keys, digest, gate, refresher>>, CacheSound',
         why = "ok" => req[r].vouched, why = "unknown_key" => req[r].lacked
  PROVE  InboundInv'
<1>1. PICK new \in ReqState :
        /\ Over(req, r, why) = [req EXCEPT ![r] = new]
        /\ new.pc = "done" /\ new.why = why /\ new.fresh = FALSE /\ new.mat = None
        /\ new.tok = req[r].tok /\ new.vouched = req[r].vouched /\ new.lacked = req[r].lacked
  BY OverState
<1>2. /\ req' = [req EXCEPT ![r] = new]
      /\ new.pc = "done" /\ new.why = why /\ new.fresh = FALSE
      /\ new.vouched = req[r].vouched /\ new.lacked = req[r].lacked
  BY <1>1
<1>3. req'[r] = new
  BY <1>2, ReqTyped
<1>4. SeenKeys(r)'
  BY <1>2, <1>3 DEF SeenKeys
<1>5. InHand(r)'
  BY <1>2, <1>3 DEF InHand
<1> QED
  BY <1>2, <1>4, <1>5, QuietMove DEF Waits

(* The request goes on without the gate. *)
LEMMA GoesOn ==
  ASSUME InboundInv, NEW r \in Reqs, NEW label \in Labels \ {"done"}, req' = Goto(r, label),
         UNCHANGED <<settings, published, keys, digest, gate>>, CacheSound',
         refresher' = "busy" => refresher = "busy",
         req[r].pc \notin {"done", "load", "loading"}, label \notin Waits, label # "verify",
         label = "bearer" => req[r].vouched
  PROVE  InboundInv'
<1>1. PICK new : new = [req[r] EXCEPT !.pc = label]
  OBVIOUS
<1>2. /\ new \in ReqState /\ req' = [req EXCEPT ![r] = new]
      /\ new.pc = label /\ new.tok = req[r].tok /\ new.mat = req[r].mat /\ new.fresh = req[r].fresh
      /\ new.why = req[r].why /\ new.vouched = req[r].vouched /\ new.lacked = req[r].lacked
  BY <1>1, GotoState
<1>3. req'[r] = new
  BY <1>2, ReqTyped
<1>4. SeenKeys(r)'
  BY <1>2, <1>3, SeenStays
<1>5. ReqSound(r)
  BY DEF InboundInv
<1>6. InHand(r)'
  BY <1>2, <1>3, <1>5 DEF ReqSound, InHand
<1> QED
  BY <1>2, <1>4, <1>5, <1>6, QuietMove DEF ReqSound

LEMMA StepBegin ==
  ASSUME InboundInv, NEW r \in Reqs, NEW t \in Tokens, Begin(r, t)
  PROVE  InboundInv'
<1> DEFINE ks == IF FileMode THEN AdmitKeys(published) ELSE keys
           v == (KeyOf(ks, t) = TokenOf[t].mat)
           l == (KeyOf(ks, t) = None)
           label == IF FileMode THEN "load" ELSE "lookup"
           new == [Resting EXCEPT !.pc = label, !.tok = t, !.vouched = v, !.lacked = l]
<1>1. /\ req' = [req EXCEPT ![r] = new] /\ req[r].pc = "done"
      /\ UNCHANGED <<settings, published, keys, digest, gate, refresher, validated>>
  BY DEF Begin
<1>2. v \in BOOLEAN /\ l \in BOOLEAN /\ label \in Labels /\ None \in Mats
  BY DEF Labels, Mats
<1>3. /\ label = "load" => FileMode
      /\ label = "lookup" => ~FileMode
      /\ label \in {"load", "lookup"}
  OBVIOUS
<1>4. /\ KeyOf(ks, t) = TokenOf[t].mat => v
      /\ KeyOf(ks, t) = None => l
  OBVIOUS
<1>5. (FileMode => ks = AdmitKeys(published)) /\ (~FileMode => ks = keys)
  OBVIOUS
<1> HIDE DEF v, l, label, ks
<1>6. /\ new \in ReqState /\ new.pc = label /\ new.tok = t /\ new.fresh = FALSE /\ new.why = None
      /\ new.vouched = v /\ new.lacked = l
  BY <1>2 DEF Resting, ReqState, Ends
<1> HIDE DEF new
<1>7. req'[r] = new
  BY <1>1, ReqTyped
<1>8. FileMode' = FileMode
  BY <1>1 DEF FileMode
<1>9. SeenKeys(r)'
  BY <1>1, <1>3, <1>4, <1>5, <1>6, <1>7, <1>8 DEF SeenKeys, Seen
<1>10. InHand(r)'
  BY <1>3, <1>6, <1>7 DEF InHand, None
<1>11. CacheSound'
  BY <1>1, CacheStays
<1> QED
  BY <1>1, <1>3, <1>6, <1>9, <1>10, <1>11, QuietMove DEF Waits

LEMMA StepLookup ==
  ASSUME InboundInv, NEW r \in Reqs, Lookup(r)
  PROVE  InboundInv'
<1> DEFINE t == req[r].tok
<1>1. /\ req[r].pc = "lookup"
      /\ UNCHANGED <<settings, published, keys, digest, gate, refresher, validated>>
  BY DEF Lookup
<1>2. CacheSound' /\ CacheSound /\ ReqSound(r) /\ t \in Tokens
  BY <1>1, CacheStays DEF InboundInv, ReqSound
<1>3. CASE Hit(t)
  <2> DEFINE m == validated[t].mat
             new == [req[r] EXCEPT !.pc = "bearer", !.mat = m]
  <2>1. req' = [req EXCEPT ![r].pc = "bearer", ![r].mat = m]
    BY <1>3 DEF Lookup
  <2>2. m \in Mats /\ m = TokenOf[t].mat /\ m = KeyOf(keys, t)
    BY <1>2, <1>3 DEF Hit, CacheSound
  <2>3. req[r].vouched
    BY <1>1, <1>2, <2>2 DEF ReqSound, SeenKeys, Seen
  <2> HIDE DEF m
  <2>4. req[r] \in ReqState /\ req \in [Reqs -> ReqState] /\ "bearer" \in Labels
    BY ReqTyped DEF Labels
  <2>5. /\ new \in ReqState /\ new.pc = "bearer" /\ new.tok = t /\ new.mat = m
        /\ new.why = req[r].why /\ new.vouched = req[r].vouched /\ new.lacked = req[r].lacked
    BY <2>2, <2>4 DEF ReqState
  <2>6. req' = [req EXCEPT ![r] = new]
    BY <2>1, <2>4 DEF ReqState
  <2> HIDE DEF new
  <2>7. req'[r] = new
    BY <2>4, <2>6
  <2>8. SeenKeys(r)'
    BY <1>1, <2>5, <2>7, SeenStays
  <2>9. InHand(r)'
    BY <1>1, <1>2, <2>2, <2>3, <2>5, <2>7 DEF ReqSound, InHand
  <2> QED
    BY <1>1, <1>2, <2>5, <2>6, <2>8, <2>9, QuietMove DEF Waits
<1>4. CASE ~Hit(t) /\ HeaderRefused(TokenOf[t])
  <2>1. req' = Over(req, r, "invalid")
    BY <1>4 DEF Lookup
  <2> QED
    BY <1>1, <1>2, <2>1, Finishes DEF Ends
<1>5. CASE ~Hit(t) /\ ~HeaderRefused(TokenOf[t])
  <2>1. req' = Goto(r, "snapshot")
    BY <1>5 DEF Lookup
  <2> QED
    BY <1>1, <1>2, <2>1, GoesOn DEF Labels, Waits
<1> QED
  BY <1>3, <1>4, <1>5

(* The request takes the key of its token out of the keys that are there. *)
LEMMA Takes ==
  ASSUME InboundInv, NEW r \in Reqs, req[r].pc \in {"snapshot", "resnapshot"},
         req' = [req EXCEPT ![r].pc = "verify", ![r].mat = KeyOf(keys, req[r].tok), ![r].fresh = TRUE],
         UNCHANGED <<settings, published, keys, digest, gate>>, CacheSound',
         refresher' = "busy" => refresher = "busy"
  PROVE  InboundInv'
<1> DEFINE m == KeyOf(keys, req[r].tok)
           new == [req[r] EXCEPT !.pc = "verify", !.mat = m, !.fresh = TRUE]
<1>1. req[r] \in ReqState /\ req \in [Reqs -> ReqState] /\ "verify" \in Labels
  BY ReqTyped DEF Labels
<1>2. ReqSound(r) /\ req[r].tok \in Tokens
  BY DEF InboundInv, ReqSound
<1>3. m \in Mats
  BY <1>2, KeyOfType DEF InboundInv, KeyTypes
<1>4. m = TokenOf[req[r].tok].mat => req[r].vouched
  BY <1>2 DEF ReqSound, SeenKeys, Seen
<1>5. m = KeyOf(keys, req[r].tok) /\ keys' = keys
  OBVIOUS
<1>6. req' = [req EXCEPT ![r].pc = "verify", ![r].mat = m, ![r].fresh = TRUE]
  OBVIOUS
<1> HIDE DEF m
<1>7. /\ new \in ReqState /\ new.pc = "verify" /\ new.mat = m /\ new.tok = req[r].tok
      /\ new.why = req[r].why /\ new.vouched = req[r].vouched /\ new.lacked = req[r].lacked
  BY <1>1, <1>3 DEF ReqState
<1>8. req' = [req EXCEPT ![r] = new]
  BY <1>1, <1>6 DEF ReqState
<1> HIDE DEF new
<1>9. req'[r] = new
  BY <1>1, <1>8
<1>10. SeenKeys(r)'
  BY <1>7, <1>9, SeenStays
<1>11. InHand(r)'
  BY <1>2, <1>4, <1>5, <1>7, <1>9 DEF ReqSound, InHand
<1> QED
  BY <1>2, <1>7, <1>8, <1>10, <1>11, QuietMove DEF Waits

LEMMA StepSnapshot ==
  ASSUME InboundInv, NEW r \in Reqs, Snapshot(r)
  PROVE  InboundInv'
<1>1. /\ req[r].pc = "snapshot" /\ (refresher' = "busy" => refresher = "busy")
      /\ UNCHANGED <<settings, published, keys, digest, gate, validated>>
  BY DEF Snapshot
<1>2. CacheSound'
  BY <1>1, CacheStays
<1>3. CASE ~fetched
  BY <1>1, <1>2, <1>3, GoesOn DEF Snapshot, Labels, Waits
<1>4. CASE fetched /\ KeyOf(keys, req[r].tok) = None
  BY <1>1, <1>2, <1>4, GoesOn DEF Snapshot, Labels, Waits
<1>5. CASE fetched /\ KeyOf(keys, req[r].tok) # None
  <2>1. req' = [req EXCEPT ![r].pc = "verify", ![r].mat = KeyOf(keys, req[r].tok), ![r].fresh = TRUE]
    BY <1>5 DEF Snapshot
  <2> QED
    BY <1>1, <1>2, <2>1, Takes
<1> QED
  BY <1>3, <1>4, <1>5

LEMMA StepResnapshot ==
  ASSUME InboundInv, NEW r \in Reqs, Resnapshot(r)
  PROVE  InboundInv'
<1>1. /\ req[r].pc = "resnapshot"
      /\ UNCHANGED <<settings, published, keys, digest, gate, refresher, validated>>
  BY DEF Resnapshot
<1>2. CacheSound' /\ ReqSound(r)
  BY <1>1, CacheStays DEF InboundInv
<1>3. CASE KeyOf(keys, req[r].tok) = None
  <2>1. req' = Over(req, r, "unknown_key")
    BY <1>3 DEF Resnapshot
  <2>2. req[r].lacked
    BY <1>1, <1>2, <1>3 DEF ReqSound, SeenKeys, Seen
  <2> QED
    BY <1>1, <1>2, <2>1, <2>2, Finishes DEF Ends
<1>4. CASE KeyOf(keys, req[r].tok) # None
  <2>1. req' = [req EXCEPT ![r].pc = "verify", ![r].mat = KeyOf(keys, req[r].tok), ![r].fresh = TRUE]
    BY <1>4 DEF Resnapshot
  <2> QED
    BY <1>1, <1>2, <2>1, Takes
<1> QED
  BY <1>3, <1>4

(* What is remembered was verified under the keys that are still there. *)
LEMMA RememberSound ==
  ASSUME InboundInv, NEW r \in Reqs, NEW life, req[r].pc = "verify",
         TokenOf[req[r].tok].mat = req[r].mat, validated' = Remember(r, life), keys' = keys
  PROVE  CacheSound'
<1> DEFINE t == req[r].tok
           entry == [mat |-> req[r].mat, expired |-> FALSE]
<1>1. CacheSound /\ ReqSound(r) /\ t \in Tokens /\ req[r].mat \in Mats
  BY ReqTyped DEF InboundInv, ReqSound, ReqState
<1>2. NoEntry \in [mat : Mats, expired : BOOLEAN]
  BY DEF NoEntry, Mats
<1>3. CASE ~req[r].fresh \/ life # "live"
  BY <1>1, <1>3 DEF Remember, CacheSound
<1>4. CASE req[r].fresh /\ life = "live"
  <2>1. PICK room : /\ room \in [Tokens -> [mat : Mats, expired : BOOLEAN]]
                    /\ \A x \in Tokens : room[x] = validated[x] \/ room[x] = NoEntry
                    /\ validated' = [room EXCEPT ![t] = entry]
    <3> DEFINE kept == {x \in Tokens : validated[x] # NoEntry /\ ~validated[x].expired}
               full == Cardinality({x \in Tokens : validated[x] # NoEntry}) >= Capacity
               swept == [x \in Tokens |-> IF x \in kept /\ Cardinality(kept) < Capacity
                                          THEN validated[x] ELSE NoEntry]
               room == IF ~full THEN validated ELSE swept
    <3>1. validated \in [Tokens -> [mat : Mats, expired : BOOLEAN]]
      BY <1>1 DEF CacheSound
    <3>2. /\ swept \in [Tokens -> [mat : Mats, expired : BOOLEAN]]
          /\ \A x \in Tokens : swept[x] = validated[x] \/ swept[x] = NoEntry
      BY <1>2, <3>1
    <3>3. validated' = [room EXCEPT ![t] = entry]
      BY <1>4 DEF Remember
    <3> HIDE DEF swept, full, entry
    <3>4. /\ room \in [Tokens -> [mat : Mats, expired : BOOLEAN]]
          /\ \A x \in Tokens : room[x] = validated[x] \/ room[x] = NoEntry
      BY <3>1, <3>2
    <3> HIDE DEF room
    <3> QED
      BY <3>3, <3>4
  <2>2. /\ entry \in [mat : Mats, expired : BOOLEAN] /\ entry.mat = TokenOf[t].mat
        /\ KeyOf(keys, t) = entry.mat
    BY <1>1, <1>4 DEF ReqSound, InHand
  <2> HIDE DEF entry
  <2>3. validated'[t] = entry /\ \A x \in Tokens : x # t => validated'[x] = room[x]
    BY <1>1, <2>1
  <2>4. validated' \in [Tokens -> [mat : Mats, expired : BOOLEAN]]
    BY <2>1, <2>2
  <2>5. ASSUME NEW x \in Tokens, validated'[x] # NoEntry
        PROVE  validated'[x].mat = TokenOf[x].mat /\ KeyOf(keys, x) = validated'[x].mat
    <3>1. CASE x = t
      BY <2>2, <2>3, <3>1
    <3>2. CASE x # t
      <4>1. validated'[x] = validated[x] /\ validated[x] # NoEntry
        BY <2>1, <2>3, <2>5, <3>2
      <4> QED
        BY <1>1, <4>1 DEF CacheSound
    <3> QED
      BY <3>1, <3>2
  <2> QED
    BY <2>4, <2>5 DEF CacheSound
<1> QED
  BY <1>3, <1>4

LEMMA StepVerify ==
  ASSUME InboundInv, NEW r \in Reqs, NEW life, Verify(r, life)
  PROVE  InboundInv'
<1> DEFINE t == req[r].tok
           ok == TokenOf[t].mat = req[r].mat /\ ~ClaimsRefused(TokenOf[t], life)
<1>1. /\ req[r].pc = "verify"
      /\ UNCHANGED <<settings, published, keys, digest, gate, refresher>>
  BY DEF Verify
<1>2. ReqSound(r)
  BY DEF InboundInv
<1>3. CASE ok
  <2>1. req' = Goto(r, "bearer") /\ validated' = Remember(r, life) /\ TokenOf[t].mat = req[r].mat
    BY <1>3 DEF Verify
  <2>2. CacheSound'
    BY <1>1, <2>1, RememberSound
  <2>3. req[r].vouched
    BY <1>1, <1>2, <2>1 DEF ReqSound, InHand
  <2> QED
    BY <1>1, <2>1, <2>2, <2>3, GoesOn DEF Labels, Waits
<1>4. CASE ~ok
  <2>1. req' = Over(req, r, "invalid") /\ validated' = validated
    BY <1>4 DEF Verify
  <2>2. CacheSound'
    BY <1>1, <2>1, CacheStays
  <2> QED
    BY <1>1, <2>1, <2>2, Finishes DEF Ends
<1> QED
  BY <1>3, <1>4

LEMMA StepBearer ==
  ASSUME InboundInv, NEW r \in Reqs, NEW admin \in BOOLEAN, Bearer(r, admin)
  PROVE  InboundInv'
<1>1. /\ req[r].pc = "bearer"
      /\ UNCHANGED <<settings, published, keys, digest, gate, refresher, validated>>
  BY DEF Bearer
<1>2. PICK why \in Ends : req' = Over(req, r, why) /\ why # "unknown_key"
  BY DEF Bearer, Ends
<1>3. CacheSound'
  BY <1>1, CacheStays
<1>4. req[r].vouched
  BY <1>1 DEF InboundInv, ReqSound, InHand
<1> QED
  BY <1>1, <1>2, <1>3, <1>4, Finishes

-----------------------------------------------------------------------------
(* The gate: taken, and given up. *)

LEMMA FetchState ==
  ASSUME InboundInv, NEW w \in Reqs \cup {Refresher}, Fetch(w)
  PROVE  /\ gate.by = Nobody /\ gate'.by = w /\ gate'.answer \in {Failed, published}
         /\ gate' \in [by : Reqs \cup {Nobody, Refresher}, answer : Answers]
BY DEF InboundInv, KeyTypes, Fetch, Answers

(* A request takes the gate: it has seen what is published. *)
LEMMA TakesGate ==
  ASSUME InboundInv, NEW r \in Reqs, Fetch(r), NEW label \in Waits, req' = Goto(r, label),
         UNCHANGED <<settings, published, keys, digest, validated, refresher>>,
         req[r].pc # "done", req[r].pc = "load" => label = "loading", req[r].pc # "loading"
  PROVE  InboundInv'
<1>1. PICK new : new = [req[r] EXCEPT !.pc = label]
  OBVIOUS
<1>2. label \in Labels /\ label # "done" /\ label # "verify" /\ label # "bearer" /\ label # "load"
  BY DEF Labels, Waits
<1>3. /\ new \in ReqState /\ req' = [req EXCEPT ![r] = new]
      /\ new.pc = label /\ new.tok = req[r].tok /\ new.mat = req[r].mat /\ new.fresh = req[r].fresh
      /\ new.why = req[r].why /\ new.vouched = req[r].vouched /\ new.lacked = req[r].lacked
  BY <1>1, <1>2, GotoState
<1>4. req'[r] = new
  BY <1>3, ReqTyped
<1>5. /\ gate.by = Nobody /\ gate'.by = r /\ gate'.answer \in {Failed, published}
      /\ gate' \in [by : Reqs \cup {Nobody, Refresher}, answer : Answers]
  BY FetchState
<1>6. ReqSound(r) /\ FileMode' = FileMode
  BY DEF InboundInv, FileMode
<1>7. \A ks : Seen(r, ks) => Seen(r, ks)'
  BY <1>3, <1>4 DEF Seen
<1>8. SeenKeys(r)'
  <2>1. ~FileMode => Seen(r, keys)'
    BY <1>6, <1>7 DEF ReqSound, SeenKeys, Seen
  <2>2. FileMode => Seen(r, AdmitKeys(published))'
    BY <1>6, <1>7 DEF ReqSound, SeenKeys, Seen
  <2>3. FileMode /\ gate'.answer # Failed => Seen(r, AdmitKeys(gate.answer))'
    BY <1>5, <2>2 DEF Seen
  <2>4. FileMode /\ label # "loading" => Seen(r, keys)'
    BY <1>6, <1>7 DEF ReqSound, SeenKeys, Seen
  <2> QED
    BY <1>3, <1>4, <1>6, <2>1, <2>2, <2>3, <2>4 DEF SeenKeys
<1>9. InHand(r)'
  BY <1>2, <1>3, <1>4, <1>6 DEF ReqSound, InHand
<1>10. ReqSound(r)'
  BY <1>3, <1>4, <1>5, <1>6, <1>8, <1>9 DEF ReqSound
<1>11. CacheSound'
  BY CacheStays
<1> QED
  BY <1>3, <1>5, <1>10, <1>11, OneMoves

LEMMA StepTakesGate ==
  ASSUME InboundInv, NEW r \in Reqs, Load(r) \/ First(r) \/ Unknown(r)
  PROVE  InboundInv'
<1>1. UNCHANGED <<settings, published, keys, digest, validated, refresher>>
  BY DEF Load, First, Unknown
<1>2. CacheSound'
  BY <1>1, CacheStays
<1>3. CASE Load(r)
  BY <1>1, <1>3, TakesGate DEF Load, Waits
<1>4. CASE First(r)
  <2>1. CASE fetched
    BY <1>1, <1>2, <1>4, <2>1, GoesOn DEF First, Labels, Waits
  <2>2. CASE ~fetched
    BY <1>1, <1>4, <2>2, TakesGate DEF First, Waits
  <2> QED
    BY <2>1, <2>2
<1>5. CASE Unknown(r)
  <2>1. CASE recent
    BY <1>1, <1>2, <1>5, <2>1, GoesOn DEF Unknown, Labels, Waits
  <2>2. CASE ~recent
    BY <1>1, <1>5, <2>2, TakesGate DEF Unknown, Waits
  <2> QED
    BY <2>1, <2>2
<1> QED
  BY <1>3, <1>4, <1>5

LEMMA StepCancel ==
  ASSUME InboundInv, NEW r \in Reqs, Cancel(r)
  PROVE  InboundInv'
<1>1. /\ req' = [req EXCEPT ![r] = Resting]
      /\ UNCHANGED <<settings, published, keys, digest, validated, refresher>>
  BY DEF Cancel
<1>2. /\ Resting \in ReqState /\ Resting.pc = "done" /\ ~Resting.fresh /\ Resting.why = None
  BY DEF Resting, ReqState, Labels, Mats, Ends
<1>3. req'[r] = Resting
  BY <1>1, ReqTyped
<1>4. ReqSound(r)'
  BY <1>2, <1>3 DEF ReqSound, SeenKeys, InHand, Waits, None
<1>5. \/ gate' = gate
      \/ gate'.by = Nobody /\ gate.by = r
  BY DEF Cancel, Free
<1>6. gate' \in [by : Reqs \cup {Nobody, Refresher}, answer : Answers]
  BY DEF InboundInv, KeyTypes, Cancel, Free, Answers
<1>7. CacheSound'
  BY <1>1, CacheStays
<1> QED
  BY <1>1, <1>2, <1>4, <1>5, <1>6, <1>7, OneMoves

-----------------------------------------------------------------------------
(* An answer is applied. *)

\* What a request was is kept, its history only grows.
Follows(old, new) ==
  /\ new.pc = old.pc /\ new.tok = old.tok /\ new.mat = old.mat /\ new.why = old.why
  /\ old.vouched => new.vouched
  /\ old.lacked => new.lacked

LEMMA SeeingState ==
  ASSUME NEW mid \in [Reqs -> ReqState], NEW ks, NEW x \in Reqs
  PROVE  /\ Seeing(mid, ks)[x] \in ReqState /\ Follows(mid[x], Seeing(mid, ks)[x])
         /\ mid[x].pc # "done" =>
              /\ KeyOf(ks, mid[x].tok) = TokenOf[mid[x].tok].mat => Seeing(mid, ks)[x].vouched
              /\ KeyOf(ks, mid[x].tok) = None => Seeing(mid, ks)[x].lacked
<1> DEFINE key == KeyOf(ks, mid[x].tok)
           v == mid[x].vouched \/ key = TokenOf[mid[x].tok].mat
           l == mid[x].lacked \/ key = None
           new == [mid[x] EXCEPT !.vouched = v, !.lacked = l]
<1>1. mid[x] \in ReqState
  OBVIOUS
<1>2. CASE mid[x].pc = "done"
  <2>1. Seeing(mid, ks)[x] = mid[x]
    BY <1>2 DEF Seeing
  <2> QED
    BY <1>1, <1>2, <2>1 DEF Follows
<1>3. CASE mid[x].pc # "done"
  <2>1. Seeing(mid, ks)[x] = new
    BY <1>3 DEF Seeing
  <2>2. /\ v \in BOOLEAN /\ l \in BOOLEAN /\ (mid[x].vouched => v) /\ (mid[x].lacked => l)
        /\ key = TokenOf[mid[x].tok].mat => v
        /\ key = None => l
    OBVIOUS
  <2> HIDE DEF v, l
  <2>3. new \in ReqState /\ new.vouched = v /\ new.lacked = l
        /\ new.pc = mid[x].pc /\ new.tok = mid[x].tok /\ new.mat = mid[x].mat /\ new.why = mid[x].why
    BY <1>1, <2>2 DEF ReqState
  <2> HIDE DEF new
  <2> QED
    BY <2>1, <2>2, <2>3 DEF Follows
<1> QED
  BY <1>2, <1>3

LEMMA InstallState ==
  ASSUME NEW mid \in [Reqs -> ReqState], NEW ks, Install(ks, mid)
  PROVE  /\ req' \in [Reqs -> ReqState] /\ keys' = ks
         /\ \A x \in Reqs :
              /\ Follows(mid[x], req'[x]) /\ ~req'[x].fresh
              /\ mid[x].pc # "done" /\ ~(FileMode /\ gate.answer # Failed) =>
                   /\ KeyOf(ks, mid[x].tok) = TokenOf[mid[x].tok].mat => req'[x].vouched
                   /\ KeyOf(ks, mid[x].tok) = None => req'[x].lacked
<1>1. PICK seen : /\ seen = IF FileMode /\ gate.answer # Failed THEN mid ELSE Seeing(mid, ks)
                  /\ req' = [x \in Reqs |-> [seen[x] EXCEPT !.fresh = FALSE]]
  BY DEF Install
<1>2. ASSUME NEW x \in Reqs
      PROVE  /\ seen[x] \in ReqState /\ Follows(mid[x], seen[x])
             /\ mid[x].pc # "done" /\ ~(FileMode /\ gate.answer # Failed) =>
                   /\ KeyOf(ks, mid[x].tok) = TokenOf[mid[x].tok].mat => seen[x].vouched
                   /\ KeyOf(ks, mid[x].tok) = None => seen[x].lacked
  <2>1. CASE FileMode /\ gate.answer # Failed
    BY <1>1, <2>1 DEF Follows
  <2>2. CASE ~(FileMode /\ gate.answer # Failed)
    BY <1>1, <2>2, SeeingState
  <2> QED
    BY <2>1, <2>2
<1>3. ASSUME NEW x \in Reqs
      PROVE  /\ req'[x] \in ReqState /\ ~req'[x].fresh /\ Follows(seen[x], req'[x])
             /\ req'[x].vouched = seen[x].vouched /\ req'[x].lacked = seen[x].lacked
  <2>1. seen[x] \in ReqState /\ req'[x] = [seen[x] EXCEPT !.fresh = FALSE]
    BY <1>1, <1>2
  <2> QED
    BY <2>1 DEF ReqState, Follows
<1>4. req' \in [Reqs -> ReqState]
  BY <1>1, <1>3
<1>5. keys' = ks
  BY DEF Install
<1> QED
  BY <1>2, <1>3, <1>4, <1>5 DEF Follows

LEMMA PrunedSound ==
  ASSUME InboundInv, keys' \in {AdmitKeys(d) : d \in Answers}, validated' = Pruned(keys')
  PROVE  CacheSound'
<1>1. NoEntry \in [mat : Mats, expired : BOOLEAN]
  BY DEF NoEntry, Mats
<1>2. validated \in [Tokens -> [mat : Mats, expired : BOOLEAN]]
  BY DEF InboundInv, CacheSound
<1>3. \A t \in Tokens : \/ validated'[t] = NoEntry
                        \/ validated'[t] = validated[t] /\ KeyOf(keys', t) = validated[t].mat
  BY DEF Pruned
<1>4. validated' \in [Tokens -> [mat : Mats, expired : BOOLEAN]]
  BY <1>1, <1>2 DEF Pruned
<1>5. \A t \in Tokens : validated[t] # NoEntry => validated[t].mat = TokenOf[t].mat
  BY DEF InboundInv, CacheSound
<1>6. \A t \in Tokens : validated'[t] # NoEntry => /\ validated'[t].mat = TokenOf[t].mat
                                                   /\ KeyOf(keys', t) = validated'[t].mat
  BY <1>3, <1>5
<1> QED
  BY <1>4, <1>6 DEF CacheSound

\* The requests as the holder of the gate hands them on: itself one step further, or
\* refused when the answer failed.
HandedOn(w, mid) ==
  \A x \in Reqs :
    \/ x # w /\ mid[x] = req[x]
    \/ /\ x = w /\ mid[x].tok = req[x].tok /\ mid[x].mat = req[x].mat /\ mid[x].why = req[x].why
       /\ mid[x].fresh = req[x].fresh
       /\ mid[x].vouched = req[x].vouched /\ mid[x].lacked = req[x].lacked
       /\ mid[x].pc \in {"lookup", "snapshot", "resnapshot"} /\ req[x].pc \in Waits
       /\ req[x].pc = "loading" => gate.answer # Failed
    \/ /\ x = w /\ mid[x].pc = "done" /\ mid[x].why = "unavailable" /\ ~mid[x].fresh

LEMMA SeenGrows ==
  ASSUME NEW x \in Reqs, NEW ks, Seen(x, ks), req'[x].tok = req[x].tok,
         req[x].vouched => req'[x].vouched, req[x].lacked => req'[x].lacked
  PROVE  Seen(x, ks)'
BY DEF Seen

LEMMA ApplyHolds ==
  ASSUME InboundInv, NEW w \in Reqs \cup {Refresher}, gate.by = w,
         NEW mid \in [Reqs -> ReqState], HandedOn(w, mid), Apply(mid), Free,
         UNCHANGED <<settings, published>>, refresher' # "busy"
  PROVE  InboundInv'
<1>1. /\ gate.answer \in Answers /\ gate'.by = Nobody /\ published \in Docs /\ FileMode' = FileMode
      /\ gate' \in [by : Reqs \cup {Nobody, Refresher}, answer : Answers]
      /\ keys \in {AdmitKeys(d) : d \in Answers} /\ (FileMode => keys = AdmitKeys(digest))
      /\ w # Nobody
  BY NobodyAsks DEF InboundInv, KeyTypes, Free, Answers, FileMode
<1>2. /\ req' \in [Reqs -> ReqState]
      /\ \A x \in Reqs : /\ Follows(mid[x], req'[x])
                         /\ req'[x].fresh => mid[x].fresh /\ keys' = keys
      /\ \/ /\ keys' = keys /\ validated' = validated /\ digest' = digest
            /\ FileMode => gate.answer = digest
         \/ /\ keys' = AdmitKeys(gate.answer) /\ validated' = Pruned(keys')
            /\ FileMode => keys' = AdmitKeys(digest')
            /\ \A x \in Reqs :
                 mid[x].pc # "done" /\ ~(FileMode /\ gate.answer # Failed) =>
                   /\ KeyOf(keys', mid[x].tok) = TokenOf[mid[x].tok].mat => req'[x].vouched
                   /\ KeyOf(keys', mid[x].tok) = None => req'[x].lacked
  <2>1. CASE req' = mid /\ UNCHANGED <<keys, fetched, validated, digest>> /\ (FileMode => gate.answer = digest)
    BY <2>1 DEF Follows
  <2>2. CASE /\ Install(AdmitKeys(gate.answer), mid)
             /\ FileMode => digest' = IF gate.answer = Failed THEN NoDoc ELSE gate.answer
    <3>1. PICK ks : ks = AdmitKeys(gate.answer)
      OBVIOUS
    <3>2. Install(ks, mid) /\ validated' = Pruned(ks)
      BY <2>2, <3>1 DEF Install
    <3>3. /\ req' \in [Reqs -> ReqState] /\ keys' = ks
          /\ \A x \in Reqs :
               /\ Follows(mid[x], req'[x]) /\ ~req'[x].fresh
               /\ mid[x].pc # "done" /\ ~(FileMode /\ gate.answer # Failed) =>
                    /\ KeyOf(ks, mid[x].tok) = TokenOf[mid[x].tok].mat => req'[x].vouched
                    /\ KeyOf(ks, mid[x].tok) = None => req'[x].lacked
      BY <3>2, InstallState
    <3>4. FileMode => keys' = AdmitKeys(digest')
      <4>1. AdmitKeys(Failed) = AdmitKeys(NoDoc)
        BY DEF AdmitKeys
      <4> QED
        BY <2>2, <3>1, <3>3, <4>1
    <3> QED
      BY <3>1, <3>2, <3>3, <3>4
  <2> QED
    BY <2>1, <2>2 DEF Apply
<1>3. CacheSound'
  <2>1. CASE keys' = keys /\ validated' = validated
    BY <2>1, CacheStays
  <2>2. CASE keys' = AdmitKeys(gate.answer) /\ validated' = Pruned(keys')
    BY <1>1, <2>2, PrunedSound
  <2> QED
    BY <1>2, <2>1, <2>2
<1>4. KeyTypes'
  <2>1. /\ keys' \in {AdmitKeys(d) : d \in Answers}
        /\ FileMode' => keys' = AdmitKeys(digest')
    BY <1>1, <1>2
  <2>2. published' \in Docs /\ req' \in [Reqs -> ReqState]
    BY <1>1, <1>2
  <2> QED
    BY <1>1, <2>1, <2>2 DEF KeyTypes
<1>5. ASSUME NEW x \in Reqs PROVE ReqSound(x)'
  <2>0. ReqSound(x)
    BY DEF InboundInv
  <2>1. ReqSound(x) /\ Follows(mid[x], req'[x]) /\ mid[x] \in ReqState
    BY <1>2, <2>0
  <2>2. CASE mid[x].pc = "done" /\ mid[x].why = "unavailable" /\ ~mid[x].fresh
    BY <1>2, <2>1, <2>2 DEF ReqSound, SeenKeys, InHand, Waits, Follows
  <2>3. CASE mid[x] = req[x] /\ x # w
    <3>1. /\ req'[x].pc = req[x].pc /\ req'[x].tok = req[x].tok /\ req'[x].mat = req[x].mat
          /\ req'[x].why = req[x].why
          /\ req[x].vouched => req'[x].vouched
          /\ req[x].lacked => req'[x].lacked
      BY <2>1, <2>3 DEF Follows
    <3>2. req[x].pc \notin Waits
      BY <2>1, <2>3 DEF ReqSound
    <3>3. InHand(x)'
      BY <1>2, <2>1, <2>3, <3>1 DEF ReqSound, InHand
    <3>4. SeenKeys(x)'
      <4>1. \A ks : Seen(x, ks) => Seen(x, ks)'
        BY <3>1, SeenGrows
      <4>2. FileMode /\ req[x].pc # "done" => Seen(x, AdmitKeys(published))'
        BY <2>1, <4>1 DEF ReqSound, SeenKeys, Seen
      <4>3. CASE keys' = keys
        BY <1>1, <2>1, <3>1, <4>1, <4>2, <4>3 DEF ReqSound, SeenKeys, Seen
      <4>4. CASE /\ keys' = AdmitKeys(gate.answer)
                 /\ mid[x].pc # "done" /\ ~(FileMode /\ gate.answer # Failed) =>
                      /\ KeyOf(keys', mid[x].tok) = TokenOf[mid[x].tok].mat => req'[x].vouched
                      /\ KeyOf(keys', mid[x].tok) = None => req'[x].lacked
        <5>1. CASE req[x].pc # "done" /\ ~(FileMode /\ gate.answer # Failed)
          BY <1>1, <2>3, <3>1, <4>2, <4>4, <5>1 DEF SeenKeys, Seen
        <5>2. CASE FileMode /\ gate.answer # Failed /\ req[x].pc \notin {"done", "load"}
          BY <1>1, <2>1, <3>1, <4>1, <4>2, <4>4, <5>2 DEF ReqSound, SeenKeys, Seen
        <5>3. CASE FileMode /\ gate.answer # Failed /\ req[x].pc = "load"
          BY <1>1, <3>1, <4>2, <5>3 DEF SeenKeys
        <5>4. CASE req[x].pc = "done"
          BY <3>1, <5>4 DEF SeenKeys
        <5> QED
          BY <5>1, <5>2, <5>3, <5>4
      <4> QED
        BY <1>2, <4>3, <4>4
    <3> QED
      BY <2>1, <3>1, <3>2, <3>3, <3>4 DEF ReqSound
  <2>4. CASE /\ x = w /\ mid[x].tok = req[x].tok /\ mid[x].mat = req[x].mat /\ mid[x].why = req[x].why
             /\ mid[x].fresh = req[x].fresh
             /\ mid[x].vouched = req[x].vouched /\ mid[x].lacked = req[x].lacked
             /\ mid[x].pc \in {"lookup", "snapshot", "resnapshot"} /\ req[x].pc \in Waits
             /\ req[x].pc = "loading" => gate.answer # Failed
    <3>1. /\ req'[x].pc \in {"lookup", "snapshot", "resnapshot"} /\ req'[x].tok = req[x].tok
          /\ req'[x].mat = req[x].mat /\ req'[x].why = req[x].why
          /\ req[x].vouched => req'[x].vouched
          /\ req[x].lacked => req'[x].lacked
      BY <2>1, <2>4 DEF Follows
    <3>2. InHand(x)'
      BY <1>2, <2>1, <2>4, <3>1 DEF ReqSound, InHand
    <3>3. \A ks : Seen(x, ks) => Seen(x, ks)'
      BY <3>1, SeenGrows
    <3>4. req[x].pc \notin {"done", "load"} /\ (req[x].pc # "loading" => req[x].pc \notin {"done", "load", "loading"})
      BY <2>4 DEF Waits
    <3>5. FileMode => Seen(x, AdmitKeys(published))'
      BY <2>1, <3>3, <3>4 DEF ReqSound, SeenKeys, Seen
    <3>6. FileMode /\ gate.answer # Failed => Seen(x, AdmitKeys(gate.answer))
      BY <1>1, <2>1, <3>4 DEF ReqSound, SeenKeys
    <3>7. (FileMode /\ req[x].pc # "loading") \/ ~FileMode => Seen(x, keys)
      BY <2>1, <3>4 DEF ReqSound, SeenKeys
    <3>8. Seen(x, keys)'
      <4>1. CASE keys' = keys /\ (FileMode => gate.answer = digest)
        <5>1. Seen(x, keys)
          BY <1>1, <2>4, <3>6, <3>7, <4>1
        <5> QED
          BY <3>3, <4>1, <5>1 DEF Seen
      <4>2. CASE /\ keys' = AdmitKeys(gate.answer)
                 /\ mid[x].pc # "done" /\ ~(FileMode /\ gate.answer # Failed) =>
                      /\ KeyOf(keys', mid[x].tok) = TokenOf[mid[x].tok].mat => req'[x].vouched
                      /\ KeyOf(keys', mid[x].tok) = None => req'[x].lacked
        <5>1. CASE ~(FileMode /\ gate.answer # Failed)
          BY <2>4, <3>1, <4>2, <5>1 DEF Seen
        <5>2. CASE FileMode /\ gate.answer # Failed
          BY <3>1, <3>6, <4>2, <5>2 DEF Seen
        <5> QED
          BY <5>1, <5>2
      <4> QED
        BY <1>2, <4>1, <4>2
    <3>9. SeenKeys(x)'
      BY <1>1, <3>5, <3>8 DEF SeenKeys
    <3>10. req[x].tok \in Tokens
      BY <2>1, <3>4 DEF ReqSound
    <3> QED
      BY <3>1, <3>2, <3>9, <3>10 DEF ReqSound, Waits
  <2> QED
    BY <2>2, <2>3, <2>4 DEF HandedOn
<1> QED
  BY <1>3, <1>4, <1>5 DEF InboundInv

(* The holder of the gate is the request that waits for the answer. *)
LEMMA Holds ==
  ASSUME InboundInv, NEW r \in Reqs, req[r].pc \in Waits
  PROVE  gate.by = r /\ refresher # "busy"
<1>1. gate.by = r
  BY DEF InboundInv, ReqSound
<1> QED
  BY <1>1, NobodyAsks DEF InboundInv, KeyTypes

LEMMA HandsOn ==
  ASSUME InboundInv, NEW r \in Reqs, req[r].pc \in Waits,
         NEW label \in {"lookup", "snapshot", "resnapshot"},
         req[r].pc = "loading" => gate.answer # Failed
  PROVE  Goto(r, label) \in [Reqs -> ReqState] /\ HandedOn(r, Goto(r, label))
<1>1. PICK new : new = [req[r] EXCEPT !.pc = label]
  OBVIOUS
<1>2. PICK mid : mid = Goto(r, label)
  OBVIOUS
<1>3. /\ new \in ReqState /\ mid = [req EXCEPT ![r] = new]
      /\ new.pc = label /\ new.tok = req[r].tok /\ new.mat = req[r].mat /\ new.fresh = req[r].fresh
      /\ new.why = req[r].why /\ new.vouched = req[r].vouched /\ new.lacked = req[r].lacked
  BY <1>1, <1>2, GotoState DEF Labels
<1>4. /\ mid \in [Reqs -> ReqState] /\ mid[r] = new
      /\ \A x \in Reqs : x # r => mid[x] = req[x]
  BY <1>3, ReqTyped
<1> QED
  BY <1>2, <1>3, <1>4 DEF HandedOn

LEMMA GivesUp ==
  ASSUME InboundInv, NEW r \in Reqs
  PROVE  /\ Over(req, r, "unavailable") \in [Reqs -> ReqState]
         /\ HandedOn(r, Over(req, r, "unavailable"))
<1>1. PICK new \in ReqState :
        /\ Over(req, r, "unavailable") = [req EXCEPT ![r] = new]
        /\ new.pc = "done" /\ new.why = "unavailable" /\ new.fresh = FALSE /\ new.mat = None
        /\ new.tok = req[r].tok /\ new.vouched = req[r].vouched /\ new.lacked = req[r].lacked
  BY OverState DEF Ends
<1>2. PICK mid : mid = [req EXCEPT ![r] = new] /\ mid = Over(req, r, "unavailable")
  BY <1>1
<1>3. /\ mid \in [Reqs -> ReqState] /\ mid[r] = new
      /\ \A x \in Reqs : x # r => mid[x] = req[x]
  BY <1>2, ReqTyped
<1> QED
  BY <1>1, <1>2, <1>3 DEF HandedOn

LEMMA StepApplies ==
  ASSUME InboundInv, NEW r \in Reqs, Loaded(r) \/ Firsted(r) \/ Refetched(r)
  PROVE  InboundInv'
<1>1. req[r].pc \in Waits /\ Free /\ UNCHANGED <<settings, published, refresher>>
  BY DEF Loaded, Firsted, Refetched, Waits
<1>2. gate.by = r /\ refresher' # "busy"
  BY <1>1, Holds
<1>3. \/ gate.answer = Failed /\ Apply(Over(req, r, "unavailable"))
      \/ /\ req[r].pc = "loading" => gate.answer # Failed
         /\ \E label \in {"lookup", "snapshot", "resnapshot"} : Apply(Goto(r, label))
  BY DEF Loaded, Firsted, Refetched
<1>4. CASE Apply(Over(req, r, "unavailable"))
  BY <1>1, <1>2, <1>4, GivesUp, ApplyHolds
<1>5. CASE /\ req[r].pc = "loading" => gate.answer # Failed
           /\ \E label \in {"lookup", "snapshot", "resnapshot"} : Apply(Goto(r, label))
  <2>1. PICK label \in {"lookup", "snapshot", "resnapshot"} : Apply(Goto(r, label))
    BY <1>5
  <2>2. Goto(r, label) \in [Reqs -> ReqState] /\ HandedOn(r, Goto(r, label))
    BY <1>1, <1>5, HandsOn
  <2> QED
    BY <1>1, <1>2, <2>1, <2>2, ApplyHolds
<1> QED
  BY <1>3, <1>4, <1>5

LEMMA StepRefreshed ==
  ASSUME InboundInv, Refreshed
  PROVE  InboundInv'
<1>1. gate.by = Refresher /\ req \in [Reqs -> ReqState]
  BY DEF InboundInv, KeyTypes, Refreshed
<1>2. HandedOn(Refresher, req)
  BY NobodyAsks DEF HandedOn
<1> QED
  BY <1>1, <1>2, ApplyHolds DEF Refreshed

-----------------------------------------------------------------------------
(* The refresher, and the world outside. *)

(* No request moves. *)
LEMMA NoneMoves ==
  ASSUME InboundInv, UNCHANGED <<settings, published, keys, digest, req>>, CacheSound',
         gate' \in [by : Reqs \cup {Nobody, Refresher}, answer : Answers],
         \/ gate' = gate
         \/ gate.by = Nobody /\ gate'.answer \in {Failed, published},
         refresher' = "busy" => gate'.by = Refresher
  PROVE  InboundInv'
<1>1. \A q \in Reqs : ReqSound(q)'
  BY OtherStays
<1>2. KeyTypes'
  BY DEF InboundInv, KeyTypes, FileMode
<1> QED
  BY <1>1, <1>2 DEF InboundInv

LEMMA StepRefresh ==
  ASSUME InboundInv, Refresh
  PROVE  InboundInv'
<1>1. /\ gate.by = Nobody /\ gate'.by = Refresher /\ gate'.answer \in {Failed, published}
      /\ gate' \in [by : Reqs \cup {Nobody, Refresher}, answer : Answers]
  BY DEF Refresh, Fetch, InboundInv, KeyTypes, Answers
<1>2. CacheSound'
  BY CacheStays DEF Refresh
<1> QED
  BY <1>1, <1>2, NoneMoves DEF Refresh

LEMMA StepExpire ==
  ASSUME InboundInv, NEW t \in Tokens, Expire(t)
  PROVE  InboundInv'
<1> DEFINE new == [validated[t] EXCEPT !.expired = TRUE]
<1>1. validated \in [Tokens -> [mat : Mats, expired : BOOLEAN]] /\ CacheSound
  BY DEF InboundInv, CacheSound
<1>2. validated[t] \in [mat : Mats, expired : BOOLEAN]
  BY <1>1
<1>3. new \in [mat : Mats, expired : BOOLEAN] /\ new.mat = validated[t].mat
  BY <1>2
<1>4. validated' = [validated EXCEPT ![t] = new]
  BY <1>1, <1>2 DEF Expire
<1> HIDE DEF new
<1>5. validated[t] # NoEntry /\ keys' = keys
  BY DEF Expire
<1>6. CacheSound'
  BY <1>1, <1>3, <1>4, <1>5 DEF CacheSound
<1>7. /\ UNCHANGED <<settings, published, keys, digest, req, gate, refresher>>
      /\ gate \in [by : Reqs \cup {Nobody, Refresher}, answer : Answers]
      /\ refresher = "busy" => gate.by = Refresher
  BY DEF Expire, InboundInv, KeyTypes
<1> QED
  BY <1>6, <1>7, NoneMoves

LEMMA StepTime ==
  ASSUME InboundInv, CoolDown \/ (\E f \in Lists : HandEdit(f)) \/ \E c \in Commands : Revoke(c)
  PROVE  InboundInv'
<1>1. /\ UNCHANGED <<settings, published, keys, digest, req, gate, refresher>>
      /\ validated' \in {validated, [t \in Tokens |-> NoEntry]}
  BY DEF CoolDown, HandEdit, Revoke, WatchList
<1>2. /\ gate \in [by : Reqs \cup {Nobody, Refresher}, answer : Answers]
      /\ refresher = "busy" => gate.by = Refresher
  BY DEF InboundInv, KeyTypes
<1>3. CASE validated' = validated
  BY <1>1, <1>2, <1>3, CacheStays, NoneMoves
<1>4. CASE validated' = [t \in Tokens |-> NoEntry]
  <2>1. NoEntry \in [mat : Mats, expired : BOOLEAN]
    BY DEF NoEntry, Mats
  <2>2. CacheSound'
    BY <1>4, <2>1 DEF CacheSound
  <2> QED
    BY <1>1, <1>2, <2>2, NoneMoves
<1> QED
  BY <1>1, <1>3, <1>4

LEMMA StepPublish ==
  ASSUME InboundInv, NEW d \in Docs, Publish(d)
  PROVE  InboundInv'
<1>1. /\ UNCHANGED <<settings, keys, digest, gate, refresher, validated>>
      /\ published' = d /\ FileMode' = FileMode
      /\ FileMode => req' = Seeing(req, AdmitKeys(d))
      /\ ~FileMode => req' = req
  BY DEF Publish, FileMode
<1>2. req \in [Reqs -> ReqState]
  BY DEF InboundInv, KeyTypes
<1>3. ASSUME NEW x \in Reqs
      PROVE  /\ req'[x] \in ReqState /\ Follows(req[x], req'[x])
             /\ req'[x].fresh = req[x].fresh
             /\ FileMode /\ req[x].pc # "done" =>
                  /\ KeyOf(AdmitKeys(d), req[x].tok) = TokenOf[req[x].tok].mat => req'[x].vouched
                  /\ KeyOf(AdmitKeys(d), req[x].tok) = None => req'[x].lacked
  <2>1. CASE FileMode
    <3>1. req[x] \in ReqState
      BY <1>2
    <3>2. Seeing(req, AdmitKeys(d))[x].fresh = req[x].fresh
      BY <3>1 DEF Seeing, ReqState
    <3> QED
      BY <1>1, <1>2, <2>1, <3>2, SeeingState
  <2>2. CASE ~FileMode
    BY <1>1, <1>2, <2>2 DEF Follows
  <2> QED
    BY <2>1, <2>2
<1>4. req' \in [Reqs -> ReqState]
  <2>1. FileMode => req' = [x \in Reqs |-> req'[x]]
    BY <1>1 DEF Seeing
  <2> QED
    BY <1>1, <1>2, <1>3, <2>1
<1>5. KeyTypes'
  BY <1>1, <1>4 DEF InboundInv, KeyTypes
<1>6. CacheSound'
  BY <1>1, CacheStays
<1>7. ASSUME NEW x \in Reqs PROVE ReqSound(x)'
  <2>1. ReqSound(x)
    BY DEF InboundInv
  <2>2. /\ req'[x].pc = req[x].pc /\ req'[x].tok = req[x].tok /\ req'[x].mat = req[x].mat
        /\ req'[x].why = req[x].why /\ req'[x].fresh = req[x].fresh
        /\ req[x].vouched => req'[x].vouched
        /\ req[x].lacked => req'[x].lacked
    BY <1>3 DEF Follows
  <2>3. \A ks : Seen(x, ks) => Seen(x, ks)'
    BY <2>2, SeenGrows
  <2>4. FileMode /\ req[x].pc # "done" => Seen(x, AdmitKeys(published))'
    BY <1>1, <1>3, <2>2 DEF Seen
  <2>5. SeenKeys(x)'
    BY <1>1, <2>1, <2>2, <2>3, <2>4 DEF ReqSound, SeenKeys, Seen
  <2>6. InHand(x)'
    BY <1>1, <2>1, <2>2 DEF ReqSound, InHand
  <2> QED
    BY <1>1, <2>1, <2>2, <2>5, <2>6 DEF ReqSound
<1> QED
  BY <1>5, <1>6, <1>7 DEF InboundInv

-----------------------------------------------------------------------------
LEMMA InboundInitial == Init => InboundInv
<1> SUFFICES ASSUME Init PROVE InboundInv
  OBVIOUS
<1>1. /\ Resting \in ReqState /\ Resting.pc = "done" /\ Resting.why = None /\ ~Resting.fresh
      /\ NoEntry \in [mat : Mats, expired : BOOLEAN]
  BY DEF Resting, ReqState, NoEntry, Mats, Labels, Ends
<1>2. KeyTypes
  BY <1>1 DEF Init, KeyTypes, Answers
<1>3. CacheSound
  BY <1>1 DEF Init, CacheSound
<1>4. ASSUME NEW r \in Reqs PROVE ReqSound(r)
  <2>1. req[r] = Resting
    BY DEF Init
  <2> QED
    BY <1>1, <2>1 DEF ReqSound, SeenKeys, InHand, Waits, None
<1> QED
  BY <1>2, <1>3, <1>4 DEF InboundInv

LEMMA InboundStep == InboundInv /\ [Next]_vars => InboundInv'
<1> SUFFICES ASSUME InboundInv, [Next]_vars PROVE InboundInv'
  OBVIOUS
<1>1. CASE UNCHANGED vars
  <2>1. CacheSound'
    BY <1>1, CacheStays DEF vars
  <2>2. /\ gate \in [by : Reqs \cup {Nobody, Refresher}, answer : Answers]
        /\ refresher = "busy" => gate.by = Refresher
    BY DEF InboundInv, KeyTypes
  <2> QED
    BY <1>1, <2>1, <2>2, NoneMoves DEF vars
<1>2. ASSUME NEW r \in Reqs, Request(r) PROVE InboundInv'
  BY <1>2, StepBegin, StepLookup, StepSnapshot, StepResnapshot, StepVerify, StepBearer,
     StepTakesGate, StepApplies, StepCancel DEF Request
<1>3. CASE Refresh \/ Refreshed
  BY <1>3, StepRefresh, StepRefreshed
<1>4. ASSUME NEW d \in Docs, Publish(d) PROVE InboundInv'
  BY <1>4, StepPublish
<1>5. ASSUME NEW t \in Tokens, Expire(t) PROVE InboundInv'
  BY <1>5, StepExpire
<1>6. CASE CoolDown \/ (\E f \in Lists : HandEdit(f)) \/ \E c \in Commands : Revoke(c)
  BY <1>6, StepTime
<1> QED
  BY <1>1, <1>2, <1>3, <1>4, <1>5, <1>6 DEF Next

(* Authentication follows the keys (auth/oidc.rs: install_keys, remember,   *)
(* refetch_for_unknown_kid, load_file): no cached validation outlives its   *)
(* key, and a request is let through, or refused for an unknown key, only   *)
(* on keys that were in force while it ran, however requests, refreshes,    *)
(* rotations and lost connections interleave.                               *)
THEOREM KeysDecide == Spec => []LiveKeysOnly
<1>1. InboundInv => LiveKeysOnly
  BY DEF InboundInv, CacheSound, ReqSound, InHand, LiveKeysOnly, CacheFollowsKeys,
         DecidedByLiveKeys
<1> QED
  BY <1>1, InboundInitial, InboundStep, PTL DEF Spec
=============================================================================
