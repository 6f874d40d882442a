----------------------------- MODULE LoopProofs -----------------------------
(***************************************************************************)
(* Proofs about the parts that work beside the requests.  Sessions: for any *)
(* number of ids, users, requests and list changes, and every interleaving *)
(* of the requests, the reaper, the sweeps and the admin replacement.      *)
(* Shipper: for any log, batch size and line lengths, over crashes and     *)
(* failures.                                                               *)
(***************************************************************************)
EXTENDS Sessions, Shipper, FiniteSetTheorems, SequenceTheorems, TLAPS

-----------------------------------------------------------------------------
(* The inductive invariant.                                                *)

Steps == {"new", "create", "bump_created", "initialize", "bump_init", "bind", "owner", "has",
          "bump_has", "op", "bump_op", "close", "forget", "done"}

MapTypes ==
  /\ live \subseteq Ids /\ idle \subseteq Ids
  /\ owner \in [Ids -> Users \cup {Nobody, NoEntry}]
  /\ req \in [Requests -> [pc : Steps, kind : {"init", "use", "delete"},
                           user : Users \cup {Nobody}, id : Ids \cup {NoEntry}]]
  /\ creator \in [Ids -> Users \cup {NoEntry}]
  /\ used \in [Ids -> SUBSET Users]

Created(i) == i \in Ids /\ creator[i] # NoEntry

\* The owner check lets through nobody else, because only the creator is ever bound.
OwnedByCreator ==
  \A i \in Ids : owner[i] \in {creator[i], Nobody, NoEntry}

\* Where a request has been let through to its session, or is creating it.
Admitted == {"bump_created", "initialize", "bump_init", "bind", "has", "bump_has", "op", "bump_op"}

RequestSound(r) ==
  /\ req[r].pc # "new" => req[r].user \in Users
  /\ req[r].pc \in Admitted \cup {"owner", "close", "forget"} => Created(req[r].id)
  /\ req[r].pc \in Admitted => creator[req[r].id] = req[r].user
  /\ req[r].pc = "forget" => req[r].id \notin live

\* A sweep is given users and lists their sessions; a task's rows are sessions that were
\* created, and the one it has closed is not live.
TaskSound(t) ==
  /\ IF t.pc = "list" THEN t.left \subseteq Users ELSE \A i \in t.left : Created(i)
  /\ t.pc = "forget" => Created(t.id) /\ t.id \notin live

TaskSteps == {"sleep", "list", "next", "forget", "done"}

TasksSound ==
  /\ TaskSound(reaper) /\ TaskSound(admin)
  /\ \A n \in 1..MaxChanges : TaskSound(sweep[n])

TaskTypes ==
  LET Task == [pc : TaskSteps, left : SUBSET (Ids \cup Users), id : Ids \cup {NoEntry},
               all : SUBSET Ids]
  IN  /\ reaper \in Task /\ admin \in Task /\ sweep \in [1..MaxChanges -> Task]
      /\ changes \in Nat

\* rmcp hands out no id twice.
ExistsCreated ==
  /\ \A i \in live : Created(i)
  /\ \A i \in Ids : owner[i] # NoEntry \/ i \in idle => Created(i)

SInv ==
  /\ MapTypes /\ TaskTypes
  /\ OwnedByCreator /\ ExistsCreated
  /\ \A r \in Requests : RequestSound(r)
  /\ TasksSound
  /\ OnlyOwnerUses /\ LiveIsListed

-----------------------------------------------------------------------------
(* What a step leaves alone keeps its part of the invariant.               *)

LEMMA MapsFrame ==
  ASSUME SInv, UNCHANGED <<maps, creator, used>>
  PROVE  OwnedByCreator' /\ ExistsCreated' /\ OnlyOwnerUses'
BY DEF SInv, maps, OwnedByCreator, ExistsCreated, OnlyOwnerUses, Created

LEMMA TasksFrame ==
  ASSUME SInv, UNCHANGED tasks, UNCHANGED creator, live' \subseteq live
  PROVE  TaskTypes' /\ TasksSound'
BY DEF SInv, tasks, TaskTypes, TaskSteps, TasksSound, TaskSound, Created

LEMMA RequestFrame ==
  ASSUME SInv, UNCHANGED creator, live' \subseteq live,
         NEW q \in Requests, req'[q] = req[q]
  PROVE  RequestSound(q)'
BY DEF SInv, RequestSound, Created

LEMMA ListedFrame ==
  ASSUME SInv, live' \subseteq live, orphaned \subseteq orphaned',
         \A i \in Ids : owner[i] # NoEntry => owner'[i] # NoEntry,
         \A q \in Requests : At(q, "bump_created") => req'[q] = req[q]
  PROVE  LiveIsListed'
BY DEF SInv, MapTypes, LiveIsListed, Entries, At

(* A step that only moves one request from where it is not creating.       *)
LEMMA RequestMoves ==
  ASSUME SInv, NEW r \in Requests, ~At(r, "bump_created"),
         UNCHANGED <<maps, tasks, creator, used, orphaned>>,
         MapTypes', RequestSound(r)',
         \A q \in Requests : q # r => req'[q] = req[q]
  PROVE  SInv'
<1>1. OwnedByCreator' /\ ExistsCreated' /\ OnlyOwnerUses'
  BY MapsFrame
<1>2. live' \subseteq live /\ creator' = creator /\ owner' = owner /\ orphaned' = orphaned
  BY DEF maps
<1>3. TaskTypes' /\ TasksSound'
  BY <1>2, TasksFrame
<1>4. \A q \in Requests : RequestSound(q)'
  BY <1>2, RequestFrame
<1>5. LiveIsListed'
  BY <1>2, ListedFrame DEF At
<1> QED
  BY <1>1, <1>3, <1>4, <1>5 DEF SInv

(* A step of a task that only lists or ends.                               *)
LEMMA TaskMoves ==
  ASSUME SInv, UNCHANGED <<maps, req, history>>, TaskTypes', TasksSound'
  PROVE  SInv'
<1>1. OwnedByCreator' /\ ExistsCreated' /\ OnlyOwnerUses'
  BY MapsFrame DEF history
<1>2. MapTypes'
  BY DEF SInv, MapTypes, maps, history
<1>3. \A q \in Requests : RequestSound(q)'
  BY RequestFrame DEF maps, history
<1>4. LiveIsListed'
  BY ListedFrame DEF maps, history
<1> QED
  BY <1>1, <1>2, <1>3, <1>4 DEF SInv

(* Closing a session: one fewer is live.                                   *)
LEMMA CloseKeeps ==
  ASSUME SInv, NEW i \in Ids, live' = live \ {i}, UNCHANGED <<owner, idle, history>>
  PROVE  /\ OwnedByCreator' /\ ExistsCreated' /\ OnlyOwnerUses'
         /\ (\A q \in Requests : At(q, "bump_created") => req'[q] = req[q]) => LiveIsListed'
<1>1. live' \subseteq live /\ orphaned' = orphaned /\ owner' = owner /\ creator' = creator
  BY DEF history
<1>2. OwnedByCreator' /\ ExistsCreated' /\ OnlyOwnerUses'
  BY <1>1 DEF SInv, OwnedByCreator, ExistsCreated, OnlyOwnerUses, Created, history
<1> QED
  BY <1>1, <1>2, ListedFrame

(* Forgetting an entry whose session is not live.                          *)
LEMMA ForgetKeeps ==
  ASSUME SInv, NEW i \in Ids, i \notin live, Forget(i), UNCHANGED <<live, history>>
  PROVE  /\ OwnedByCreator' /\ ExistsCreated' /\ OnlyOwnerUses'
         /\ owner' \in [Ids -> Users \cup {Nobody, NoEntry}] /\ idle' \subseteq Ids
         /\ (\A q \in Requests : At(q, "bump_created") => req'[q] = req[q]) => LiveIsListed'
<1> USE DEF SInv, MapTypes, Forget, history
<1>1. OwnedByCreator' /\ ExistsCreated' /\ OnlyOwnerUses'
  BY DEF OwnedByCreator, ExistsCreated, OnlyOwnerUses, Created
<1>2. owner' \in [Ids -> Users \cup {Nobody, NoEntry}] /\ idle' \subseteq Ids
  OBVIOUS
<1>3. ASSUME \A q \in Requests : At(q, "bump_created") => req'[q] = req[q]
      PROVE  LiveIsListed'
  BY <1>3 DEF LiveIsListed, Entries, At
<1> QED
  BY <1>1, <1>2, <1>3

-----------------------------------------------------------------------------
LEMMA Initial == Init => SInv
<1> SUFFICES ASSUME Init PROVE SInv
  OBVIOUS
<1> USE DEF Init, Fresh, Asleep
<1>1. MapTypes
  BY DEF MapTypes, Steps
<1>2. TaskTypes
  BY DEF TaskTypes, TaskSteps
<1>3. OwnedByCreator /\ ExistsCreated
  BY SessionConstants DEF OwnedByCreator, ExistsCreated, Created
<1>4. \A r \in Requests : RequestSound(r)
  BY DEF RequestSound, Admitted
<1>5. TasksSound
  BY DEF TasksSound, TaskSound
<1>6. OnlyOwnerUses /\ LiveIsListed
  BY DEF OnlyOwnerUses, LiveIsListed
<1> QED
  BY <1>1, <1>2, <1>3, <1>4, <1>5, <1>6 DEF SInv

-----------------------------------------------------------------------------
(* The requests.                                                           *)

LEMMA StepBeginInit ==
  ASSUME SInv, NEW r \in Requests, NEW u \in Users, BeginInit(r, u)
  PROVE  SInv'
<1> USE DEF BeginInit, At, history
<1>1. MapTypes'
  BY DEF SInv, MapTypes, Steps, maps
<1>2. RequestSound(r)'
  BY <1>1 DEF SInv, MapTypes, RequestSound, Admitted
<1>3. \A q \in Requests : q # r => req'[q] = req[q]
  BY DEF SInv, MapTypes
<1> QED
  BY <1>1, <1>2, <1>3, RequestMoves

LEMMA StepBeginUse ==
  ASSUME SInv, NEW r \in Requests, NEW u \in Users, NEW i \in Ids,
         NEW kind \in {"use", "delete"}, BeginUse(r, u, i, kind)
  PROVE  SInv'
<1> USE DEF BeginUse, At, history
<1>1. MapTypes'
  BY DEF SInv, MapTypes, Steps, maps
<1>2. RequestSound(r)'
  BY <1>1 DEF SInv, MapTypes, RequestSound, Admitted, Created
<1>3. \A q \in Requests : q # r => req'[q] = req[q]
  BY DEF SInv, MapTypes
<1> QED
  BY <1>1, <1>2, <1>3, RequestMoves

LEMMA StepCreateInner ==
  ASSUME SInv, NEW r \in Requests, NEW i \in Ids, CreateInner(r, i)
  PROVE  SInv'
<1>1. req[r].user \in Users /\ req[r].pc = "create" /\ ~Created(i)
  BY DEF SInv, MapTypes, RequestSound, Created, CreateInner, At
<1>2. /\ creator' = [creator EXCEPT ![i] = req[r].user] /\ creator'[i] # NoEntry
      /\ \A j : Created(j) => Created(j)' /\ j # i /\ creator'[j] = creator[j]
  BY <1>1, SessionConstants DEF SInv, MapTypes, Created, CreateInner
<1>3. MapTypes'
  <2> DEFINE new == [req[r] EXCEPT !.pc = "bump_created", !.id = i]
             Request == [pc : Steps, kind : {"init", "use", "delete"},
                         user : Users \cup {Nobody}, id : Ids \cup {NoEntry}]
  <2>1. req \in [Requests -> Request] /\ req[r] \in Request
    BY DEF SInv, MapTypes
  <2>2. new \in Request
    BY <2>1 DEF Steps
  <2>3. req' = [req EXCEPT ![r] = new]
    BY <2>1 DEF CreateInner
  <2>4. req' \in [Requests -> Request]
    BY <2>1, <2>2, <2>3
  <2>5. live' = live \cup {i} /\ idle' = idle /\ owner' = owner /\ used' = used
    BY <2>1 DEF CreateInner
  <2>6. creator' \in [Ids -> Users \cup {NoEntry}]
    BY <1>1, <1>2 DEF SInv, MapTypes
  <2> QED
    BY <2>4, <2>5, <2>6 DEF SInv, MapTypes
<1>4. /\ reaper' = reaper /\ admin' = admin /\ sweep' = sweep /\ live' = live \cup {i}
      /\ changes' = changes
      /\ owner' = owner /\ orphaned' = orphaned /\ idle' = idle /\ used' = used
  BY DEF CreateInner, tasks, SInv, MapTypes
<1>5. /\ req'[r] = [req[r] EXCEPT !.pc = "bump_created", !.id = i]
      /\ \A q \in Requests : q # r => req'[q] = req[q]
  BY DEF CreateInner, SInv, MapTypes
<1>6. TaskTypes' /\ TasksSound'
  <2>1. TaskTypes'
    BY <1>4 DEF SInv, TaskTypes
  <2>2. TaskSound(reaper)'
    BY <1>2, <1>4 DEF SInv, TasksSound, TaskSound
  <2>3. TaskSound(admin)'
    BY <1>2, <1>4 DEF SInv, TasksSound, TaskSound
  <2>4. ASSUME NEW n \in 1..MaxChanges PROVE TaskSound(sweep[n])'
    BY <1>2, <1>4 DEF SInv, TasksSound, TaskSound
  <2> QED
    BY <2>1, <2>2, <2>3, <2>4 DEF TasksSound
<1>7. OwnedByCreator' /\ ExistsCreated' /\ OnlyOwnerUses'
  <2>1. owner[i] = NoEntry \/ owner[i] = Nobody
    BY <1>1 DEF SInv, OwnedByCreator, Created
  <2>2. used[i] = {}
    BY <1>1, SessionConstants DEF SInv, MapTypes, OnlyOwnerUses, Created
  <2> QED
    BY <1>2, <1>4, <2>1, <2>2 DEF SInv, MapTypes, OwnedByCreator, ExistsCreated, OnlyOwnerUses,
                                  Created
<1>8. ASSUME NEW q \in Requests PROVE RequestSound(q)'
  <2>1. CASE q = r
    <3>1. /\ req'[r].pc = "bump_created" /\ req'[r].id = i /\ req'[r].user = req[r].user
          /\ creator'[i] = req[r].user
      BY <1>2, <1>5 DEF SInv, MapTypes
    <3> QED
      BY <1>1, <1>2, <2>1, <3>1 DEF RequestSound, Created
  <2>2. CASE q # r
    <3>1. req'[q] = req[q] /\ RequestSound(q)
      BY <1>5, <2>2 DEF SInv
    <3> QED
      BY <1>2, <1>4, <3>1 DEF RequestSound, Admitted
  <2> QED
    BY <2>1, <2>2
<1>9. LiveIsListed'
  <2>1. req'[r].pc = "bump_created" /\ req'[r].id = i
    BY <1>5 DEF SInv, MapTypes
  <2>2. ASSUME NEW j \in live
        PROVE  \/ j \in Entries' \cup orphaned'
               \/ \E q \in Requests : req'[q].pc = "bump_created" /\ req'[q].id = j
    BY <1>1, <1>4, <1>5 DEF SInv, LiveIsListed, Entries, At
  <2> QED
    BY <1>4, <2>1, <2>2 DEF LiveIsListed, At
<1> QED
  BY <1>3, <1>6, <1>7, <1>8, <1>9 DEF SInv

(* A bump enters an unknown id unbound, whoever's it is, and never changes an owner. *)
LEMMA StepBumped ==
  ASSUME SInv, NEW r \in Requests, NEW from \in Admitted, NEW to \in Admitted \cup {"done"},
         to # "bump_created", Bumped(r, from, to)
  PROVE  SInv'
<1> DEFINE s == req[r].id
<1>1. /\ req[r].pc = from /\ s \in Ids /\ Created(s) /\ creator[s] = req[r].user
      /\ req[r].user \in Users /\ from # "new"
  BY DEF SInv, RequestSound, Bumped, At, Created, Admitted
<1>2. /\ owner' = [owner EXCEPT ![s] = IF @ = NoEntry THEN Nobody ELSE @]
      /\ idle' = idle \ {s} /\ req' = [req EXCEPT ![r].pc = to]
      /\ live' = live /\ UNCHANGED <<tasks, creator, used, orphaned>>
  BY DEF Bumped, Bump, Goto, history
<1>3. MapTypes'
  BY <1>1, <1>2 DEF SInv, MapTypes, Steps, Admitted
<1>4. /\ req'[r] = [req[r] EXCEPT !.pc = to]
      /\ \A q \in Requests : q # r => req'[q] = req[q]
  BY <1>2 DEF SInv, MapTypes
<1>5. TaskTypes' /\ TasksSound'
  BY <1>2, TasksFrame
<1>6. OwnedByCreator' /\ ExistsCreated' /\ OnlyOwnerUses'
  BY <1>1, <1>2, SessionConstants DEF SInv, MapTypes, OwnedByCreator, ExistsCreated, OnlyOwnerUses, Created
<1>7. ASSUME NEW q \in Requests PROVE RequestSound(q)'
  <2>1. CASE q = r
    BY <1>1, <1>2, <1>4, <2>1 DEF SInv, MapTypes, RequestSound, Admitted, Created
  <2>2. CASE q # r
    BY <1>2, <1>4, <2>2, RequestFrame
  <2> QED
    BY <2>1, <2>2
<1>8. LiveIsListed'
  <2>1. s \in Entries'
    BY <1>1, <1>2, SessionConstants DEF SInv, MapTypes, Entries
  <2>2. Entries \subseteq Entries'
    BY <1>1, <1>2 DEF SInv, MapTypes, Entries
  <2>3. live' = live /\ orphaned' = orphaned
    BY <1>2
  <2> QED
    BY <1>4, <2>1, <2>2, <2>3 DEF SInv, LiveIsListed, At
<1> QED
  BY <1>3, <1>5, <1>6, <1>7, <1>8 DEF SInv

(* Only the creator's requests get to where rmcp is asked. *)
LEMMA StepInner ==
  ASSUME SInv, NEW r \in Requests, NEW from \in Admitted, from # "bump_created",
         NEW to \in Admitted, Inner(r, from, to)
  PROVE  SInv'
<1> DEFINE s == req[r].id
<1>1. /\ req[r].pc = from /\ s \in Ids /\ Created(s) /\ creator[s] = req[r].user
      /\ req[r].user \in Users /\ from # "new"
  BY DEF SInv, RequestSound, Inner, At, Created, Admitted
<1>2. /\ used' = used \/ used' = [used EXCEPT ![s] = @ \cup {req[r].user}]
      /\ UNCHANGED <<maps, tasks, creator, orphaned>>
      /\ live' = live /\ owner' = owner /\ idle' = idle
  BY DEF Inner, maps
<1>3. PICK l \in Admitted \cup {"done"} : req' = [req EXCEPT ![r].pc = l]
  BY DEF Inner, Goto
<1>4. MapTypes'
  BY <1>1, <1>2, <1>3 DEF SInv, MapTypes, Steps, Admitted
<1>5. /\ req'[r] = [req[r] EXCEPT !.pc = l]
      /\ \A q \in Requests : q # r => req'[q] = req[q]
  BY <1>3 DEF SInv, MapTypes
<1>6. TaskTypes' /\ TasksSound'
  BY <1>2, TasksFrame
<1>7. OwnedByCreator' /\ ExistsCreated'
  BY <1>2 DEF SInv, OwnedByCreator, ExistsCreated, Created
<1>8. OnlyOwnerUses'
  BY <1>1, <1>2 DEF SInv, MapTypes, OnlyOwnerUses
<1>9. ASSUME NEW q \in Requests PROVE RequestSound(q)'
  <2>1. CASE q = r
    BY <1>1, <1>2, <1>5, <2>1 DEF SInv, MapTypes, RequestSound, Admitted, Created
  <2>2. CASE q # r
    BY <1>2, <1>5, <2>2, RequestFrame
  <2> QED
    BY <2>1, <2>2
<1>10. LiveIsListed'
  BY <1>1, <1>2, <1>5, ListedFrame DEF At
<1> QED
  BY <1>4, <1>6, <1>7, <1>8, <1>9, <1>10 DEF SInv

(* bind_owner binds the session to the request's user, who created it. *)
LEMMA StepBindOwner ==
  ASSUME SInv, NEW r \in Requests, BindOwner(r)
  PROVE  SInv'
<1> DEFINE s == req[r].id
<1>1. /\ req[r].pc = "bind" /\ s \in Ids /\ Created(s) /\ creator[s] = req[r].user
      /\ req[r].user \in Users
  BY DEF SInv, RequestSound, BindOwner, At, Created, Admitted
<1>2. /\ owner' = [owner EXCEPT ![s] = IF @ \in {Nobody, NoEntry} THEN req[r].user ELSE @]
      /\ idle' \subseteq idle /\ req' = [req EXCEPT ![r].pc = "done"]
      /\ live' = live /\ UNCHANGED <<tasks, creator, used, orphaned>>
  BY DEF BindOwner, Goto, history
<1>3. MapTypes'
  BY <1>1, <1>2 DEF SInv, MapTypes, Steps
<1>4. /\ req'[r] = [req[r] EXCEPT !.pc = "done"]
      /\ \A q \in Requests : q # r => req'[q] = req[q]
  BY <1>2 DEF SInv, MapTypes
<1>5. TaskTypes' /\ TasksSound'
  BY <1>2, TasksFrame
<1>6. OwnedByCreator' /\ ExistsCreated' /\ OnlyOwnerUses'
  BY <1>1, <1>2 DEF SInv, MapTypes, OwnedByCreator, ExistsCreated, OnlyOwnerUses, Created
<1>7. ASSUME NEW q \in Requests PROVE RequestSound(q)'
  <2>1. CASE q = r
    BY <1>1, <1>2, <1>4, <2>1 DEF SInv, MapTypes, RequestSound, Admitted, Created
  <2>2. CASE q # r
    BY <1>2, <1>4, <2>2, RequestFrame
  <2> QED
    BY <2>1, <2>2
<1>8. LiveIsListed'
  <2>1. \A i \in Ids : owner[i] # NoEntry => owner'[i] # NoEntry
    BY <1>1, <1>2, SessionConstants DEF SInv, MapTypes
  <2> QED
    BY <1>1, <1>2, <1>4, <2>1, ListedFrame DEF At
<1> QED
  BY <1>3, <1>5, <1>6, <1>7, <1>8 DEF SInv

(* enforce_session_owner passes only the creator: nobody else is ever bound. *)
LEMMA StepCheckOwner ==
  ASSUME SInv, NEW r \in Requests, CheckOwner(r)
  PROVE  SInv'
<1> DEFINE s == req[r].id
<1>1. req[r].pc = "owner" /\ s \in Ids /\ Created(s) /\ req[r].user \in Users
  BY DEF SInv, RequestSound, CheckOwner, At, Created
<1> DEFINE l == IF owner[s] # req[r].user THEN "done"
                ELSE IF req[r].kind = "delete" THEN "close" ELSE "has"
<1>2. /\ req' = [req EXCEPT ![r].pc = l] /\ l \in {"done", "close", "has"}
      /\ l # "done" => owner[s] = req[r].user
  BY DEF CheckOwner, Goto, OwnerMatches
<1> HIDE DEF l
<1>3. UNCHANGED <<maps, tasks, creator, used, orphaned>> /\ live' = live
  BY DEF CheckOwner, history, maps
<1>4. MapTypes'
  BY <1>1, <1>2, <1>3 DEF SInv, MapTypes, Steps, maps
<1>5. /\ req'[r] = [req[r] EXCEPT !.pc = l]
      /\ \A q \in Requests : q # r => req'[q] = req[q]
  BY <1>2 DEF SInv, MapTypes
<1>6. l # "done" => creator[s] = req[r].user
  BY <1>1, <1>2, SessionConstants DEF SInv, OwnedByCreator
<1>7. RequestSound(r)'
  BY <1>1, <1>2, <1>3, <1>5, <1>6 DEF SInv, MapTypes, RequestSound, Admitted, Created
<1> QED
  BY <1>1, <1>3, <1>4, <1>5, <1>7, RequestMoves DEF At

(* close_session: rmcp's part. *)
LEMMA StepCloseInner ==
  ASSUME SInv, NEW r \in Requests, CloseInner(r)
  PROVE  SInv'
<1> DEFINE s == req[r].id
<1>1. req[r].pc = "close" /\ s \in Ids /\ Created(s) /\ req[r].user \in Users
  BY DEF SInv, RequestSound, CloseInner, At, Created
<1>2. /\ req' = [req EXCEPT ![r].pc = "forget"] /\ live' = live \ {s}
      /\ UNCHANGED <<owner, idle, tasks, history, creator, used>>
  BY DEF CloseInner, Goto, history
<1>3. MapTypes'
  BY <1>1, <1>2 DEF SInv, MapTypes, Steps
<1>4. /\ req'[r] = [req[r] EXCEPT !.pc = "forget"]
      /\ \A q \in Requests : q # r => req'[q] = req[q]
  BY <1>2 DEF SInv, MapTypes
<1>5. TaskTypes' /\ TasksSound'
  BY <1>2, TasksFrame
<1>6. ASSUME NEW q \in Requests PROVE RequestSound(q)'
  <2>1. CASE q = r
    BY <1>1, <1>2, <1>4, <2>1 DEF SInv, MapTypes, RequestSound, Admitted, Created
  <2>2. CASE q # r
    BY <1>2, <1>4, <2>2, RequestFrame
  <2> QED
    BY <2>1, <2>2
<1>7. OwnedByCreator' /\ ExistsCreated' /\ OnlyOwnerUses' /\ LiveIsListed'
  BY <1>1, <1>2, <1>4, CloseKeeps DEF At
<1> QED
  BY <1>3, <1>5, <1>6, <1>7 DEF SInv

(* close_session: the wrapper's part. *)
LEMMA StepCloseForget ==
  ASSUME SInv, NEW r \in Requests, CloseForget(r)
  PROVE  SInv'
<1> DEFINE s == req[r].id
<1>1. req[r].pc = "forget" /\ s \in Ids /\ s \notin live /\ req[r].user \in Users
  BY DEF SInv, RequestSound, CloseForget, At, Created
<1>2. /\ req' = [req EXCEPT ![r].pc = "done"] /\ Forget(s) /\ live' = live
      /\ UNCHANGED <<live, tasks, history, creator, used>>
  BY DEF CloseForget, Goto, history
<1>3. /\ req'[r] = [req[r] EXCEPT !.pc = "done"]
      /\ \A q \in Requests : q # r => req'[q] = req[q]
  BY <1>2 DEF SInv, MapTypes
<1>4. /\ OwnedByCreator' /\ ExistsCreated' /\ OnlyOwnerUses' /\ LiveIsListed'
      /\ owner' \in [Ids -> Users \cup {Nobody, NoEntry}] /\ idle' \subseteq Ids
  BY <1>1, <1>2, <1>3, ForgetKeeps DEF At
<1>5. MapTypes'
  BY <1>1, <1>2, <1>4 DEF SInv, MapTypes, Steps
<1>6. TaskTypes' /\ TasksSound'
  BY <1>2, TasksFrame
<1>7. ASSUME NEW q \in Requests PROVE RequestSound(q)'
  <2>1. CASE q = r
    BY <1>1, <1>2, <1>3, <2>1 DEF SInv, MapTypes, RequestSound, Admitted
  <2>2. CASE q # r
    BY <1>2, <1>3, <2>2, RequestFrame
  <2> QED
    BY <2>1, <2>2
<1> QED
  BY <1>4, <1>5, <1>6, <1>7 DEF SInv

(* A dropped request leaves an orphan only where its entry was still to come. *)
LEMMA StepDisconnect ==
  ASSUME SInv, NEW r \in Requests, Disconnect(r)
  PROVE  SInv'
<1>1. /\ req' = [req EXCEPT ![r].pc = "done"] /\ req[r].pc # "new"
      /\ UNCHANGED <<maps, tasks, creator, used>> /\ live' = live /\ owner' = owner
      /\ orphaned \subseteq orphaned'
      /\ req[r].pc = "bump_created" => req[r].id \in orphaned'
  BY DEF Disconnect, Goto, maps, At
<1>2. MapTypes'
  BY <1>1 DEF SInv, MapTypes, Steps, maps
<1>3. /\ req'[r] = [req[r] EXCEPT !.pc = "done"]
      /\ \A q \in Requests : q # r => req'[q] = req[q]
  BY <1>1 DEF SInv, MapTypes
<1>4. OwnedByCreator' /\ ExistsCreated' /\ OnlyOwnerUses'
  BY <1>1, MapsFrame
<1>5. TaskTypes' /\ TasksSound'
  BY <1>1, TasksFrame
<1>6. ASSUME NEW q \in Requests PROVE RequestSound(q)'
  <2>1. CASE q = r
    BY <1>1, <1>3, <2>1 DEF SInv, MapTypes, RequestSound, Admitted
  <2>2. CASE q # r
    BY <1>1, <1>3, <2>2, RequestFrame
  <2> QED
    BY <2>1, <2>2
<1>7. LiveIsListed'
  <2>1. Entries' = Entries
    BY <1>1 DEF Entries
  <2> QED
    BY <1>1, <1>3, <2>1 DEF SInv, LiveIsListed, At
<1> QED
  BY <1>2, <1>4, <1>5, <1>6, <1>7 DEF SInv

LEMMA StepGoIdle ==
  ASSUME SInv, NEW i \in Ids, GoIdle(i)
  PROVE  SInv'
<1>1. /\ i \in Ids /\ owner[i] # NoEntry /\ idle' = idle \cup {i} /\ req' = req
      /\ live' = live /\ owner' = owner /\ orphaned' = orphaned
      /\ UNCHANGED <<tasks, creator, used>>
  BY DEF GoIdle, Entries, history
<1>2. MapTypes'
  BY <1>1 DEF SInv, MapTypes
<1>3. OwnedByCreator' /\ ExistsCreated' /\ OnlyOwnerUses'
  BY <1>1 DEF SInv, OwnedByCreator, ExistsCreated, OnlyOwnerUses, Created
<1>4. TaskTypes' /\ TasksSound'
  BY <1>1, TasksFrame
<1>5. \A q \in Requests : RequestSound(q)'
  BY <1>1, RequestFrame
<1>6. LiveIsListed'
  BY <1>1, ListedFrame
<1> QED
  BY <1>2, <1>3, <1>4, <1>5, <1>6 DEF SInv

-----------------------------------------------------------------------------
(* The tasks that close sessions.  A row they list was created, and what   *)
(* they have closed is not live again: rmcp hands out no id twice.         *)

\* The steps of a task that leave the maps alone.
LEMMA ReapKeeps ==
  ASSUME SInv, ReapList \/ ReapDone
  PROVE  SInv'
<1>1. UNCHANGED <<maps, req, history>> /\ live' = live /\ creator' = creator
  BY DEF ReapList, ReapDone, maps, history
<1>2. admin' = admin /\ sweep' = sweep /\ changes' = changes
  BY DEF ReapList, ReapDone
<1>3. /\ reaper'.pc \in {"next", "sleep"} /\ reaper'.left \subseteq idle
      /\ reaper' = Listed(idle) \/ reaper' = Asleep
  BY DEF ReapList, ReapDone, Listed, Asleep
<1>4. TaskTypes'
  BY <1>2, <1>3 DEF SInv, MapTypes, TaskTypes, TaskSteps, Listed, Asleep
<1>5. TasksSound'
  BY <1>1, <1>2, <1>3 DEF SInv, MapTypes, ExistsCreated, TasksSound, TaskSound, Created
<1> QED
  BY <1>1, <1>4, <1>5, TaskMoves

LEMMA AdminKeeps ==
  ASSUME SInv, AdminList \/ AdminDone \/ \E i \in Ids : AdminNotFound(i)
  PROVE  SInv'
<1>1. UNCHANGED <<maps, req, history>> /\ live' = live /\ creator' = creator
  BY DEF AdminList, AdminDone, AdminNotFound, maps, history
<1>2. reaper' = reaper /\ sweep' = sweep /\ changes' = changes
  BY DEF AdminList, AdminDone, AdminNotFound
<1>3. admin' = Listed(Entries) \/ (admin.pc = "next" /\ admin' = [admin EXCEPT !.pc = "done"])
  BY DEF AdminList, AdminDone, AdminNotFound
<1>4. TaskTypes'
  BY <1>2, <1>3 DEF SInv, TaskTypes, TaskSteps, Listed, Entries
<1>5. TaskSound(admin)'
  BY <1>1, <1>3 DEF SInv, TaskTypes, ExistsCreated, TasksSound, TaskSound, Created, Listed, Entries
<1>6. TasksSound'
  BY <1>1, <1>2, <1>5 DEF SInv, TasksSound, TaskSound, Created
<1> QED
  BY <1>1, <1>4, <1>6, TaskMoves

(* One sweep is replaced by a sound one, and no more is live. *)
LEMMA SweepReplaced ==
  ASSUME SInv, NEW n \in 1..MaxChanges, UNCHANGED <<reaper, admin, creator>>, live' \subseteq live,
         changes' \in Nat,
         sweep' = [sweep EXCEPT ![n] = sweep'[n]],
         sweep'[n] \in [pc : TaskSteps, left : SUBSET (Ids \cup Users), id : Ids \cup {NoEntry},
                        all : SUBSET Ids],
         TaskSound(sweep[n])'
  PROVE  TaskTypes' /\ TasksSound'
<1>1. TaskTypes'
  BY DEF SInv, TaskTypes
<1>2. TaskSound(reaper)' /\ TaskSound(admin)'
  BY DEF SInv, TasksSound, TaskSound, Created
<1>3. ASSUME NEW m \in 1..MaxChanges PROVE TaskSound(sweep[m])'
  <2>1. CASE m = n
    BY <2>1
  <2>2. CASE m # n
    <3>1. sweep'[m] = sweep[m] /\ TaskSound(sweep[m])
      BY <2>2 DEF SInv, TaskTypes, TasksSound
    <3> QED
      BY <3>1 DEF TaskSound, Created
  <2> QED
    BY <2>1, <2>2
<1> QED
  BY <1>1, <1>2, <1>3 DEF TasksSound

LEMMA StepListChanges ==
  ASSUME SInv, NEW us \in SUBSET Users, ListChanges(us)
  PROVE  SInv'
<1> DEFINE t == [pc |-> "list", left |-> us, id |-> NoEntry, all |-> {}]
           Task == [pc : TaskSteps, left : SUBSET (Ids \cup Users), id : Ids \cup {NoEntry},
                    all : SUBSET Ids]
<1>1. UNCHANGED <<maps, req, history, reaper, admin>> /\ live' = live /\ creator' = creator
  BY DEF ListChanges, maps, history
<1>2. PICK n \in 1..MaxChanges : n = changes + 1 /\ changes' \in Nat
  BY SessionConstants DEF ListChanges, SInv, TaskTypes
<1>3. t \in Task /\ t.pc = "list" /\ t.left \subseteq Users
  BY DEF TaskSteps
<1>4. sweep \in [1..MaxChanges -> Task]
  BY DEF SInv, TaskTypes
<1>5. sweep' = [sweep EXCEPT ![n] = t] /\ sweep'[n] = t
  BY <1>2, <1>4 DEF ListChanges
<1> HIDE DEF t
<1>6. TaskSound(sweep[n])'
  BY <1>3, <1>5 DEF TaskSound
<1>7. TaskTypes' /\ TasksSound'
  BY <1>1, <1>2, <1>3, <1>5, <1>6, SweepReplaced
<1> QED
  BY <1>1, <1>7, TaskMoves

LEMMA StepSweepList ==
  ASSUME SInv, NEW n \in 1..MaxChanges, SweepList(n)
  PROVE  SInv'
<1> DEFINE rows == {i \in Ids : owner[i] \in sweep[n].left}
           t == [pc |-> "next", left |-> rows, id |-> NoEntry, all |-> rows]
<1>1. UNCHANGED <<maps, req, history, reaper, admin>> /\ live' = live /\ creator' = creator
      /\ changes' \in Nat
  BY DEF SweepList, maps, history, SInv, TaskTypes
<1>2. sweep[n].left \subseteq Users
  BY DEF SweepList, SInv, TasksSound, TaskSound
<1>3. \A i \in rows : Created(i)
  BY <1>2, SessionConstants DEF SInv, ExistsCreated
<1>4. t \in [pc : TaskSteps, left : SUBSET (Ids \cup Users), id : Ids \cup {NoEntry},
             all : SUBSET Ids]
  BY DEF TaskSteps
<1>5. sweep' = [sweep EXCEPT ![n] = t] /\ sweep'[n] = t
  BY DEF SweepList, Listed, SInv, TaskTypes
<1>6. t.pc = "next" /\ t.left = rows
  OBVIOUS
<1> HIDE DEF t, rows
<1>7. TaskSound(sweep[n])'
  BY <1>1, <1>3, <1>5, <1>6 DEF TaskSound, Created
<1>8. TaskTypes' /\ TasksSound'
  BY <1>1, <1>4, <1>5, <1>7, SweepReplaced
<1> QED
  BY <1>1, <1>8, TaskMoves

(* What a task's close leaves of the invariant: all but the task itself. *)
LEMMA TaskCloses ==
  ASSUME SInv, NEW i \in Ids, live' = live \ {i}, UNCHANGED <<owner, idle, req, history>>
  PROVE  /\ MapTypes' /\ OwnedByCreator' /\ ExistsCreated' /\ OnlyOwnerUses' /\ LiveIsListed'
         /\ \A q \in Requests : RequestSound(q)'
<1>1. MapTypes' /\ creator' = creator /\ live' \subseteq live
  BY DEF SInv, MapTypes, history
<1>2. \A q \in Requests : RequestSound(q)'
  BY <1>1, RequestFrame
<1> QED
  BY <1>1, <1>2, CloseKeeps

LEMMA TaskForgets ==
  ASSUME SInv, NEW i \in Ids, i \notin live, Forget(i), UNCHANGED <<live, req, history>>
  PROVE  /\ MapTypes' /\ OwnedByCreator' /\ ExistsCreated' /\ OnlyOwnerUses' /\ LiveIsListed'
         /\ \A q \in Requests : RequestSound(q)'
<1>1. creator' = creator /\ used' = used /\ live' \subseteq live
  BY DEF history
<1>2. \A q \in Requests : RequestSound(q)'
  BY <1>1, RequestFrame
<1>3. /\ OwnedByCreator' /\ ExistsCreated' /\ OnlyOwnerUses' /\ LiveIsListed'
      /\ owner' \in [Ids -> Users \cup {Nobody, NoEntry}] /\ idle' \subseteq Ids
  BY ForgetKeeps
<1>4. MapTypes'
  BY <1>1, <1>3 DEF SInv, MapTypes
<1> QED
  BY <1>2, <1>3, <1>4

LEMMA StepReap ==
  ASSUME SInv, Reap
  PROVE  SInv'
<1>1. CASE ReapList \/ ReapDone
  BY <1>1, ReapKeeps
<1>2. ASSUME NEW i \in Ids, ReapClose(i) PROVE SInv'
  <2>1. /\ live' = live \ {i} /\ UNCHANGED <<owner, idle, req, history>> /\ creator' = creator
        /\ admin' = admin /\ sweep' = sweep /\ changes' = changes /\ i \in reaper.left /\ reaper.pc = "next"
        /\ reaper' = [reaper EXCEPT !.pc = "forget", !.left = @ \ {i}, !.id = i]
    BY <1>2 DEF ReapClose, history
  <2>2. TaskTypes'
    BY <2>1 DEF SInv, TaskTypes, TaskSteps
  <2>3. reaper'.pc = "forget" /\ reaper'.left \subseteq reaper.left /\ reaper'.id = i
    BY <2>1 DEF SInv, TaskTypes
  <2>4. TasksSound'
    BY <2>1, <2>3 DEF SInv, TasksSound, TaskSound, Created
  <2> QED
    BY <2>1, <2>2, <2>4, TaskCloses DEF SInv
<1>3. CASE ReapForget
  <2>1. /\ Forget(reaper.id) /\ UNCHANGED <<live, req, history>> /\ creator' = creator
        /\ admin' = admin /\ sweep' = sweep /\ changes' = changes /\ reaper' = [reaper EXCEPT !.pc = "next"]
        /\ live' = live
    BY <1>3 DEF ReapForget, history
  <2>2. reaper.pc = "forget" /\ reaper.id \in Ids /\ reaper.id \notin live
    BY <1>3 DEF SInv, TasksSound, TaskSound, Created, ReapForget
  <2>3. TaskTypes'
    BY <2>1 DEF SInv, TaskTypes, TaskSteps
  <2>4. reaper'.pc = "next" /\ reaper'.left = reaper.left
    BY <2>1 DEF SInv, TaskTypes
  <2>5. TasksSound'
    BY <2>1, <2>2, <2>4 DEF SInv, TasksSound, TaskSound, Created
  <2> QED
    BY <2>1, <2>2, <2>3, <2>5, TaskForgets DEF SInv
<1> QED
  BY <1>1, <1>2, <1>3 DEF Reap

LEMMA StepReplace ==
  ASSUME SInv, Replace
  PROVE  SInv'
<1>1. CASE AdminList \/ AdminDone \/ \E i \in Ids : AdminNotFound(i)
  BY <1>1, AdminKeeps
<1>2. ASSUME NEW i \in Ids, AdminClose(i) PROVE SInv'
  <2>1. /\ live' = live \ {i} /\ UNCHANGED <<owner, idle, req, history>> /\ creator' = creator
        /\ reaper' = reaper /\ sweep' = sweep /\ changes' = changes /\ i \in admin.left /\ admin.pc = "next"
        /\ admin' = [admin EXCEPT !.pc = "forget", !.left = @ \ {i}, !.id = i]
    BY <1>2 DEF AdminClose, history
  <2>2. TaskTypes'
    BY <2>1 DEF SInv, TaskTypes, TaskSteps
  <2>3. admin'.pc = "forget" /\ admin'.left \subseteq admin.left /\ admin'.id = i
    BY <2>1 DEF SInv, TaskTypes
  <2>4. TasksSound'
    BY <2>1, <2>3 DEF SInv, TasksSound, TaskSound, Created
  <2> QED
    BY <2>1, <2>2, <2>4, TaskCloses DEF SInv
<1>3. CASE AdminForget
  <2>1. /\ Forget(admin.id) /\ UNCHANGED <<live, req, history>> /\ creator' = creator
        /\ reaper' = reaper /\ sweep' = sweep /\ changes' = changes /\ admin' = [admin EXCEPT !.pc = "next"]
        /\ live' = live
    BY <1>3 DEF AdminForget, history
  <2>2. admin.pc = "forget" /\ admin.id \in Ids /\ admin.id \notin live
    BY <1>3 DEF SInv, TasksSound, TaskSound, Created, AdminForget
  <2>3. TaskTypes'
    BY <2>1 DEF SInv, TaskTypes, TaskSteps
  <2>4. admin'.pc = "next" /\ admin'.left = admin.left
    BY <2>1 DEF SInv, TaskTypes
  <2>5. TasksSound'
    BY <2>1, <2>2, <2>4 DEF SInv, TasksSound, TaskSound, Created
  <2> QED
    BY <2>1, <2>2, <2>3, <2>5, TaskForgets DEF SInv
<1> QED
  BY <1>1, <1>2, <1>3 DEF Replace

LEMMA StepSweep ==
  ASSUME SInv, NEW n \in 1..MaxChanges, Sweep(n)
  PROVE  SInv'
<1> DEFINE t == sweep[n]
           Task == [pc : TaskSteps, left : SUBSET (Ids \cup Users), id : Ids \cup {NoEntry},
                    all : SUBSET Ids]
<1>1. t \in Task /\ sweep \in [1..MaxChanges -> Task] /\ TaskSound(t)
  BY DEF SInv, TaskTypes, TasksSound
<1>2. CASE SweepList(n)
  BY <1>2, StepSweepList
<1>3. ASSUME NEW i \in Ids, SweepClose(n, i) PROVE SInv'
  <2> DEFINE new == [t EXCEPT !.pc = "forget", !.left = @ \ {i}, !.id = i]
  <2>1. /\ live' = live \ {i} /\ UNCHANGED <<owner, idle, req, history>> /\ creator' = creator
        /\ UNCHANGED <<reaper, admin>> /\ changes' = changes /\ i \in t.left /\ t.pc = "next"
        /\ sweep' = [sweep EXCEPT ![n] = new]
    BY <1>1, <1>3 DEF SweepClose, history
  <2>2. new \in Task /\ new.pc = "forget" /\ new.left \subseteq t.left /\ new.id = i
    BY <1>1 DEF TaskSteps
  <2>3. sweep'[n] = new
    BY <1>1, <2>1
  <2> HIDE DEF new
  <2>4. TaskSound(sweep[n])'
    BY <1>1, <2>1, <2>2, <2>3 DEF TaskSound, Created
  <2>5. TaskTypes' /\ TasksSound'
    BY <2>1, <2>2, <2>3, <2>4, SweepReplaced DEF SInv, TaskTypes
  <2> QED
    BY <2>1, <2>5, TaskCloses DEF SInv
<1>4. CASE SweepForget(n)
  <2> DEFINE new == [t EXCEPT !.pc = IF t.left = {} THEN "done" ELSE "next"]
  <2>1. /\ Forget(t.id) /\ UNCHANGED <<live, req, history>> /\ creator' = creator
        /\ UNCHANGED <<reaper, admin>> /\ changes' = changes /\ sweep' = [sweep EXCEPT ![n] = new] /\ live' = live
        /\ t.pc = "forget"
    BY <1>1, <1>4 DEF SweepForget, history
  <2>2. new \in Task /\ new.pc \in {"next", "done"} /\ new.left = t.left
    BY <1>1 DEF TaskSteps
  <2>3. sweep'[n] = new
    BY <1>1, <2>1
  <2> HIDE DEF new
  <2>4. TaskSound(sweep[n])'
    BY <1>1, <2>1, <2>2, <2>3 DEF TaskSound, Created
  <2>5. TaskTypes' /\ TasksSound'
    BY <2>1, <2>2, <2>3, <2>4, SweepReplaced DEF SInv, TaskTypes
  <2>6. t.id \in Ids /\ t.id \notin live
    BY <1>1, <2>1 DEF TaskSound, Created
  <2> QED
    BY <2>1, <2>5, <2>6, TaskForgets DEF SInv
<1> QED
  BY <1>2, <1>3, <1>4 DEF Sweep

-----------------------------------------------------------------------------
LEMMA StepRequest ==
  ASSUME SInv, NEW r \in Requests, RequestStep(r)
  PROVE  SInv'
<1>1. ASSUME NEW i \in Ids, CreateInner(r, i) PROVE SInv'
  BY <1>1, StepCreateInner
<1>2. CASE Bumped(r, "bump_created", "initialize")
  BY <1>2, StepBumped DEF Admitted
<1>3. CASE Bumped(r, "bump_init", "bind")
  BY <1>3, StepBumped DEF Admitted
<1>4. CASE Bumped(r, "bump_has", "op")
  BY <1>4, StepBumped DEF Admitted
<1>5. CASE Bumped(r, "bump_op", "done")
  BY <1>5, StepBumped DEF Admitted
<1>6. CASE Inner(r, "initialize", "bump_init")
  BY <1>6, StepInner DEF Admitted
<1>7. CASE Inner(r, "has", "bump_has")
  BY <1>7, StepInner DEF Admitted
<1>8. CASE Inner(r, "op", "bump_op")
  BY <1>8, StepInner DEF Admitted
<1> QED
  BY <1>1, <1>2, <1>3, <1>4, <1>5, <1>6, <1>7, <1>8, StepBindOwner, StepCheckOwner,
     StepCloseInner, StepCloseForget, StepDisconnect DEF RequestStep

LEMMA Step == SInv /\ [Next]_vars => SInv'
<1> SUFFICES ASSUME SInv, [Next]_vars PROVE SInv'
  OBVIOUS
<1>1. CASE UNCHANGED vars
  <2>1. UNCHANGED <<maps, req, history>> /\ UNCHANGED tasks /\ UNCHANGED creator /\ live' = live
    BY <1>1 DEF vars, maps, history
  <2>2. TaskTypes' /\ TasksSound'
    BY <2>1, TasksFrame
  <2> QED
    BY <2>1, <2>2, TaskMoves
<1>2. ASSUME NEW r \in Requests, NEW u \in Users, BeginInit(r, u) PROVE SInv'
  BY <1>2, StepBeginInit
<1>3. ASSUME NEW r \in Requests, NEW u \in Users, NEW i \in Ids, NEW kind \in {"use", "delete"},
             BeginUse(r, u, i, kind)
      PROVE  SInv'
  BY <1>3, StepBeginUse
<1>4. ASSUME NEW r \in Requests, RequestStep(r) PROVE SInv'
  BY <1>4, StepRequest
<1>5. ASSUME NEW i \in Ids, GoIdle(i) PROVE SInv'
  BY <1>5, StepGoIdle
<1>6. ASSUME NEW us \in SUBSET Users, ListChanges(us) PROVE SInv'
  BY <1>6, StepListChanges
<1>7. ASSUME NEW n \in 1..MaxChanges, Sweep(n) PROVE SInv'
  BY <1>7, StepSweep
<1> QED
  BY <1>1, <1>2, <1>3, <1>4, <1>5, <1>6, <1>7, StepReap, StepReplace DEF Next

LEMMA Inductive == Spec => []SInv
BY Initial, Step, PTL DEF Spec

(* A session id is not a capability (enforce_session_owner): for any        *)
(* number of sessions, users, requests and list changes, only the           *)
(* principal that created a session is ever let through to it.              *)
THEOREM OwnersOnly == Spec => []OnlyOwnerUses
<1>1. SInv => OnlyOwnerUses
  BY DEF SInv
<1> QED
  BY <1>1, Inductive, PTL

(* Every live session can be found by the reaper, the sweeps and the admin  *)
(* list, unless its creator was dropped between rmcp's create_session and   *)
(* the wrapper's entry.                                                     *)
THEOREM LiveListed == Spec => []LiveIsListed
<1>1. SInv => LiveIsListed
  BY DEF SInv
<1> QED
  BY <1>1, Inductive, PTL

-----------------------------------------------------------------------------
(* Forwarding: what the cursor, the receiver and the log have to do with    *)
(* each other.                                                              *)

Contents == Records \cup Others

ForwardTypes ==
  /\ log \in Seq(Contents) /\ durable \in 0..Len(log)
  /\ cursor \in Cursors /\ saved \in Cursors /\ lost \in BOOLEAN

\* A running shipper's cursor is the file's, whatever failed before.
CursorSaved == pc # "down" => cursor = saved

\* A batch in hand carries the numbers behind the cursor, and the cursor that
\* will be saved counts them.
BatchSound ==
  pc \in {"deliver", "persist"} =>
    /\ inflight.after \in Cursors
    /\ Len(inflight.lines) \in Nat
    /\ inflight.after.ack = cursor.ack + Len(inflight.lines)
    /\ \A i \in 1..Len(inflight.lines) : inflight.lines[i][1] = cursor.ack + i
    /\ pc = "persist" => \A i \in 1..Len(inflight.lines) : inflight.lines[i] \in received

\* A cursor of the file as it is: at the start of the line after the last one
\* it acknowledges.
Of(c, f) == c.ack <= Len(f) /\ c.off = Offset(f, c.ack)

LineOf(m, f) == m[1] \in 1..Len(f) /\ m = <<m[1], f[m[1]]>>

\* Until lines are lost the cursors and the receiver are of this file.
OfThisFile ==
  ~lost =>
    /\ Of(saved, log)
    /\ \A m \in received : LineOf(m, log)
    /\ pc \in {"deliver", "persist"} =>
         /\ Of(inflight.after, log)
         /\ \A i \in 1..Len(inflight.lines) : LineOf(inflight.lines[i], log)

AckedArrived == \A n \in 1..saved.ack : \E m \in received : m[1] = n

ShipInv == ForwardTypes /\ CursorSaved /\ BatchSound /\ OfThisFile /\ AckedArrived

-----------------------------------------------------------------------------
(* Offsets are numbers.                                                     *)
LEMMA OffsetType ==
  ASSUME NEW f, NEW n \in Nat
  PROVE  Offset(f, n) \in Nat
<1>1. IsFiniteSet(1..n)
  BY FS_Interval
<1>2. {i \in 1..n : f[i] \in Long} \in SUBSET (1..n)
  OBVIOUS
<1>3. Cardinality({i \in 1..n : f[i] \in Long}) \in Nat
  BY <1>1, <1>2, FS_Subset, FS_CardinalityType
<1> QED BY <1>3 DEF Offset

(* A longer prefix has more bytes.                                          *)
LEMMA OffsetGrows ==
  ASSUME NEW f, NEW m \in Nat, NEW n \in Nat, m < n
  PROVE  Offset(f, m) < Offset(f, n)
<1> DEFINE S == {i \in 1..m : f[i] \in Long}
           T == {i \in 1..n : f[i] \in Long}
<1>1. IsFiniteSet(1..n) /\ T \in SUBSET (1..n)
  BY FS_Interval
<1>2. IsFiniteSet(T)
  BY <1>1, FS_Subset
<1>3. S \in SUBSET T
  OBVIOUS
<1> HIDE DEF S, T
<1>4. Cardinality(S) \in Nat /\ Cardinality(T) \in Nat /\ Cardinality(S) <= Cardinality(T)
  BY <1>2, <1>3, FS_Subset, FS_CardinalityType
<1>5. Offset(f, m) = m + Cardinality(S) /\ Offset(f, n) = n + Cardinality(T)
  BY DEF Offset, S, T
<1> QED BY <1>4, <1>5

(* So an offset names at most one line.                                     *)
LEMMA OffsetOnce ==
  ASSUME NEW f, NEW m \in Nat, NEW n \in Nat, Offset(f, m) = Offset(f, n)
  PROVE  m = n
<1>1. Offset(f, m) \in Nat
  BY OffsetType
<1>2. ~(m < n) /\ ~(n < m)
  BY <1>1, OffsetGrows
<1> QED BY <1>2

(* It depends on the lines before it only.                                  *)
LEMMA OffsetPrefix ==
  ASSUME NEW f, NEW g, NEW n \in Nat, \A i \in 1..n : f[i] = g[i]
  PROVE  Offset(f, n) = Offset(g, n)
<1>1. {i \in 1..n : f[i] \in Long} = {i \in 1..n : g[i] \in Long}
  OBVIOUS
<1> QED BY <1>1 DEF Offset

(* A cursor and a line of a file stay so while the file grows.              *)
LEMMA StaysOf ==
  ASSUME NEW f, NEW g, Len(f) \in Nat, Len(g) \in Nat, Len(f) <= Len(g),
         \A i \in 1..Len(f) : f[i] = g[i]
  PROVE  /\ \A c \in Cursors : Of(c, f) => Of(c, g)
         /\ \A m : LineOf(m, f) => LineOf(m, g)
<1>1. ASSUME NEW c \in Cursors, Of(c, f) PROVE Of(c, g)
  <2>1. c.ack \in Nat /\ c.ack <= Len(f)
    BY <1>1 DEF Cursors, Of
  <2>2. \A i \in 1..c.ack : f[i] = g[i]
    BY <2>1
  <2>3. Offset(f, c.ack) = Offset(g, c.ack)
    BY <2>1, <2>2, OffsetPrefix
  <2> QED BY <1>1, <2>1, <2>3 DEF Of
<1>2. ASSUME NEW m, LineOf(m, f) PROVE LineOf(m, g)
  BY <1>2 DEF LineOf
<1> QED BY <1>1, <1>2

(* read_batch: the lines read carry the numbers behind the cursor, although *)
(* only the offset says where to read.                                      *)
LEMMA ReadFollows ==
  ASSUME NEW f \in Seq(Contents), NEW c \in Cursors, Readable(f, c),
         ReadFrom(f, c).lines # <<>>
  PROVE  LET b == ReadFrom(f, c) IN
         /\ b.after \in Cursors /\ Len(b.lines) \in Nat
         /\ b.after.ack = c.ack + Len(b.lines)
         /\ \A i \in 1..Len(b.lines) :
              b.lines[i][1] = c.ack + i /\ LineOf(b.lines[i], f)
         /\ Of(b.after, f)
<1>1. Len(f) \in Nat /\ c.ack \in Nat /\ c.off \in Nat
  BY DEF Cursors
<1>2. PICK k \in 0..Len(f) : Offset(f, k) = c.off /\ (k = Len(f) \/ k = c.ack)
  BY DEF Readable
<1> DEFINE n == CHOOSE n \in 0..Len(f) : Offset(f, n) = c.off
           last == IF n + Batch < Len(f) THEN n + Batch ELSE Len(f)
           lines == [i \in 1..last - n |-> <<n + i, f[n + i]>>]
<1>3. n \in 0..Len(f) /\ Offset(f, n) = c.off
  BY <1>2
<1>4. n = k
  <2> HIDE DEF n
  <2> QED BY <1>1, <1>2, <1>3, OffsetOnce
<1>5. ReadFrom(f, c) = [lines |-> lines, after |-> [ack |-> c.ack + (last - n), off |-> Offset(f, last)]]
  BY DEF ReadFrom
<1>6. PICK b : b = ReadFrom(f, c)
  OBVIOUS
<1> HIDE DEF n
<1>7. last \in n..Len(f) /\ n \in Nat /\ last \in Nat
  BY <1>1, <1>3, ShipperConstants
<1>8. b.lines = lines /\ b.after.ack = c.ack + (last - n) /\ b.after.off = Offset(f, last)
      /\ b.after = [ack |-> c.ack + (last - n), off |-> Offset(f, last)]
  BY <1>5, <1>6
<1> HIDE DEF last
<1>9. Len(lines) = last - n /\ last - n \in Nat
  BY <1>7
<1>10. n = c.ack
  <2>1. n # Len(f)
    <3> SUFFICES ASSUME n = Len(f) PROVE FALSE
      OBVIOUS
    <3>1. last - n = 0
      BY <1>1, <1>7
    <3>2. lines = <<>>
      BY <3>1
    <3> QED BY <1>6, <1>8, <3>2
  <2> QED BY <1>2, <1>4, <2>1
<1>11. Offset(f, last) \in Nat
  BY <1>7, OffsetType
<1>12. b.after \in Cursors /\ b.after.ack = last
  <2>1. c.ack + (last - n) = last
    BY <1>7, <1>10
  <2>2. b.after = [ack |-> last, off |-> Offset(f, last)]
    BY <1>8, <2>1
  <2> QED BY <1>7, <1>11, <2>2 DEF Cursors
<1>13. Of(b.after, f)
  BY <1>7, <1>8, <1>12 DEF Of
<1>14. ASSUME NEW i \in 1..Len(b.lines)
       PROVE  b.lines[i][1] = c.ack + i /\ LineOf(b.lines[i], f)
  <2>1. i \in 1..last - n /\ n + i \in 1..Len(f)
    BY <1>1, <1>7, <1>8, <1>9, <1>14
  <2>2. b.lines[i] = <<n + i, f[n + i]>>
    BY <1>8, <2>1
  <2> QED BY <1>10, <2>1, <2>2 DEF LineOf
<1> QED BY <1>6, <1>8, <1>9, <1>12, <1>13, <1>14

-----------------------------------------------------------------------------
(* The initial state satisfies ShipInv, and every step keeps it.            *)
LEMMA ShipInitial == ShipInit => ShipInv
<1> SUFFICES ASSUME ShipInit PROVE ShipInv
  OBVIOUS
<1> USE DEF ShipInit, LogInit
<1>1. FreshCursor \in Cursors /\ FreshCursor.ack = 0 /\ FreshCursor.off = 0
  BY DEF FreshCursor, Cursors
<1>2. Offset(log, 0) = 0
  <2>1. {i \in 1..0 : log[i] \in Long} = {}
    OBVIOUS
  <2>2. Cardinality({}) = 0
    BY FS_EmptySet
  <2> QED BY <2>1, <2>2 DEF Offset
<1>3. Of(saved, log)
  BY <1>1, <1>2 DEF Of
<1>4. log \in Seq(Contents) /\ Len(log) = 0
  OBVIOUS
<1>5. ForwardTypes
  <2>1. lost \in BOOLEAN /\ cursor \in Cursors /\ saved \in Cursors
    BY <1>1, Zenon
  <2>2. durable \in 0..Len(log)
    BY <1>4
  <2> QED BY <1>4, <2>1, <2>2, Zenon DEF ForwardTypes
<1>6. CursorSaved /\ BatchSound /\ OfThisFile
  BY <1>3 DEF CursorSaved, BatchSound, OfThisFile
<1>7. AckedArrived
  BY <1>1 DEF AckedArrived
<1> QED BY <1>5, <1>6, <1>7 DEF ShipInv

(* A step that only ends a round, sleeps, starts or stops.                  *)
LEMMA QuietShip ==
  ASSUME ShipInv, UNCHANGED <<logVars, lost, saved>>, received \subseteq received',
         \A m \in received' \ received : pc = "deliver" /\ \E i \in 1..Len(inflight.lines) : m = inflight.lines[i],
         pc' \notin {"deliver", "persist"},
         cursor' = cursor \/ cursor' = saved \/ cursor' = FreshCursor,
         pc' # "down" => cursor' = saved
  PROVE  ShipInv'
<1> USE DEF ShipInv, logVars
<1>1. ForwardTypes'
  <2>1. FreshCursor \in Cursors
    BY DEF FreshCursor, Cursors
  <2> QED BY <2>1 DEF ForwardTypes
<1>2. CursorSaved' /\ BatchSound'
  BY DEF CursorSaved, BatchSound
<1>3. OfThisFile'
  <2> SUFFICES ASSUME ~lost' PROVE Of(saved', log') /\ \A m \in received' : LineOf(m, log')
    BY DEF OfThisFile
  <2>1. ~lost /\ saved' = saved /\ log' = log
    OBVIOUS
  <2>2. Of(saved, log) /\ \A m \in received : LineOf(m, log)
    BY <2>1 DEF OfThisFile
  <2>3. ASSUME NEW m \in received' \ received PROVE LineOf(m, log)
    <3>1. PICK i \in 1..Len(inflight.lines) : pc = "deliver" /\ m = inflight.lines[i]
      BY <2>3
    <3> QED BY <2>1, <3>1 DEF OfThisFile
  <2> QED BY <2>1, <2>2, <2>3
<1>4. AckedArrived'
  BY DEF AckedArrived
<1> QED BY <1>1, <1>2, <1>3, <1>4

(* The rounds that end, or have not begun.                                  *)
LEMMA EndOfRound ==
  ASSUME ShipInv, UNCHANGED <<logVars, lost>>,
         Start \/ ReadNothing \/ ReadFails \/ DeliverFails \/ PersistFails \/ Wake \/ Stop
  PROVE  ShipInv'
<1> USE DEF RoundDone, RoundFails
<1>1. pc # "down" => cursor = saved
  BY DEF ShipInv, CursorSaved
<1>2. CASE Start
  BY <1>2, QuietShip DEF Start
<1>3. CASE ReadNothing \/ ReadFails \/ PersistFails \/ Wake
  <2>1. /\ UNCHANGED <<saved, received, cursor>> /\ pc # "down" /\ pc' \in {"wait", "ready"}
    BY <1>3 DEF ReadNothing, ReadFails, PersistFails, Wake
  <2> QED BY <1>1, <2>1, QuietShip
<1>4. CASE DeliverFails
  <2>1. PICK n \in 0..Len(inflight.lines) : Arrives(n)
    BY <1>4 DEF DeliverFails
  <2>2. pc = "deliver" /\ pc' = "wait" /\ UNCHANGED <<cursor, saved>>
    BY <1>4 DEF DeliverFails
  <2>3. Len(inflight.lines) \in Nat
    BY <2>2 DEF ShipInv, BatchSound
  <2>4. \A m \in received' \ received : \E i \in 1..Len(inflight.lines) : m = inflight.lines[i]
    BY <2>1, <2>3 DEF Arrives
  <2>5. received \subseteq received'
    BY <2>1 DEF Arrives
  <2> QED BY <1>1, <2>2, <2>4, <2>5, QuietShip
<1>5. CASE Stop
  BY <1>5, QuietShip DEF Stop
<1> QED BY <1>2, <1>3, <1>4, <1>5

(* A batch is read.                                                         *)
LEMMA ReadBatchKeeps ==
  ASSUME ShipInv, UNCHANGED <<logVars, lost>>, ReadBatch
  PROVE  ShipInv'
<1> USE DEF ReadBatch, logVars
<1>1. log \in Seq(Contents) /\ cursor \in Cursors
  BY DEF ShipInv, ForwardTypes
<1>2. /\ inflight'.after \in Cursors /\ Len(inflight'.lines) \in Nat
      /\ inflight'.after.ack = cursor.ack + Len(inflight'.lines)
      /\ \A i \in 1..Len(inflight'.lines) :
           inflight'.lines[i][1] = cursor.ack + i /\ LineOf(inflight'.lines[i], log)
      /\ Of(inflight'.after, log)
  BY <1>1, ReadFollows
<1>3. BatchSound'
  BY <1>2 DEF BatchSound
<1>4. OfThisFile'
  BY <1>2 DEF OfThisFile, ShipInv
<1>5. ForwardTypes' /\ CursorSaved' /\ AckedArrived'
  BY DEF ShipInv, ForwardTypes, CursorSaved, AckedArrived
<1> QED BY <1>3, <1>4, <1>5 DEF ShipInv

(* It is delivered.                                                         *)
LEMMA DeliverKeeps ==
  ASSUME ShipInv, UNCHANGED <<logVars, lost>>, DeliverOk
  PROVE  ShipInv'
<1> USE DEF DeliverOk, logVars, Arrives, ShipInv
<1>1. ForwardTypes' /\ CursorSaved' /\ AckedArrived'
  BY DEF ForwardTypes, CursorSaved, AckedArrived
<1>2. BatchSound'
  BY DEF BatchSound
<1>3. OfThisFile'
  BY DEF OfThisFile
<1> QED BY <1>1, <1>2, <1>3

(* The cursor is saved: every number it now covers has arrived.             *)
LEMMA PersistKeeps ==
  ASSUME ShipInv, UNCHANGED <<logVars, lost>>, Persist
  PROVE  ShipInv'
<1> USE DEF Persist, logVars, RoundDone
<1>1. /\ pc = "persist" /\ cursor = saved /\ inflight.after \in Cursors
      /\ Len(inflight.lines) \in Nat /\ inflight.after.ack = saved.ack + Len(inflight.lines)
      /\ \A i \in 1..Len(inflight.lines) :
           inflight.lines[i][1] = saved.ack + i /\ inflight.lines[i] \in received
      /\ saved.ack \in Nat
  BY DEF ShipInv, CursorSaved, BatchSound, ForwardTypes, Cursors
<1>2. AckedArrived'
  <2> SUFFICES ASSUME NEW n \in 1..inflight.after.ack PROVE \E m \in received : m[1] = n
    BY DEF AckedArrived
  <2>1. CASE n <= saved.ack
    BY <1>1, <2>1 DEF ShipInv, AckedArrived
  <2>2. CASE n > saved.ack
    <3>1. n - saved.ack \in 1..Len(inflight.lines) /\ saved.ack + (n - saved.ack) = n
      BY <1>1, <2>2
    <3> QED BY <1>1, <3>1
  <2> QED BY <1>1, <2>1, <2>2
<1>3. ForwardTypes'
  BY <1>1 DEF ShipInv, ForwardTypes
<1>4. pc' \in {"ready", "wait"}
  OBVIOUS
<1>5. CursorSaved' /\ BatchSound'
  BY <1>4 DEF CursorSaved, BatchSound
<1>6. OfThisFile'
  BY <1>1, <1>4 DEF ShipInv, OfThisFile
<1> QED BY <1>2, <1>3, <1>5, <1>6 DEF ShipInv

(* The journal writes or syncs: its lines so far stay.                      *)
LEMMA WrittenKeeps ==
  ASSUME ShipInv, UNCHANGED <<shipVars, lost>>, Written
  PROVE  ShipInv'
<1> USE DEF shipVars
<1>1. log \in Seq(Contents) /\ durable \in 0..Len(log) /\ Len(log) \in Nat
  BY DEF ShipInv, ForwardTypes
<1>2. /\ log' \in Seq(Contents) /\ durable' \in 0..Len(log') /\ Len(log') \in Nat
      /\ Len(log) <= Len(log') /\ \A i \in 1..Len(log) : log[i] = log'[i]
  <2>1. CASE \E c \in Contents : Extend(<<c>>, {}, "lost")
    <3>1. PICK c \in Contents : log' = log \o <<c>> /\ durable' = durable
      BY <2>1 DEF Extend
    <3>2. log' = Append(log, c)
      BY <1>1, <3>1
    <3>3. /\ log' \in Seq(Contents) /\ Len(log') = Len(log) + 1
          /\ \A i \in 1..Len(log) : log[i] = log'[i]
      BY <1>1, <3>2, AppendProperties
    <3> QED BY <1>1, <3>1, <3>3
  <2>2. CASE Commit({})
    BY <1>1, <2>2 DEF Commit
  <2> QED BY <2>1, <2>2 DEF Written, Contents
<1>3. /\ \A c \in Cursors : Of(c, log) => Of(c, log')
      /\ \A m : LineOf(m, log) => LineOf(m, log')
  BY <1>1, <1>2, StaysOf
<1>4. ForwardTypes'
  BY <1>2 DEF ShipInv, ForwardTypes
<1>5. OfThisFile'
  <2> SUFFICES ASSUME ~lost
               PROVE  /\ Of(saved, log') /\ \A m \in received : LineOf(m, log')
                      /\ pc \in {"deliver", "persist"} =>
                           /\ Of(inflight.after, log')
                           /\ \A i \in 1..Len(inflight.lines) : LineOf(inflight.lines[i], log')
    BY DEF OfThisFile
  <2>1. saved \in Cursors /\ (pc \in {"deliver", "persist"} => inflight.after \in Cursors)
    BY DEF ShipInv, ForwardTypes, BatchSound
  <2> QED BY <1>3, <2>1 DEF ShipInv, OfThisFile
<1>6. CursorSaved' /\ BatchSound' /\ AckedArrived'
  BY DEF ShipInv, CursorSaved, BatchSound, AckedArrived
<1> QED BY <1>4, <1>5, <1>6 DEF ShipInv

(* Power is lost: the shipper is gone, and nothing else changes or lost is   *)
(* set.                                                                     *)
LEMMA PowerLossKeeps ==
  ASSUME ShipInv, PowerLoss
  PROVE  ShipInv'
<1> USE DEF PowerLoss
<1>1. log \in Seq(Contents) /\ durable \in 0..Len(log) /\ Len(log) \in Nat
  BY DEF ShipInv, ForwardTypes
<1>2. PICK n \in durable..Len(log) : log' = SubSeq(log, 1, n) /\ durable' = durable
  BY DEF Lose
<1>3. \A i \in 1..n : log[i] \in Contents
  BY <1>1
<1>4. log' \in Seq(Contents) /\ Len(log') = n /\ \A i \in 1..n : log'[i] = log[i]
  BY <1>1, <1>2, <1>3, SubSeqProperties
<1>5. ~lost' => ~lost /\ log' = log
  <2> SUFFICES ASSUME ~lost' PROVE ~lost /\ log' = log
    OBVIOUS
  <2>1. ~lost /\ ~(n < Len(log))
    BY <1>4
  <2>2. n = Len(log)
    BY <1>1, <2>1
  <2> QED BY <1>1, <1>4, <2>1, <2>2, SeqEqual
<1>6. ForwardTypes'
  <2>1. FreshCursor \in Cursors /\ lost' \in BOOLEAN
    BY DEF FreshCursor, Cursors
  <2> QED BY <1>1, <1>2, <1>4, <2>1 DEF ShipInv, ForwardTypes
<1>7. CursorSaved' /\ BatchSound' /\ AckedArrived'
  BY DEF ShipInv, CursorSaved, BatchSound, AckedArrived
<1>8. OfThisFile'
  BY <1>5 DEF ShipInv, OfThisFile
<1> QED BY <1>6, <1>7, <1>8 DEF ShipInv

(* Every step of the shipper and of the journal keeps ShipInv.               *)
LEMMA ShipStep == ShipInv /\ [ShipNext]_forwardVars => ShipInv'
<1> SUFFICES ASSUME ShipInv, [ShipNext]_forwardVars PROVE ShipInv'
  OBVIOUS
<1>1. CASE UNCHANGED forwardVars
  BY <1>1 DEF forwardVars, logVars, shipVars, ShipInv, ForwardTypes, CursorSaved, BatchSound,
       OfThisFile, AckedArrived
<1>2. CASE (Ship \/ Stop) /\ UNCHANGED <<logVars, lost>>
  BY <1>2, EndOfRound, ReadBatchKeeps, DeliverKeeps, PersistKeeps DEF Ship
<1> QED BY <1>1, <1>2, WrittenKeeps, PowerLossKeeps DEF ShipNext

(* DeliveredFaithfully: for any log, batch size and line lengths, over every *)
(* crash, failed delivery and failed cursor write, the cursor is never ahead *)
(* of the receiver, and until a power loss takes lines no record is skipped  *)
(* or handed over under another number (Shipper::run, read_batch).           *)
THEOREM ForwardsFaithfully == ShipSpec => []DeliveredFaithfully
<1>1. ShipInv => DeliveredFaithfully
  <2> SUFFICES ASSUME ShipInv PROVE DeliveredFaithfully
    OBVIOUS
  <2>1. \A n \in 1..saved.ack : \E m \in received : m[1] = n
    BY DEF ShipInv, AckedArrived
  <2>2. ASSUME ~lost, NEW m \in received PROVE m[1] \in 1..Len(log) /\ log[m[1]] = m[2]
    <3>1. m[1] \in 1..Len(log) /\ m = <<m[1], log[m[1]]>>
      BY <2>2 DEF ShipInv, OfThisFile, LineOf
    <3>2. PICK k : k = m[1]
      OBVIOUS
    <3>3. m[2] = log[k]
      BY <3>1, <3>2
    <3> QED BY <3>1, <3>2, <3>3
  <2>3. ASSUME ~lost, NEW n \in 1..durable, n <= saved.ack PROVE <<n, log[n]>> \in received
    <3>1. n \in 1..saved.ack
      BY <2>3 DEF ShipInv, ForwardTypes, Cursors
    <3>2. PICK m \in received : m[1] = n
      BY <2>1, <3>1
    <3>3. m = <<m[1], log[m[1]]>>
      BY <2>3 DEF ShipInv, OfThisFile, LineOf
    <3> QED BY <3>2, <3>3
  <2> QED BY <2>1, <2>2, <2>3 DEF DeliveredFaithfully, NoneSkipped
<1> QED
  BY <1>1, ShipInitial, ShipStep, PTL DEF ShipSpec

=============================================================================
