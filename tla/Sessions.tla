------------------------------ MODULE Sessions ------------------------------
(***************************************************************************)
(* MCP sessions of the HTTP server: the reaping session manager and the     *)
(* owner check of src/src/server/session.rs, the session sweep that follows *)
(* a change of the revocation list (watch_revocations of                    *)
(* src/src/server/http.rs) and the one that follows a replacement by the    *)
(* admin API (install_deny_list of src/src/server/admin.rs).                *)
(*                                                                         *)
(* A session lives in two maps: rmcp's own (live) and the wrapper's, which  *)
(* holds its owner and when it was last seen.  Every operation touches the  *)
(* two one after the other, with an await in between, so requests, the      *)
(* reaper, sweeps and the admin API interleave there.  A client may         *)
(* disconnect at any await, which drops its request.                        *)
(***************************************************************************)
EXTENDS Integers, FiniteSets

CONSTANTS Ids,         \* session ids; rmcp never hands out the same one twice
          Users,       \* principals
          Requests,    \* HTTP requests, each handled once
          Nobody,      \* an entry nobody is bound to (owner: None)
          NoEntry,     \* no entry in the wrapper's map
          MaxChanges   \* bound: changes of the revocation list the watcher sees

ASSUME SessionConstants ==
  /\ Nobody \notin Users /\ NoEntry \notin Users /\ Nobody # NoEntry
  /\ MaxChanges \in Nat

VARIABLES
  live,      \* sessions in rmcp's LocalSessionManager
  owner,     \* the wrapper's map: per id its owner, Nobody or NoEntry
  idle,      \* entries last seen longer than idle_ttl ago
  req,       \* per request: its step, its principal and the session it names
  reaper,    \* the sweep task: its step, what it found expired, what it closes
  changes,   \* list changes so far
  sweep,     \* per change: the close_where task it spawned
  admin,     \* the deny-list replacement: its step and the rows it listed
  creator,   \* history: who created each session
  used,      \* history: who was let through to each session
  orphaned   \* history: sessions whose creator was dropped before the entry

maps == <<live, owner, idle>>
tasks == <<reaper, changes, sweep, admin>>
history == <<creator, used, orphaned>>
vars == <<maps, req, tasks, history>>

Fresh == [pc |-> "new", kind |-> "use", user |-> Nobody, id |-> NoEntry]
Asleep == [pc |-> "sleep", left |-> {}, id |-> NoEntry, all |-> {}]

Init ==
  /\ live = {}
  /\ owner = [i \in Ids |-> NoEntry]
  /\ idle = {}
  /\ req = [r \in Requests |-> Fresh]
  /\ reaper = Asleep
  /\ changes = 0
  /\ sweep = [n \in 1..MaxChanges |-> Asleep]
  /\ admin = Asleep
  /\ creator = [i \in Ids |-> NoEntry]
  /\ used = [i \in Ids |-> {}]
  /\ orphaned = {}

Entries == {i \in Ids : owner[i] # NoEntry}

At(r, label) == req[r].pc = label

Goto(r, label) == req' = [req EXCEPT ![r].pc = label]

-----------------------------------------------------------------------------
(* A request, past require_bearer.                                          *)

\* A request without a session id that initializes one.
BeginInit(r, u) ==
  /\ At(r, "new")
  /\ req' = [req EXCEPT ![r] = [pc |-> "create", kind |-> "init", user |-> u, id |-> NoEntry]]
  /\ UNCHANGED <<maps, tasks, history>>

\* A request that names a session: a message, a stream, or a DELETE.
BeginUse(r, u, i, kind) ==
  /\ At(r, "new")
  /\ creator[i] # NoEntry
  /\ req' = [req EXCEPT ![r] = [pc |-> "owner", kind |-> kind, user |-> u, id |-> i]]
  /\ UNCHANGED <<maps, tasks, history>>

\* create_session of rmcp.
CreateInner(r, i) ==
  /\ At(r, "create")
  /\ creator[i] = NoEntry
  /\ live' = live \cup {i}
  /\ creator' = [creator EXCEPT ![i] = req[r].user]
  /\ req' = [req EXCEPT ![r].pc = "bump_created", ![r].id = i]
  /\ UNCHANGED <<owner, idle, tasks, used, orphaned>>

\* Mutant: bump updates entries and makes none.
BumpKnown(i) ==
  /\ owner' = owner
  /\ idle' = idle \ {i}

\* bump: seen now; an unknown id is entered, unbound.
Bump(i) ==
  /\ owner' = [owner EXCEPT ![i] = IF @ = NoEntry THEN Nobody ELSE @]
  /\ idle' = idle \ {i}

Bumped(r, from, to) ==
  /\ At(r, from)
  /\ Bump(req[r].id)
  /\ Goto(r, to)
  /\ UNCHANGED <<live, tasks, history>>

\* Mutant: a session nobody owns yet is anybody's.
MatchesUnbound(i, u) == owner[i] \in {u, Nobody}

OwnerMatches(i, u) == owner[i] = u

\* enforce_session_owner: 404 unless the session is bound to the requester.
CheckOwner(r) ==
  /\ At(r, "owner")
  /\ Goto(r, IF ~OwnerMatches(req[r].id, req[r].user) THEN "done"
             ELSE IF req[r].kind = "delete" THEN "close" ELSE "has")
  /\ UNCHANGED <<maps, tasks, history>>

\* rmcp's part of has_session, initialize_session, create_stream, ...: it works
\* on a live session only, and only then the wrapper bumps.
Inner(r, from, to) ==
  /\ At(r, from)
  /\ IF req[r].id \in live
     THEN /\ Goto(r, to)
          /\ used' = [used EXCEPT ![req[r].id] = @ \cup {req[r].user}]
     ELSE Goto(r, "done") /\ UNCHANGED used
  /\ UNCHANGED <<maps, tasks, creator, orphaned>>

\* bind_owner on the initialize response: only the first binding sticks.
BindOwner(r) ==
  /\ At(r, "bind")
  /\ owner' = [owner EXCEPT ![req[r].id] =
                 IF @ \in {Nobody, NoEntry} THEN req[r].user ELSE @]
  /\ idle' = IF owner[req[r].id] = NoEntry THEN idle \ {req[r].id} ELSE idle
  /\ Goto(r, "done")
  /\ UNCHANGED <<live, tasks, history>>

\* close_session: rmcp's map, then ours.
CloseInner(r) ==
  /\ At(r, "close")
  /\ live' = live \ {req[r].id}
  /\ Goto(r, "forget")
  /\ UNCHANGED <<owner, idle, tasks, history>>

Forget(i) ==
  /\ owner' = [owner EXCEPT ![i] = NoEntry]
  /\ idle' = idle \ {i}

CloseForget(r) ==
  /\ At(r, "forget")
  /\ Forget(req[r].id)
  /\ Goto(r, "done")
  /\ UNCHANGED <<live, tasks, history>>

\* The client disconnects: the request is dropped where it waits.
Disconnect(r) ==
  /\ req[r].pc \notin {"new", "done"}
  /\ orphaned' = IF At(r, "bump_created") THEN orphaned \cup {req[r].id} ELSE orphaned
  /\ Goto(r, "done")
  /\ UNCHANGED <<maps, tasks, creator, used>>

\* An entry is not seen for idle_ttl.
GoIdle(i) ==
  /\ i \in Entries \ idle
  /\ idle' = idle \cup {i}
  /\ UNCHANGED <<live, owner, req, tasks, history>>

-----------------------------------------------------------------------------
(* The tasks that close sessions: each takes a list under the read lock and *)
(* closes its rows one by one, without it.                                  *)

Listed(ids) == [pc |-> "next", left |-> ids, id |-> NoEntry, all |-> ids]

\* Mutant: entries whose session is gone are passed over.
ReapListLive ==
  /\ reaper.pc = "sleep"
  /\ reaper' = Listed(idle \cap live)
  /\ UNCHANGED <<maps, req, changes, sweep, admin, history>>

\* reap_once: the entries that are idle now.
ReapList ==
  /\ reaper.pc = "sleep"
  /\ reaper' = Listed(idle)
  /\ UNCHANGED <<maps, req, changes, sweep, admin, history>>

ReapClose(i) ==
  /\ reaper.pc = "next" /\ i \in reaper.left
  /\ live' = live \ {i}
  /\ reaper' = [reaper EXCEPT !.pc = "forget", !.left = @ \ {i}, !.id = i]
  /\ UNCHANGED <<owner, idle, req, changes, sweep, admin, history>>

ReapForget ==
  /\ reaper.pc = "forget"
  /\ Forget(reaper.id)
  /\ reaper' = [reaper EXCEPT !.pc = "next"]
  /\ UNCHANGED <<live, req, changes, sweep, admin, history>>

ReapDone ==
  /\ reaper.pc = "next" /\ reaper.left = {}
  /\ reaper' = Asleep
  /\ UNCHANGED <<maps, req, changes, sweep, admin, history>>

\* The watcher commits a new list: a task is spawned that will close the
\* sessions of revoked users, or of everybody when the cut-off moved.
ListChanges(us) ==
  /\ changes < MaxChanges
  /\ changes' = changes + 1
  /\ sweep' = [sweep EXCEPT ![changes + 1] =
                 [pc |-> "list", left |-> us, id |-> NoEntry, all |-> {}]]
  /\ UNCHANGED <<maps, req, reaper, admin, history>>

SweepList(n) ==
  /\ sweep[n].pc = "list"
  /\ sweep' = [sweep EXCEPT ![n] = Listed({i \in Ids : owner[i] \in sweep[n].left})]
  /\ UNCHANGED <<maps, req, reaper, changes, admin, history>>

SweepClose(n, i) ==
  /\ sweep[n].pc = "next" /\ i \in sweep[n].left
  /\ live' = live \ {i}
  /\ sweep' = [sweep EXCEPT ![n].pc = "forget", ![n].left = @ \ {i}, ![n].id = i]
  /\ UNCHANGED <<owner, idle, req, reaper, changes, admin, history>>

SweepForget(n) ==
  /\ sweep[n].pc = "forget"
  /\ Forget(sweep[n].id)
  /\ sweep' = [sweep EXCEPT ![n].pc = IF sweep[n].left = {} THEN "done" ELSE "next"]
  /\ UNCHANGED <<live, req, reaper, changes, admin, history>>

\* install_deny_list, the list committed: every session in the map.
AdminList ==
  /\ admin.pc = "sleep"
  /\ admin' = Listed(Entries)
  /\ UNCHANGED <<maps, req, reaper, changes, sweep, history>>

\* revoke: the next row is still there; close it.
AdminClose(i) ==
  /\ admin.pc = "next" /\ i \in admin.left
  /\ i \in Entries
  /\ live' = live \ {i}
  /\ admin' = [admin EXCEPT !.pc = "forget", !.left = @ \ {i}, !.id = i]
  /\ UNCHANGED <<owner, idle, req, reaper, changes, sweep, history>>

AdminForget ==
  /\ admin.pc = "forget"
  /\ Forget(admin.id)
  /\ admin' = [admin EXCEPT !.pc = "next"]
  /\ UNCHANGED <<live, req, reaper, changes, sweep, history>>

\* revoke: the row has gone.  The handler answers 404.
AdminNotFound(i) ==
  /\ admin.pc = "next" /\ i \in admin.left
  /\ i \notin Entries
  /\ admin' = [admin EXCEPT !.pc = "done"]
  /\ UNCHANGED <<maps, req, reaper, changes, sweep, history>>

AdminDone ==
  /\ admin.pc = "next" /\ admin.left = {}
  /\ admin' = [admin EXCEPT !.pc = "done"]
  /\ UNCHANGED <<maps, req, reaper, changes, sweep, history>>

-----------------------------------------------------------------------------
RequestStep(r) ==
  \/ \E i \in Ids : CreateInner(r, i)
  \/ Bumped(r, "bump_created", "initialize")
  \/ Inner(r, "initialize", "bump_init") \/ Bumped(r, "bump_init", "bind")
  \/ BindOwner(r)
  \/ CheckOwner(r)
  \/ Inner(r, "has", "bump_has") \/ Bumped(r, "bump_has", "op")
  \/ Inner(r, "op", "bump_op") \/ Bumped(r, "bump_op", "done")
  \/ CloseInner(r) \/ CloseForget(r)
  \/ Disconnect(r)

Reap == ReapList \/ ReapForget \/ ReapDone \/ \E i \in Ids : ReapClose(i)

Sweep(n) == SweepList(n) \/ SweepForget(n) \/ \E i \in Ids : SweepClose(n, i)

Replace ==
  \/ AdminList \/ AdminForget \/ AdminDone
  \/ \E i \in Ids : AdminClose(i) \/ AdminNotFound(i)

Next ==
  \/ \E r \in Requests :
       \/ \E u \in Users : BeginInit(r, u)
       \/ \E u \in Users, i \in Ids, kind \in {"use", "delete"} : BeginUse(r, u, i, kind)
       \/ RequestStep(r)
  \/ \E i \in Ids : GoIdle(i)
  \/ Reap
  \/ \E us \in SUBSET Users : ListChanges(us)
  \/ \E n \in 1..MaxChanges : Sweep(n)
  \/ Replace

Spec == Init /\ [][Next]_vars

\* Time passes for an entry nobody touches, and the runtime runs its tasks.
Fairness ==
  /\ \A r \in Requests : WF_vars(RequestStep(r))
  /\ \A i \in Ids : WF_vars(GoIdle(i))
  /\ WF_vars(Reap)
  /\ \A n \in 1..MaxChanges : WF_vars(Sweep(n))

-----------------------------------------------------------------------------
Tasks == [pc : {"sleep", "list", "next", "forget", "done"},
          left : SUBSET (Ids \cup Users), id : Ids \cup {NoEntry}, all : SUBSET Ids]

(* Types of the two maps, the requests and the closing tasks.               *)
TypeOK ==
  /\ live \subseteq Ids /\ idle \subseteq Entries
  /\ owner \in [Ids -> Users \cup {Nobody, NoEntry}]
  /\ \A r \in Requests : req[r].id \in Ids \cup {NoEntry}
  /\ reaper \in Tasks /\ admin \in Tasks
  /\ sweep \in [1..MaxChanges -> Tasks]

(* A session id is not a capability: only the principal that created a      *)
(* session is ever let through to it, whatever closes, re-entries of the    *)
(* map and late bindings happen in between.                                 *)
OnlyOwnerUses == \A i \in Ids : used[i] \subseteq {creator[i]}

(* Every live session can be found by the reaper, the sweeps and the admin  *)
(* list: it has an entry, or its creator is about to make one (or was       *)
(* dropped right there).                                                    *)
LiveIsListed ==
  \A i \in live : \/ i \in Entries \cup orphaned
                  \/ \E r \in Requests : At(r, "bump_created") /\ req[r].id = i

(* Sessions nobody touches end: once the requests are over, every entry and *)
(* every live session that has one is gone in the end, entries without a    *)
(* session included.                                                        *)
IdleSessionsEnd ==
  <>[](owner = [i \in Ids |-> NoEntry] /\ live \subseteq orphaned)

(* The comment in install_deny_list: "All process sessions are closed", and *)
(* the runbook: "process sessions are closed after an update".  So when the *)
(* replacement is over, no session it listed is left.                       *)
ReplaceClosesAll == admin.pc = "done" => live \cap admin.all = {}

=============================================================================
