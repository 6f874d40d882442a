------------------------------- MODULE Admin -------------------------------
(***************************************************************************)
(* The admin API of src/src/server/admin.rs, behind require_bearer: a       *)
(* bounded number of requests, each handed to a detached task that asks the *)
(* mutation gate, appends its durable intent and then takes effect.  Three  *)
(* mutexes order the mutations: one for sessions and artifacts, one inside  *)
(* the policy, one inside the revocation list.  The kinds of mutation take  *)
(* them, and ask the gate, in different orders.                             *)
(*                                                                         *)
(* The bundles' own files and watcher are Bundle's, the loop that closes    *)
(* sessions is Sessions'; the journal is known by what an append returns.   *)
(***************************************************************************)
EXTENDS Integers, FiniteSets, Sequences

CONSTANTS Asks,        \* requests of administrators, each handled once
          Permits,     \* the semaphore's size
          Targets,     \* session and artifact ids, versions of documents
          Unheld,      \* a mutex nobody holds
          MaxRecords   \* bound: admin_mutation records

ASSUME AdminConstants ==
  Permits \in Nat \ {0} /\ MaxRecords \in Nat /\ Unheld \notin Asks /\ IsFiniteSet(Asks)

VARIABLES
  areq,    \* per request: its step, mutation, target, record and answer
  held,    \* per mutex, the request whose task holds it
  trail,   \* admin_mutation records in the journal: [ask, kind, target]
  late,    \* requests whose append timed out and may still reach the journal
  stock,   \* [sessions, artifacts]: the process's own
  force    \* per document, the version in force and the record it came with

adminVars == <<areq, held, trail, late, stock, force>>

Arriving == [pc |-> "new", kind |-> "none", approved |-> FALSE, target |-> "none",
             seq |-> 0, answer |-> "none"]

Stocks == {"sessions", "artifacts"}
Documents == {"policy", "deny-list"}
Mutexes == {"mutations"} \cup Documents

AdminInit ==
  /\ areq = [r \in Asks |-> Arriving]
  /\ held = [m \in Mutexes |-> Unheld]
  /\ trail = <<>> /\ late = {}
  /\ stock = [s \in Stocks |-> Targets]
  /\ force = [d \in Documents |-> [version |-> "none", seq |-> 0]]

-----------------------------------------------------------------------------
(* What an operation is.                                                    *)

Kinds == {"sessions/revoke", "artifacts/purge", "policy/reload", "policy/install",
          "deny-list/replace"}

StockOf(kind) == IF kind = "sessions/revoke" THEN "sessions" ELSE "artifacts"
DocumentOf(kind) == IF kind = "deny-list/replace" THEN "deny-list" ELSE "policy"
OnStock(kind) == kind \in {"sessions/revoke", "artifacts/purge"}
MutexOf(kind) == IF OnStock(kind) THEN "mutations" ELSE DocumentOf(kind)

\* The steps of a mutation in their order: verify, gate, lock, backend, stage, record, effect.
\* apply_candidate starts an approved one where the gate has been passed.
FirstStep(kind, approved) ==
  CASE ~approved /\ kind = "policy/reload"  -> "gate"
    [] ~approved /\ kind = "policy/install" -> "verify"
    [] OTHER                                -> "lock"

AfterLock(kind) == IF OnStock(kind) THEN "backend" ELSE "stage"
AfterStage(kind, approved) == IF kind = "deny-list/replace" /\ ~approved THEN "gate" ELSE "record"
AfterGate(kind) == IF kind \in {"policy/reload", "policy/install"} THEN "lock" ELSE "record"

\* The match of execute.
AdminRoutes ==
  {<<"GET", "policy">>, <<"POST", "policy/validate">>, <<"POST", "policy/diff">>,
   <<"POST", "policy/explain">>, <<"POST", "policy/reload">>, <<"GET", "sessions">>,
   <<"GET", "artifacts">>, <<"POST", "sessions/revoke">>, <<"POST", "artifacts/purge">>,
   <<"GET", "deny-list">>, <<"PUT", "deny-list">>, <<"PUT", "policy">>,
   <<"POST", "principals/lookup">>, <<"POST", "usage">>, <<"POST", "reports/access-review">>,
   <<"POST", "reports/activity">>}
Operations == {route[2] : route \in AdminRoutes}

KindOf(method, name) ==
  CASE <<method, name>> = <<"PUT", "policy">>    -> "policy/install"
    [] <<method, name>> = <<"PUT", "deny-list">> -> "deny-list/replace"
    [] method = "POST" /\ name \in Kinds         -> name
    [] OTHER                                     -> "read"

\* What a read may answer: a body that does not decode, an unknown tool or
\* environment (explain), a bound that is no instant (activity); a backend that is
\* missing or fails.
ReadAnswers(method) == {"ok", "unavailable"} \cup (IF method = "POST" THEN {"invalid"} ELSE {})

\* read and diff of the policy and of the deny-list wait for the document's mutex.
ReadMutex(name) == CASE name \in {"policy", "policy/diff"} -> {"policy"}
                     [] name = "deny-list" -> {"deny-list"} [] OTHER -> {}

-----------------------------------------------------------------------------
Steps == {"verify", "gate", "lock", "backend", "stage", "record", "effect"}

Holding == {r \in Asks : areq[r].pc \in Steps \cup {"body"}}

AtStep(r, step) == areq[r].pc = step

ToStep(r, step) == areq' = [areq EXCEPT ![r].pc = step]

\* The guard goes with the task.
Unlocked(r) == [m \in Mutexes |-> IF held[m] = r THEN Unheld ELSE held[m]]

Answer(r, answer) ==
  /\ areq' = [areq EXCEPT ![r].pc = "done", ![r].answer = answer]
  /\ held' = Unlocked(r)

\* dispatch: a permit, or 429.
Arrive(r) ==
  /\ AtStep(r, "new")
  /\ areq' = [areq EXCEPT ![r].pc = IF Cardinality(Holding) < Permits THEN "body" ELSE "done",
                          ![r].answer = IF Cardinality(Holding) < Permits THEN "none" ELSE "busy"]
  /\ UNCHANGED <<held, trail, late, stock, force>>

\* The client goes away while its body is read: the handler is dropped, with its
\* permit.  Later the task goes on without it, and nothing changes.
ClientGoesAnywhere(r) ==
  /\ areq[r].pc \in Steps \cup {"body"}
  /\ ToStep(r, "gone")
  /\ held' = Unlocked(r)
  /\ UNCHANGED <<trail, late, stock, force>>

ClientGoes(r) ==
  /\ AtStep(r, "body")
  /\ ToStep(r, "gone")
  /\ UNCHANGED <<held, trail, late, stock, force>>

\* A query, a body over the limit, an operation or a method that is not there, a
\* read, or a mutation whose body decodes or does not.
Refuse(r) ==
  /\ AtStep(r, "body")
  /\ \E answer \in {"invalid", "too large"} : Answer(r, answer)
  /\ UNCHANGED <<trail, late, stock, force>>

Execute(r, method, name) ==
  /\ AtStep(r, "body")
  /\ LET there == <<method, name>> \in AdminRoutes
         kind == KindOf(method, name) IN
       \/ /\ ~there
          /\ Answer(r, IF name \in Operations THEN "method not allowed" ELSE "not found")
       \/ /\ there /\ kind = "read"
          /\ \A m \in ReadMutex(name) : held[m] = Unheld
          /\ \E answer \in ReadAnswers(method) : Answer(r, answer)
       \/ /\ there /\ kind # "read"
          /\ \E answer \in {"invalid", "unavailable"} : Answer(r, answer)
       \/ /\ there /\ kind # "read"
          /\ \E t \in Targets :
               areq' = [areq EXCEPT ![r].pc = FirstStep(kind, FALSE), ![r].kind = kind, ![r].target = t]
          /\ UNCHANGED held
  /\ UNCHANGED <<trail, late, stock, force>>

\* apply_candidate, for an extension's operation: documents only.
ApplyCandidate(r, kind) ==
  /\ AtStep(r, "body")
  /\ IF OnStock(kind) \/ kind = "policy/reload" THEN Answer(r, "unavailable")
     ELSE /\ \E t \in Targets :
               areq' = [areq EXCEPT ![r].pc = FirstStep(kind, TRUE), ![r].kind = kind,
                                    ![r].approved = TRUE, ![r].target = t]
          /\ UNCHANGED held
  /\ UNCHANGED <<trail, late, stock, force>>

-----------------------------------------------------------------------------
(* The steps of a mutation.                                                 *)

\* verify of the policy port, before the gate sees the candidate.
VerifyCandidate(r) ==
  /\ AtStep(r, "verify")
  /\ \/ ToStep(r, "gate") /\ UNCHANGED held
     \/ \E answer \in {"invalid", "unavailable"} : Answer(r, answer)
  /\ UNCHANGED <<trail, late, stock, force>>

\* admit: apply, deferred into a proposal, refused, or its own journal failed.
Admit(r) ==
  /\ AtStep(r, "gate")
  /\ \/ ToStep(r, AfterGate(areq[r].kind)) /\ UNCHANGED held
     \/ \E answer \in {"deferred", "conflict", "audit failed"} : Answer(r, answer)
  /\ UNCHANGED <<trail, late, stock, force>>

TakeMutex(r) ==
  /\ AtStep(r, "lock") /\ held[MutexOf(areq[r].kind)] = Unheld
  /\ held' = [held EXCEPT ![MutexOf(areq[r].kind)] = r]
  /\ ToStep(r, AfterLock(areq[r].kind))
  /\ UNCHANGED <<trail, late, stock, force>>

Backend(r) ==
  /\ AtStep(r, "backend")
  /\ \/ ToStep(r, "gate") /\ UNCHANGED held
     \/ Answer(r, "unavailable")
  /\ UNCHANGED <<trail, late, stock, force>>

\* Mutant: the document's mutex guards the staging only.
StageThenUnlock(r) ==
  /\ AtStep(r, "stage")
  /\ \/ /\ areq' = [areq EXCEPT ![r].pc = AfterStage(areq[r].kind, areq[r].approved)]
        /\ held' = Unlocked(r)
     \/ Answer(r, "invalid")
  /\ UNCHANGED <<trail, late, stock, force>>

\* stage, stage_candidate under the document's mutex.  A reload stages what the
\* files hold, which may be what is in force already.
Stage(r) ==
  /\ AtStep(r, "stage")
  /\ \/ /\ \E t \in IF areq[r].kind = "policy/reload" THEN Targets \cup {"unchanged"}
                    ELSE {areq[r].target} :
             areq' = [areq EXCEPT ![r].target = t,
                                  ![r].pc = AfterStage(areq[r].kind, areq[r].approved)]
        /\ UNCHANGED held
     \/ \E answer \in {"invalid", "unavailable"} : Answer(r, answer)
  /\ UNCHANGED <<trail, late, stock, force>>

Intent(r) == [ask |-> r, kind |-> areq[r].kind, target |-> areq[r].target]

\* record: the intent is durable, or the append fails or times out, in which case
\* it may still be written later.
Record(r) ==
  /\ AtStep(r, "record")
  /\ \/ /\ Len(trail) < MaxRecords
        /\ trail' = Append(trail, Intent(r))
        /\ areq' = [areq EXCEPT ![r].pc = "effect", ![r].seq = Len(trail) + 1]
        /\ UNCHANGED <<held, late>>
     \/ /\ Answer(r, "audit failed")
        /\ late' \in {late, late \cup {r}}
        /\ UNCHANGED trail
  /\ UNCHANGED <<stock, force>>

LateRecord(r) ==
  /\ r \in late /\ Len(trail) < MaxRecords
  /\ trail' = Append(trail, Intent(r))
  /\ late' = late \ {r}
  /\ UNCHANGED <<areq, held, stock, force>>

\* revoke and purge of one id, which close or delete it, or fail on the way.
TakesEffect(r) ==
  /\ AtStep(r, "effect") /\ OnStock(areq[r].kind)
  /\ LET s == StockOf(areq[r].kind)
         closed == [stock EXCEPT ![s] = @ \ {areq[r].target}] IN
       \/ /\ areq[r].target \in stock[s]
          /\ \/ stock' = closed /\ Answer(r, "ok")
             \/ stock' \in {stock, closed} /\ Answer(r, "unavailable")
       \/ /\ areq[r].target \notin stock[s]
          /\ Answer(r, "not found")
          /\ UNCHANGED stock
  /\ UNCHANGED <<trail, late, force>>

\* The files, which may fail to be written, then commit; a replaced deny-list also
\* closes the process's sessions, and one that has gone meanwhile ends that.
CommitsDocument(r) ==
  /\ AtStep(r, "effect") /\ ~OnStock(areq[r].kind)
  /\ \/ /\ areq[r].kind # "policy/reload"
        /\ Answer(r, "unavailable")
        /\ UNCHANGED <<stock, force>>
     \/ /\ force' = IF areq[r].target = "unchanged" THEN force
                    ELSE [force EXCEPT ![DocumentOf(areq[r].kind)] =
                            [version |-> areq[r].target, seq |-> areq[r].seq]]
        /\ IF areq[r].kind = "deny-list/replace"
           THEN \E left \in SUBSET stock["sessions"] :
                  /\ stock' = [stock EXCEPT !["sessions"] = left]
                  /\ Answer(r, IF left = {} THEN "ok" ELSE "not found")
           ELSE Answer(r, "ok") /\ UNCHANGED stock
  /\ UNCHANGED <<trail, late>>

\* Sessions and artifacts come and go.
Comes(s, t) ==
  /\ stock' \in {[stock EXCEPT ![s] = @ \cup {t}], [stock EXCEPT ![s] = @ \ {t}]}
  /\ UNCHANGED <<areq, held, trail, late, force>>

Methods == {"GET", "POST", "PUT"}
Names == Operations \cup {"elsewhere"}

AdminStep(r) ==
  \/ Arrive(r) \/ ClientGoes(r) \/ Refuse(r)
  \/ \E method \in Methods, name \in Names : Execute(r, method, name)
  \/ \E kind \in Kinds : ApplyCandidate(r, kind)
  \/ VerifyCandidate(r) \/ Admit(r) \/ TakeMutex(r) \/ Backend(r) \/ Stage(r)
  \/ Record(r) \/ LateRecord(r) \/ TakesEffect(r) \/ CommitsDocument(r)

AdminNext ==
  \/ \E r \in Asks : AdminStep(r)
  \/ \E s \in Stocks, t \in Targets : Comes(s, t)

AdminSpec == AdminInit /\ [][AdminNext]_adminVars

-----------------------------------------------------------------------------
Effective(r) == areq[r].pc = "done" /\ areq[r].seq # 0

Recorded(r) == areq[r].seq \in 1..Len(trail) /\ trail[areq[r].seq] = Intent(r)

(* Every admin mutation is a durable record before it is an effect, with    *)
(* the version or the id it then takes effect on (execute, reload, install, *)
(* install_deny_list).                                                      *)
IntentFirst ==
  /\ \A r \in Asks : AtStep(r, "effect") \/ Effective(r) => Recorded(r)
  /\ \A d \in Documents : force[d].seq # 0 =>
       /\ force[d].seq \in 1..Len(trail)
       /\ trail[force[d].seq].target = force[d].version
       /\ DocumentOf(trail[force[d].seq].kind) = d

(* What is in force is what the last intent of a mutation that took effect  *)
(* says: the document's mutex spans the record and the commit, so no two    *)
(* mutations record in one order and commit in the other.                   *)
LastIntentInForce ==
  \A r \in Asks :
    Effective(r) /\ areq[r].answer \in {"ok", "not found"} /\ ~OnStock(areq[r].kind)
                 /\ areq[r].target # "unchanged"
      => areq[r].seq <= force[DocumentOf(areq[r].kind)].seq

(* A client that goes away never leaves an intent without its effect        *)
(* (dispatch's detached task), and there are no more tasks than permits.    *)
TasksDetached ==
  /\ \A r \in Asks, n \in 1..Len(trail) : AtStep(r, "gone") => trail[n].ask # r
  /\ Cardinality(Holding) <= Permits

(* What an administrator may rely on (execute, dispatch): an effect has its *)
(* durable intent, the last one recorded rules, a client that disconnects   *)
(* leaves neither half, and the tasks are bounded.                          *)
AdminEvidenced == IntentFirst /\ LastIntentInForce /\ TasksDetached
=============================================================================
