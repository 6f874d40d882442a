------------------------------ MODULE ToolCall ------------------------------
(***************************************************************************)
(* A tool call in enterprise mode: begin_enterprise_call, the dispatch and  *)
(* record_outcome of src/src/tools/mod.rs, the egress chokepoint of         *)
(* src/src/policy/egress.rs and the call's egress log of                    *)
(* src/src/policy/scope.rs, over the journal as AuditLog describes it.      *)
(*                                                                         *)
(* Evidence first, dispatch second: a call's intent is journaled before the *)
(* vendor is contacted, every outbound request is authorized and noted, and *)
(* the outcome is journaled by a task of its own that outlives the caller's *)
(* patience.  What policy decides is left open: any call and any outbound   *)
(* request may be allowed or denied.                                        *)
(***************************************************************************)
EXTENDS Integers, Sequences, FiniteSets

CONSTANTS Calls,      \* tool calls, each made once
          MaxEgress,  \* MAX_EGRESS_RECORDS
          MaxAsks,    \* bound: outbound requests one call authorizes
          MaxSends,   \* bound: attempts one call puts on the wire
          MaxStarts   \* bound: processes started

ASSUME CallConstants == MaxEgress \in Nat /\ MaxAsks \in Nat /\ MaxSends \in Nat /\ IsFiniteSet(Calls)

VARIABLES
  log, durable, answer, place,   \* the journal, as AuditLog has them
  queue,     \* records in the channel to the journal's writer, in any order
  refuses,   \* the journal refuses everything until a restart
  run,       \* "serving", "draining" or "down"
  starts,    \* processes started so far
  call,      \* per call: where it stands
  sent       \* per call: attempts that went on the wire

Kinds == {"intent", "egress", "outcome"}

CallRecords == Calls \X Kinds

Audit == INSTANCE AuditLog WITH Records <- CallRecords, Others <- {},
                                MaxLog <- 3 * Cardinality(Calls)

logVars == <<log, durable, answer, place>>
procVars == <<queue, refuses, run, starts>>
callVars == <<logVars, procVars, call, sent>>

Intent(c) == <<c, "intent">>
Egress(c) == <<c, "egress">>
Outcome(c) == <<c, "outcome">>

-----------------------------------------------------------------------------
(* A call: its step, the verdict on it, and its scope's egress log.  The    *)
(* log holds, per noted request, the attempts made, or Denied.              *)

Denied == -1

Idle == [pc |-> "idle", allow |-> FALSE, notes |-> <<>>, omitted |-> 0,
         ticket |-> 0, summary |-> <<>>]

CallInit ==
  /\ Audit!LogInit
  /\ queue = {}
  /\ refuses = FALSE
  /\ run = "serving"
  /\ starts = 1
  /\ call = [c \in Calls |-> Idle]
  /\ sent = [c \in Calls |-> 0]

CallAt(c, label) == run # "down" /\ call[c].pc = label

CallTo(c, label) == call' = [call EXCEPT ![c].pc = label]

\* AuditSink::append: the record enters the writer's channel.
Journal(r) ==
  /\ Audit!Submit(r)
  /\ queue' = queue \cup {r}

\* begin_enterprise_call: decide, then journal the intent, allow or deny alike.
BeginCall(c) ==
  /\ run = "serving"
  /\ CallAt(c, "idle")
  /\ Journal(Intent(c))
  /\ \E allow \in BOOLEAN :
       call' = [call EXCEPT ![c].pc = "intent", ![c].allow = allow]
  /\ UNCHANGED <<refuses, run, starts, sent>>

\* Mutant: a denial gets an outcome record like a dispatch.
DenyRecordsOutcome(c) ==
  /\ CallAt(c, "intent")
  /\ answer[Intent(c)] = "ok"
  /\ CallTo(c, IF call[c].allow THEN "running" ELSE "denied")
  /\ IF call[c].allow THEN UNCHANGED <<logVars, queue>> ELSE Journal(Outcome(c))
  /\ UNCHANGED <<refuses, run, starts, sent>>

\* The intent is durable: dispatch, or refuse what policy denied.
IntentAcked(c) ==
  /\ CallAt(c, "intent")
  /\ answer[Intent(c)] = "ok"
  /\ CallTo(c, IF call[c].allow THEN "running" ELSE "denied")
  /\ UNCHANGED <<logVars, procVars, sent>>

\* The journal failed the intent: refuse the call.
IntentFailed(c) ==
  /\ CallAt(c, "intent")
  /\ answer[Intent(c)] = "failed"
  /\ CallTo(c, "refused")
  /\ UNCHANGED <<logVars, procVars, sent>>

\* Mutants: an append that times out lets the call through; appends that are
\* not bounded.
TimeoutDispatches(c) ==
  /\ CallAt(c, "intent")
  /\ Audit!GiveUp(Intent(c))
  /\ CallTo(c, IF call[c].allow THEN "running" ELSE "denied")
  /\ UNCHANGED <<procVars, sent>>

NoTimeout(c) ==
  /\ CallAt(c, "intent")
  /\ answer[Intent(c)] = "idle"
  /\ CallTo(c, "refused")
  /\ UNCHANGED <<logVars, procVars, sent>>

\* append_bounded: not acknowledged in time.  The record stays in the channel.
IntentTimeout(c) ==
  /\ CallAt(c, "intent")
  /\ Audit!GiveUp(Intent(c))
  /\ CallTo(c, "refused")
  /\ UNCHANGED <<procVars, sent>>

-----------------------------------------------------------------------------
(* Egress: authorize, note, and only then send.                             *)

Asked(c) == Len(call[c].notes) + call[c].omitted

\* CallScope::note_egress: past the limit a request is counted, not listed.
Noted(k, entry) ==
  IF Len(k.notes) < MaxEgress
  THEN [k EXCEPT !.notes = Append(@, entry), !.ticket = Len(k.notes) + 1]
  ELSE [k EXCEPT !.omitted = @ + 1, !.ticket = MaxEgress + 1]

\* authorize_at allows: a ticket for this request.
AuthorizeAllow(c) ==
  /\ CallAt(c, "running")
  /\ Asked(c) < MaxAsks
  /\ call' = [call EXCEPT ![c] = [Noted(@, 0) EXCEPT !.pc = "ticket"]]
  /\ UNCHANGED <<logVars, procVars, sent>>

\* authorize_at denies: noted, journaled, and refused whatever becomes of that.
AuthorizeDeny(c) ==
  /\ CallAt(c, "running")
  /\ Asked(c) < MaxAsks
  /\ answer[Egress(c)] = "idle"
  /\ call' = [call EXCEPT ![c] = [Noted(@, Denied) EXCEPT !.pc = "denying"]]
  /\ Journal(Egress(c))
  /\ UNCHANGED <<refuses, run, starts, sent>>

DenyJournaled(c) ==
  /\ CallAt(c, "denying")
  /\ answer[Egress(c)] \in {"ok", "failed"}
  /\ CallTo(c, "running")
  /\ UNCHANGED <<logVars, procVars, sent>>

DenyTimeout(c) ==
  /\ CallAt(c, "denying")
  /\ Audit!GiveUp(Egress(c))
  /\ CallTo(c, "running")
  /\ UNCHANGED <<procVars, sent>>

\* Mutant: a retry overwrites the attempt before it.
AttemptedOnce(k) ==
  IF k.ticket <= Len(k.notes) THEN [k EXCEPT !.notes[k.ticket] = 1] ELSE k

\* EgressTicket::attempted: the request, or a retry of it, goes on the wire.
Attempted(k) ==
  IF k.ticket <= Len(k.notes) THEN [k EXCEPT !.notes[k.ticket] = @ + 1] ELSE k

Send(c) ==
  /\ CallAt(c, "ticket")
  /\ sent[c] < MaxSends
  /\ sent' = [sent EXCEPT ![c] = @ + 1]
  /\ call' = [call EXCEPT ![c] = Attempted(@)]
  /\ UNCHANGED <<logVars, procVars>>

\* The request is over: answered, failed, served from the cache, never sent.
RequestDone(c) ==
  /\ CallAt(c, "ticket")
  /\ CallTo(c, "running")
  /\ UNCHANGED <<logVars, procVars, sent>>

-----------------------------------------------------------------------------
(* The outcome.                                                             *)

\* record_outcome: take the egress log and hand the record to its own task.
FinishCall(c) ==
  /\ CallAt(c, "running")
  /\ Journal(Outcome(c))
  /\ call' = [call EXCEPT ![c].pc = "outcome",
                          ![c].summary = call[c].notes]
  /\ UNCHANGED <<refuses, run, starts, sent>>

OutcomeAnswered(c) ==
  /\ CallAt(c, "outcome")
  /\ answer[Outcome(c)] \in {"ok", "failed"}
  /\ CallTo(c, "done")
  /\ UNCHANGED <<logVars, procVars, sent>>

\* Mutant: the bound cancels the append itself.
OutcomeCancelled(c) ==
  /\ CallAt(c, "outcome")
  /\ Audit!GiveUp(Outcome(c))
  /\ queue' = queue \ {Outcome(c)}
  /\ CallTo(c, "done")
  /\ UNCHANGED <<refuses, run, starts, sent>>

\* The caller stops waiting; the task, tracked in pending_audit, does not.
OutcomeTimeout(c) ==
  /\ CallAt(c, "outcome")
  /\ answer[Outcome(c)] = "waiting"
  /\ CallTo(c, "done")
  /\ UNCHANGED <<logVars, procVars, sent>>

-----------------------------------------------------------------------------
(* The journal, as far as a call can tell (AuditLog; see Journal).          *)

Waiting == {r \in CallRecords : answer[r] = "waiting"}

InLog(r) == \E i \in 1..Len(log) : log[i] = r

JournalWrites(r) ==
  /\ run # "down" /\ ~refuses
  /\ r \in queue
  /\ Audit!Extend(<<r>>, {}, "failed")
  /\ queue' = queue \ {r}
  /\ UNCHANGED <<refuses, run, starts, call, sent>>

JournalSyncs ==
  /\ run # "down" /\ ~refuses
  /\ durable < Len(log)
  /\ Audit!Commit({r \in Waiting : InLog(r)})
  /\ UNCHANGED <<procVars, call, sent>>

\* A write or sync fails: everybody waiting is refused, from now on.
JournalFails ==
  /\ run # "down" /\ ~refuses
  /\ Waiting \cup queue # {}
  /\ Audit!Extend(<<>>, Waiting, "failed")
  /\ queue' = {}
  /\ refuses' = TRUE
  /\ UNCHANGED <<run, starts, call, sent>>

\* What is queued behind a failure is refused unwritten.
JournalRefuses ==
  /\ run # "down" /\ refuses
  /\ queue # {}
  /\ Audit!Extend(<<>>, Waiting, "failed")
  /\ queue' = {}
  /\ UNCHANGED <<refuses, run, starts, call, sent>>

-----------------------------------------------------------------------------
(* The process.                                                             *)

Active == {"intent", "running", "ticket", "denying", "outcome"}

\* Finished calls whose outcome is still being appended (pending_audit).
Pending == {c \in Calls : call[c].pc = "done" /\ answer[Outcome(c)] = "waiting"}

\* Every call under way, and every pending append, is gone with the process.
Stop(label) ==
  /\ run' = "down"
  /\ queue' = {}
  /\ refuses' = FALSE
  /\ call' = [c \in Calls |->
       CASE call[c].pc \in Active -> [call[c] EXCEPT !.pc = "lost"]
         [] c \in Pending         -> [call[c] EXCEPT !.pc = label]
         [] OTHER                 -> call[c]]
  /\ UNCHANGED <<starts, sent>>

\* A crash, or a power loss that takes the undurable tail of the journal.
Dies ==
  /\ run # "down"
  /\ Stop("lost")
  /\ \E n \in durable..Len(log) : Audit!Lose(n, Waiting)

\* A signal: the transport stops serving and closes.
Shutdown ==
  /\ run = "serving"
  /\ run' = "draining"
  /\ UNCHANGED <<logVars, queue, refuses, starts, call, sent>>

\* Mutant: the process exits without waiting for the tracked tasks.
ExitAtOnce ==
  /\ run = "draining"
  /\ Stop("done")
  /\ Audit!Extend(<<>>, Waiting, "lost")

\* drain_pending_audit: no tracked task is left.  (Calls still being dispatched
\* are not tracked.)
Exit ==
  /\ run = "draining"
  /\ Pending = {}
  /\ Stop("done")
  /\ Audit!Extend(<<>>, Waiting, "lost")

\* AUDIT_DRAIN_BOUND has passed: the remaining ones are reported in the log.
ExitAfterBound ==
  /\ run = "draining"
  /\ Pending # {}
  /\ Stop("reported")
  /\ Audit!Extend(<<>>, Waiting, "lost")

Restart ==
  /\ run = "down"
  /\ starts < MaxStarts
  /\ run' = "serving"
  /\ starts' = starts + 1
  /\ UNCHANGED <<logVars, queue, refuses, call, sent>>

-----------------------------------------------------------------------------
CallStep(c) ==
  \/ IntentAcked(c) \/ IntentFailed(c) \/ IntentTimeout(c)
  \/ AuthorizeAllow(c) \/ AuthorizeDeny(c) \/ DenyJournaled(c) \/ DenyTimeout(c)
  \/ Send(c) \/ RequestDone(c)
  \/ FinishCall(c) \/ OutcomeAnswered(c) \/ OutcomeTimeout(c)

JournalStep ==
  \/ JournalSyncs \/ JournalFails \/ JournalRefuses
  \/ \E r \in CallRecords : JournalWrites(r)

CallNext ==
  \/ \E c \in Calls : BeginCall(c) \/ CallStep(c)
  \/ JournalStep
  \/ Dies \/ Shutdown \/ Exit \/ ExitAfterBound \/ Restart

CallSpec == CallInit /\ [][CallNext]_callVars

\* The journal's writer keeps running (see Journal), and works off its queue.
JournalRuns ==
  /\ WF_callVars(JournalSyncs) /\ WF_callVars(JournalRefuses)
  /\ \A r \in CallRecords : WF_callVars(JournalWrites(r))

-----------------------------------------------------------------------------
Labels == {"idle", "intent", "running", "ticket", "denying", "outcome",
           "denied", "refused", "done", "lost", "reported"}

(* Types of the call's state.                                               *)
CallTypes ==
  /\ queue \subseteq CallRecords
  /\ refuses \in BOOLEAN
  /\ run \in {"serving", "draining", "down"}
  /\ \A c \in Calls :
       /\ call[c].pc \in Labels
       /\ Len(call[c].notes) <= MaxEgress
       /\ call[c].omitted \in 0..MaxAsks

(* Evidence first: whenever a call has put a request on the wire, its       *)
(* intent is in the durable part of the journal, was acknowledged to it,    *)
(* and policy had allowed it; no later crash or power loss takes it back.   *)
EvidenceFirst ==
  \A c \in Calls : sent[c] > 0 =>
    /\ call[c].allow
    /\ answer[Intent(c)] = "ok"
    /\ \E i \in 1..durable : log[i] = Intent(c)

(* A refused call is never dispatched, not even when its intent reaches the *)
(* journal after the refusal: an outcome record proves a dispatch, and it   *)
(* stands behind the intent it belongs to.                                  *)
OutcomeProvesDispatch ==
  \A c \in Calls :
    InLog(Outcome(c)) =>
      /\ call[c].pc \notin {"refused", "denied"}
      /\ \E i, j \in 1..Len(log) : i < j /\ log[i] = Intent(c) /\ log[j] = Outcome(c)

Total(notes) ==
  LET sum[i \in 0..Len(notes)] ==
        IF i = 0 THEN 0
        ELSE sum[i - 1] + IF notes[i] = Denied THEN 0 ELSE notes[i]
  IN sum[Len(notes)]

(* The outcome record accounts for the wire: its egress list names every    *)
(* attempt the call made, except those of requests it counts as omitted.    *)
EgressAccounted ==
  \A c \in Calls : call[c].pc \in {"outcome", "done"} =>
    /\ Total(call[c].summary) <= sent[c]
    /\ call[c].omitted = 0 => Total(call[c].summary) = sent[c]

(* Draining keeps its word: a call the caller was answered for has a        *)
(* durable outcome record, or the journal refused it, or its append is      *)
(* still running in a live process; a shutdown that gives up says so.       *)
DrainKeepsOutcomes ==
  \A c \in Calls : call[c].pc = "done" =>
    \/ \E i \in 1..durable : log[i] = Outcome(c)
    \/ answer[Outcome(c)] = "failed"
    \/ answer[Outcome(c)] = "waiting" /\ run # "down"

(* What the journal proves about the calls (begin_enterprise_call,          *)
(* record_outcome, drain_pending_audit): nothing was sent without durable   *)
(* evidence of the intent, an outcome proves a dispatch, and an answered    *)
(* call has its outcome.                                                    *)
EvidenceKept == EvidenceFirst /\ OutcomeProvesDispatch /\ DrainKeepsOutcomes

(* The journal may stall for ever, the caller still gets an answer.         *)
CallerAnswered ==
  \A c \in Calls : call[c].pc = "intent" ~> call[c].pc \notin Active

(* While the journal's writer runs, a call that was dispatched ends with a  *)
(* durable outcome unless the process stopped or the journal failed: what   *)
(* the module doc of policy/egress.rs says an intent without an outcome can *)
(* mean.                                                                    *)
DispatchEvidenced ==
  JournalRuns => \A c \in Calls :
    sent[c] > 0 ~>
      \/ \E i \in 1..durable : log[i] = Outcome(c)
      \/ answer[Outcome(c)] = "failed"
      \/ call[c].pc \in {"lost", "reported"}

=============================================================================
