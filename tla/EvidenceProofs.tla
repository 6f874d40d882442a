---------------------------- MODULE EvidenceProofs ----------------------------
(***************************************************************************)
(* Proofs about tool calls, their evidence and their egress log (ToolCall), *)
(* for any number of calls, outbound requests, attempts, processes, crashes *)
(* and power losses and any limit of the log; about the adapters that hand  *)
(* a copy of the journal to a receiver (Forwarders), for batches of any     *)
(* size and any number of connections; and about the usage channel, its     *)
(* consumer and the reports (Rollups), for any capacity, batch, retention   *)
(* and table.                                                               *)
(***************************************************************************)
EXTENDS ToolCall, Forwarders, Rollups, FiniteSetTheorems, SequenceTheorems, WellFoundedInduction,
        TLAPS

-----------------------------------------------------------------------------
(* The inductive invariant.                                                *)

CallState == [pc : Labels, allow : BOOLEAN, notes : Seq(Int), omitted : Nat, ticket : Nat,
              summary : Seq(Int)]

Told == {"idle", "waiting", "ok", "failed", "abandoned", "lost"}

\* What the journal holds, and what its callers were told of it.
LogTypes ==
  /\ log \in Seq(CallRecords) /\ durable \in Nat /\ durable <= Len(log)
  /\ answer \in [CallRecords -> Told]

Promised(r) == answer[r] = "ok" => \E i \in 1..durable : log[i] = r

\* A line or a queued record was submitted.
Submitted(r) == InLog(r) \/ r \in queue => answer[r] # "idle"

IntentBefore(c) ==
  \A j \in 1..Len(log) : log[j] = Outcome(c) => \E i \in 1..(j - 1) : log[i] = Intent(c)

LogSound ==
  /\ LogTypes
  /\ \A r \in CallRecords : Promised(r) /\ Submitted(r)
  /\ \A c \in Calls : IntentBefore(c)

ProcTypes ==
  /\ queue \subseteq CallRecords
  /\ call \in [Calls -> CallState] /\ sent \in [Calls -> Nat]

\* Where a call has been let through.
Dispatched == {"running", "ticket", "denying", "outcome", "done"}

\* What was sent, or has an outcome, was allowed on an intent that is durable.
Evidenced(c) ==
  call[c].pc \in Dispatched \/ sent[c] > 0 \/ answer[Outcome(c)] # "idle" =>
    /\ call[c].allow /\ answer[Intent(c)] = "ok"
    /\ call[c].pc \notin {"idle", "intent", "refused", "denied"}

Answered(c) ==
  call[c].pc = "done" =>
    \/ answer[Outcome(c)] \in {"ok", "failed"}
    \/ answer[Outcome(c)] = "waiting" /\ run # "down"

EvidenceInv ==
  /\ LogSound /\ ProcTypes
  /\ \A c \in Calls : Evidenced(c) /\ Answered(c)

-----------------------------------------------------------------------------
(* The records of a call. *)

LEMMA RecordsOfCall ==
  ASSUME NEW c \in Calls
  PROVE  /\ Intent(c) \in CallRecords /\ Egress(c) \in CallRecords /\ Outcome(c) \in CallRecords
         /\ Intent(c) # Outcome(c) /\ Egress(c) # Intent(c) /\ Egress(c) # Outcome(c)
         /\ \A d \in Calls : d # c => /\ Intent(c) # Intent(d) /\ Outcome(c) # Outcome(d)
                                      /\ Egress(c) # Intent(d) /\ Egress(c) # Outcome(d)
                                      /\ Intent(c) # Outcome(d)
BY DEF Intent, Egress, Outcome, CallRecords, Kinds

LEMMA NotedType ==
  ASSUME NEW k \in CallState, NEW entry \in Int, NEW label \in Labels
  PROVE  /\ [Noted(k, entry) EXCEPT !.pc = label] \in CallState
         /\ [Noted(k, entry) EXCEPT !.pc = label].pc = label
         /\ [Noted(k, entry) EXCEPT !.pc = label].allow = k.allow
<1>1. Len(k.notes) \in Nat /\ Append(k.notes, entry) \in Seq(Int) /\ k.omitted \in Nat
  BY DEF CallState
<1>2. Noted(k, entry) \in CallState /\ Noted(k, entry).allow = k.allow
  <2>1. CASE Len(k.notes) < MaxEgress
    <3> DEFINE new == [k EXCEPT !.notes = Append(k.notes, entry), !.ticket = Len(k.notes) + 1]
    <3>1. Noted(k, entry) = new
      BY <2>1, Zenon DEF Noted
    <3>2. new \in CallState /\ new.allow = k.allow
      <4> DEFINE a == Append(k.notes, entry)
                 n == Len(k.notes) + 1
      <4>1. a \in Seq(Int) /\ n \in Nat
        BY <1>1
      <4> HIDE DEF a, n
      <4>2. [k EXCEPT !.notes = a, !.ticket = n] \in CallState
        BY <4>1 DEF CallState
      <4>3. [k EXCEPT !.notes = a, !.ticket = n].allow = k.allow
        BY DEF CallState
      <4> QED
        BY <4>2, <4>3, Zenon DEF a, n
    <3> QED
      BY <3>1, <3>2
  <2>2. CASE ~(Len(k.notes) < MaxEgress)
    <3> DEFINE new == [k EXCEPT !.omitted = k.omitted + 1, !.ticket = MaxEgress + 1]
    <3>1. Noted(k, entry) = new
      BY <2>2, Zenon DEF Noted
    <3>2. new \in CallState /\ new.allow = k.allow
      <4> DEFINE m == k.omitted + 1
                 n == MaxEgress + 1
      <4>1. m \in Nat /\ n \in Nat
        BY <1>1, CallConstants
      <4> HIDE DEF m, n
      <4>2. [k EXCEPT !.omitted = m, !.ticket = n] \in CallState
        BY <4>1 DEF CallState
      <4>3. [k EXCEPT !.omitted = m, !.ticket = n].allow = k.allow
        BY DEF CallState
      <4> QED
        BY <4>2, <4>3, Zenon DEF m, n
    <3> QED
      BY <3>1, <3>2
  <2> QED
    BY <2>1, <2>2
<1> QED
  BY <1>2 DEF CallState

LEMMA AttemptedType ==
  ASSUME NEW k \in CallState
  PROVE  Attempted(k) \in CallState /\ Attempted(k).pc = k.pc /\ Attempted(k).allow = k.allow
<1>1. CASE ~(k.ticket <= Len(k.notes))
  BY <1>1 DEF Attempted
<1>2. CASE k.ticket <= Len(k.notes)
  <2> DEFINE t == k.ticket
             notes == [k.notes EXCEPT ![t] = k.notes[t] + 1]
             new == [k EXCEPT !.notes = notes]
  <2>1. k.notes \in Seq(Int) /\ t \in Nat
    BY DEF CallState
  <2>2. notes \in Seq(Int)
    <3>1. Len(k.notes) \in Nat /\ k.notes \in [1..Len(k.notes) -> Int]
      BY <2>1
    <3>2. CASE t \in 1..Len(k.notes)
      BY <2>1, <3>1, <3>2, ExceptSeq
    <3>3. CASE t \notin 1..Len(k.notes)
      <4>1. notes = k.notes
        BY <3>1, <3>3
      <4> QED
        BY <2>1, <4>1
    <3> QED
      BY <3>2, <3>3
  <2>3. Attempted(k) = new
    BY <1>2 DEF Attempted
  <2> QED
    BY <2>2, <2>3 DEF CallState
<1> QED
  BY <1>1, <1>2
-----------------------------------------------------------------------------
(* The journal's part of a call's step. *)

LEMMA LogQuiet ==
  ASSUME EvidenceInv, UNCHANGED logVars, queue' \subseteq queue
  PROVE  LogSound'
BY DEF EvidenceInv, LogSound, LogTypes, Promised, Submitted, IntentBefore, InLog, logVars

LEMMA LogSubmit ==
  ASSUME EvidenceInv, NEW r \in CallRecords, Journal(r)
  PROVE  /\ LogSound' /\ queue' \subseteq CallRecords
         /\ answer[r] = "idle" /\ answer'[r] = "waiting"
         /\ \A q \in CallRecords : q # r => answer'[q] = answer[q]
<1>1. /\ answer[r] = "idle" /\ answer' = [answer EXCEPT ![r] = "waiting"]
      /\ log' = log /\ durable' = durable /\ queue' = queue \cup {r}
  BY DEF Journal, Audit!Submit
<1>2. answer \in [CallRecords -> Told] /\ queue \subseteq CallRecords
  BY DEF EvidenceInv, LogSound, LogTypes, ProcTypes
<1>3. answer' \in [CallRecords -> Told] /\ answer'[r] = "waiting"
  BY <1>1, <1>2 DEF Told
<1>4. \A q \in CallRecords : q # r => answer'[q] = answer[q]
  BY <1>1, <1>2
<1>5. LogSound'
  BY <1>1, <1>3, <1>4 DEF EvidenceInv, LogSound, LogTypes, Promised, Submitted, IntentBefore, InLog
<1> QED
  BY <1>1, <1>2, <1>3, <1>4, <1>5

LEMMA LogGiveUp ==
  ASSUME EvidenceInv, NEW r \in CallRecords, Audit!GiveUp(r), queue' = queue
  PROVE  /\ LogSound'
         /\ answer[r] = "waiting"
         /\ \A q \in CallRecords : q # r => answer'[q] = answer[q]
<1>1. /\ answer[r] = "waiting" /\ answer' = [answer EXCEPT ![r] = "abandoned"]
      /\ log' = log /\ durable' = durable
  BY DEF Audit!GiveUp
<1>2. answer \in [CallRecords -> Told]
  BY DEF EvidenceInv, LogSound, LogTypes
<1>3. answer' \in [CallRecords -> Told] /\ answer'[r] = "abandoned"
  BY <1>1, <1>2 DEF Told
<1>4. \A q \in CallRecords : q # r => answer'[q] = answer[q]
  BY <1>1, <1>2
<1>5. LogSound'
  BY <1>1, <1>3, <1>4 DEF EvidenceInv, LogSound, LogTypes, Promised, Submitted, IntentBefore, InLog
<1> QED
  BY <1>1, <1>4, <1>5

(* One call goes on; the others and what they were told stay as they are. *)
LEMMA CallMoves ==
  ASSUME EvidenceInv, NEW c \in Calls, NEW new \in CallState, call' = [call EXCEPT ![c] = new],
         LogSound', queue' \subseteq CallRecords, run' = run, sent' \in [Calls -> Nat],
         \A d \in Calls : d # c => /\ sent'[d] = sent[d]
                                   /\ answer'[Intent(d)] = answer[Intent(d)]
                                   /\ answer'[Outcome(d)] = answer[Outcome(d)],
         Evidenced(c)', Answered(c)'
  PROVE  EvidenceInv'
<1>1. call \in [Calls -> CallState]
  BY DEF EvidenceInv, ProcTypes
<1>2. call' \in [Calls -> CallState] /\ \A d \in Calls : d # c => call'[d] = call[d]
  BY <1>1
<1>3. ProcTypes'
  BY <1>2 DEF ProcTypes
<1>4. ASSUME NEW d \in Calls, d # c PROVE Evidenced(d)' /\ Answered(d)'
  BY <1>2, <1>4 DEF EvidenceInv, Evidenced, Answered
<1> QED
  BY <1>3, <1>4 DEF EvidenceInv

(* A call goes to another step without the journal. *)
LEMMA CallGoes ==
  ASSUME EvidenceInv, NEW c \in Calls, NEW label \in Labels, CallTo(c, label),
         UNCHANGED <<logVars, procVars, sent>>,
         label \in Dispatched => call[c].allow /\ answer[Intent(c)] = "ok",
         label \in {"idle", "intent", "refused", "denied"} => call[c].pc = "intent",
         label = "done" => \/ answer[Outcome(c)] \in {"ok", "failed"}
                           \/ answer[Outcome(c)] = "waiting" /\ run # "down"
  PROVE  EvidenceInv'
<1> DEFINE new == [call[c] EXCEPT !.pc = label]
<1>1. call \in [Calls -> CallState] /\ call[c] \in CallState
  BY DEF EvidenceInv, ProcTypes
<1>2. new \in CallState /\ new.pc = label /\ new.allow = call[c].allow
  BY <1>1 DEF CallState
<1>3. call' = [call EXCEPT ![c] = new]
  BY <1>1 DEF CallTo, CallState
<1>4. call'[c] = new
  BY <1>1, <1>3
<1> HIDE DEF new
<1>5. /\ answer' = answer /\ run' = run /\ sent' = sent /\ queue' = queue
      /\ UNCHANGED logVars
  BY DEF logVars, procVars
<1>6. LogSound'
  BY <1>5, LogQuiet
<1>7. Evidenced(c)'
  BY <1>2, <1>4, <1>5 DEF EvidenceInv, Evidenced, Dispatched
<1>8. Answered(c)'
  BY <1>2, <1>4, <1>5 DEF EvidenceInv, Answered
<1> QED
  BY <1>2, <1>3, <1>5, <1>6, <1>7, <1>8, CallMoves DEF EvidenceInv, ProcTypes

-----------------------------------------------------------------------------
(* The steps of a call. *)

LEMMA StepBegin ==
  ASSUME EvidenceInv, NEW c \in Calls, BeginCall(c)
  PROVE  EvidenceInv'
<1>1. PICK allow \in BOOLEAN : call' = [call EXCEPT ![c].pc = "intent", ![c].allow = allow]
  BY DEF BeginCall
<1> DEFINE new == [call[c] EXCEPT !.pc = "intent", !.allow = allow]
<1>2. call \in [Calls -> CallState] /\ call[c] \in CallState
  BY DEF EvidenceInv, ProcTypes
<1>3. new \in CallState /\ new.pc = "intent"
  BY <1>2 DEF CallState, Labels
<1>4. call' = [call EXCEPT ![c] = new]
  BY <1>1, <1>2 DEF CallState
<1>5. call'[c] = new
  BY <1>2, <1>4
<1> HIDE DEF new
<1>6. call[c].pc = "idle" /\ Journal(Intent(c)) /\ run' = run /\ sent' = sent
  BY DEF BeginCall, CallAt
<1>7. /\ LogSound' /\ queue' \subseteq CallRecords
      /\ \A q \in CallRecords : q # Intent(c) => answer'[q] = answer[q]
  BY <1>6, LogSubmit, RecordsOfCall
<1>8. Evidenced(c)' /\ Answered(c)'
  BY <1>3, <1>5, <1>6, <1>7, RecordsOfCall DEF EvidenceInv, Evidenced, Answered, Dispatched
<1> QED
  BY <1>3, <1>4, <1>6, <1>7, <1>8, RecordsOfCall, CallMoves DEF EvidenceInv, ProcTypes

LEMMA StepIntentAnswered ==
  ASSUME EvidenceInv, NEW c \in Calls, IntentAcked(c) \/ IntentFailed(c)
  PROVE  EvidenceInv'
<1>1. call[c].pc = "intent" /\ UNCHANGED <<logVars, procVars, sent>>
  BY DEF IntentAcked, IntentFailed, CallAt
<1>2. CASE IntentFailed(c)
  BY <1>1, <1>2, CallGoes DEF IntentFailed, Labels, Dispatched
<1>3. CASE IntentAcked(c)
  <2>1. CASE call[c].allow
    BY <1>1, <1>3, <2>1, CallGoes DEF IntentAcked, Labels
  <2>2. CASE ~call[c].allow
    BY <1>1, <1>3, <2>2, CallGoes DEF IntentAcked, Labels, Dispatched
  <2> QED
    BY <2>1, <2>2
<1> QED
  BY <1>2, <1>3

LEMMA StepIntentTimeout ==
  ASSUME EvidenceInv, NEW c \in Calls, IntentTimeout(c)
  PROVE  EvidenceInv'
<1> DEFINE new == [call[c] EXCEPT !.pc = "refused"]
<1>1. /\ call[c].pc = "intent" /\ Audit!GiveUp(Intent(c)) /\ CallTo(c, "refused")
      /\ queue' = queue /\ run' = run /\ sent' = sent
  BY DEF IntentTimeout, CallAt, procVars
<1>2. call \in [Calls -> CallState] /\ call[c] \in CallState
  BY DEF EvidenceInv, ProcTypes
<1>3. new \in CallState /\ new.pc = "refused"
  BY <1>2 DEF CallState, Labels
<1>4. call' = [call EXCEPT ![c] = new]
  BY <1>1, <1>2 DEF CallState, CallTo
<1>5. call'[c] = new
  BY <1>2, <1>4
<1> HIDE DEF new
<1>6. /\ LogSound'
      /\ \A q \in CallRecords : q # Intent(c) => answer'[q] = answer[q]
  BY <1>1, LogGiveUp, RecordsOfCall
<1>7. Evidenced(c)' /\ Answered(c)'
  BY <1>1, <1>3, <1>5, <1>6, RecordsOfCall DEF EvidenceInv, Evidenced, Answered, Dispatched
<1> QED
  BY <1>1, <1>3, <1>4, <1>6, <1>7, RecordsOfCall, CallMoves DEF EvidenceInv, ProcTypes

LEMMA StepAuthorizeAllow ==
  ASSUME EvidenceInv, NEW c \in Calls, AuthorizeAllow(c)
  PROVE  EvidenceInv'
<1> DEFINE new == [Noted(call[c], 0) EXCEPT !.pc = "ticket"]
<1>1. call \in [Calls -> CallState] /\ call[c] \in CallState
  BY DEF EvidenceInv, ProcTypes
<1>2. new \in CallState /\ new.pc = "ticket" /\ new.allow = call[c].allow
  <2>1. 0 \in Int /\ "ticket" \in Labels
    BY DEF Labels
  <2> QED
    BY <1>1, <2>1, NotedType, ZenonT(60)
<1>3. call' = [call EXCEPT ![c] = new]
  BY DEF AuthorizeAllow
<1> HIDE DEF new
<1>4. call'[c] = new
  BY <1>1, <1>3
<1>5. /\ call[c].pc = "running" /\ UNCHANGED logVars /\ answer' = answer /\ queue' = queue
      /\ run' = run /\ sent' = sent
  BY DEF AuthorizeAllow, CallAt, logVars, procVars
<1>6. LogSound'
  BY <1>5, LogQuiet
<1>7. Evidenced(c)' /\ Answered(c)'
  BY <1>2, <1>4, <1>5 DEF EvidenceInv, Evidenced, Answered, Dispatched
<1> QED
  BY <1>2, <1>3, <1>5, <1>6, <1>7, CallMoves DEF EvidenceInv, ProcTypes

LEMMA StepAuthorizeDeny ==
  ASSUME EvidenceInv, NEW c \in Calls, AuthorizeDeny(c)
  PROVE  EvidenceInv'
<1> DEFINE new == [Noted(call[c], Denied) EXCEPT !.pc = "denying"]
<1>1. call \in [Calls -> CallState] /\ call[c] \in CallState
  BY DEF EvidenceInv, ProcTypes
<1>2. new \in CallState /\ new.pc = "denying" /\ new.allow = call[c].allow
  <2>1. Denied \in Int /\ "denying" \in Labels
    BY DEF Labels, Denied
  <2> QED
    BY <1>1, <2>1, NotedType, ZenonT(60)
<1>3. call' = [call EXCEPT ![c] = new]
  BY DEF AuthorizeDeny
<1> HIDE DEF new
<1>4. call'[c] = new
  BY <1>1, <1>3
<1>5. call[c].pc = "running" /\ Journal(Egress(c)) /\ run' = run /\ sent' = sent
  BY DEF AuthorizeDeny, CallAt
<1>6. /\ LogSound' /\ queue' \subseteq CallRecords
      /\ \A q \in CallRecords : q # Egress(c) => answer'[q] = answer[q]
  BY <1>5, LogSubmit, RecordsOfCall
<1>7. Evidenced(c)' /\ Answered(c)'
  BY <1>2, <1>4, <1>5, <1>6, RecordsOfCall DEF EvidenceInv, Evidenced, Answered, Dispatched
<1> QED
  BY <1>2, <1>3, <1>5, <1>6, <1>7, RecordsOfCall, CallMoves DEF EvidenceInv, ProcTypes

LEMMA StepDenyTimeout ==
  ASSUME EvidenceInv, NEW c \in Calls, DenyTimeout(c)
  PROVE  EvidenceInv'
<1> DEFINE new == [call[c] EXCEPT !.pc = "running"]
<1>1. /\ call[c].pc = "denying" /\ Audit!GiveUp(Egress(c)) /\ CallTo(c, "running")
      /\ queue' = queue /\ run' = run /\ sent' = sent
  BY DEF DenyTimeout, CallAt, procVars
<1>2. call \in [Calls -> CallState] /\ call[c] \in CallState
  BY DEF EvidenceInv, ProcTypes
<1>3. new \in CallState /\ new.pc = "running" /\ new.allow = call[c].allow
  BY <1>2 DEF CallState, Labels
<1>4. call' = [call EXCEPT ![c] = new]
  BY <1>1, <1>2 DEF CallState, CallTo
<1>5. call'[c] = new
  BY <1>2, <1>4
<1> HIDE DEF new
<1>6. /\ LogSound'
      /\ \A q \in CallRecords : q # Egress(c) => answer'[q] = answer[q]
  BY <1>1, LogGiveUp, RecordsOfCall
<1>7. Evidenced(c)' /\ Answered(c)'
  BY <1>1, <1>3, <1>5, <1>6, RecordsOfCall DEF EvidenceInv, Evidenced, Answered, Dispatched
<1> QED
  BY <1>1, <1>3, <1>4, <1>6, <1>7, RecordsOfCall, CallMoves DEF EvidenceInv, ProcTypes

(* The steps of a call that only move it on. *)
LEMMA StepQuiet ==
  ASSUME EvidenceInv, NEW c \in Calls,
         DenyJournaled(c) \/ RequestDone(c) \/ OutcomeAnswered(c) \/ OutcomeTimeout(c)
  PROVE  EvidenceInv'
<1>1. Evidenced(c)
  BY DEF EvidenceInv
<1>2. CASE DenyJournaled(c)
  BY <1>1, <1>2, CallGoes DEF DenyJournaled, CallAt, Labels, Evidenced, Dispatched
<1>3. CASE RequestDone(c)
  BY <1>1, <1>3, CallGoes DEF RequestDone, CallAt, Labels, Evidenced, Dispatched
<1>4. CASE OutcomeAnswered(c)
  BY <1>1, <1>4, CallGoes DEF OutcomeAnswered, CallAt, Labels, Evidenced, Dispatched
<1>5. CASE OutcomeTimeout(c)
  BY <1>1, <1>5, CallGoes DEF OutcomeTimeout, CallAt, Labels, Evidenced, Dispatched
<1> QED
  BY <1>2, <1>3, <1>4, <1>5

LEMMA StepSend ==
  ASSUME EvidenceInv, NEW c \in Calls, Send(c)
  PROVE  EvidenceInv'
<1> DEFINE new == Attempted(call[c])
<1>1. call \in [Calls -> CallState] /\ call[c] \in CallState /\ sent \in [Calls -> Nat]
  BY DEF EvidenceInv, ProcTypes
<1>2. new \in CallState /\ new.pc = call[c].pc /\ new.allow = call[c].allow
  BY <1>1, AttemptedType
<1>3. call' = [call EXCEPT ![c] = new] /\ sent' = [sent EXCEPT ![c] = sent[c] + 1]
  BY DEF Send
<1> HIDE DEF new
<1>4. call'[c] = new
  BY <1>1, <1>3
<1>5. sent' \in [Calls -> Nat] /\ \A d \in Calls : d # c => sent'[d] = sent[d]
  BY <1>1, <1>3
<1>6. /\ call[c].pc = "ticket" /\ UNCHANGED logVars /\ answer' = answer /\ queue' = queue
      /\ run' = run
  BY DEF Send, CallAt, logVars, procVars
<1>7. LogSound'
  BY <1>6, LogQuiet
<1>8. Evidenced(c)' /\ Answered(c)'
  BY <1>2, <1>4, <1>6 DEF EvidenceInv, Evidenced, Answered, Dispatched
<1> QED
  BY <1>2, <1>3, <1>5, <1>6, <1>7, <1>8, CallMoves DEF EvidenceInv, ProcTypes

LEMMA StepFinish ==
  ASSUME EvidenceInv, NEW c \in Calls, FinishCall(c)
  PROVE  EvidenceInv'
<1> DEFINE new == [call[c] EXCEPT !.pc = "outcome", !.summary = call[c].notes]
<1>1. call \in [Calls -> CallState] /\ call[c] \in CallState
  BY DEF EvidenceInv, ProcTypes
<1>2. new \in CallState /\ new.pc = "outcome" /\ new.allow = call[c].allow
  BY <1>1 DEF CallState, Labels
<1>3. call' = [call EXCEPT ![c] = new]
  BY <1>1 DEF FinishCall, CallState
<1> HIDE DEF new
<1>4. call'[c] = new
  BY <1>1, <1>3
<1>5. call[c].pc = "running" /\ Journal(Outcome(c)) /\ run' = run /\ sent' = sent
  BY DEF FinishCall, CallAt
<1>6. /\ LogSound' /\ queue' \subseteq CallRecords
      /\ \A q \in CallRecords : q # Outcome(c) => answer'[q] = answer[q]
  BY <1>5, LogSubmit, RecordsOfCall
<1>7. Evidenced(c)' /\ Answered(c)'
  BY <1>2, <1>4, <1>5, <1>6, RecordsOfCall DEF EvidenceInv, Evidenced, Answered, Dispatched
<1> QED
  BY <1>2, <1>3, <1>5, <1>6, <1>7, RecordsOfCall, CallMoves DEF EvidenceInv, ProcTypes

-----------------------------------------------------------------------------
(* The journal's steps. *)

(* Lines and callers move, the calls do not: no record becomes idle again,  *)
(* and no promise is taken back.                                            *)
LEMMA CallsStay ==
  ASSUME EvidenceInv, LogSound', queue' \subseteq CallRecords,
         call' = call, sent' = sent, run' = run, run # "down",
         \A r \in CallRecords : \/ answer'[r] = answer[r]
                                \/ answer[r] = "waiting" /\ answer'[r] \in {"ok", "failed"}
  PROVE  EvidenceInv'
<1>1. ProcTypes'
  BY DEF EvidenceInv, ProcTypes
<1>2. ASSUME NEW c \in Calls PROVE Evidenced(c)' /\ Answered(c)'
  BY RecordsOfCall DEF EvidenceInv, Evidenced, Answered, Dispatched
<1> QED
  BY <1>1, <1>2 DEF EvidenceInv

LEMMA StepWrites ==
  ASSUME EvidenceInv, NEW r \in CallRecords, JournalWrites(r)
  PROVE  EvidenceInv'
<1>1. /\ r \in queue /\ log' = log \o <<r>> /\ durable' = durable /\ queue' = queue \ {r}
      /\ call' = call /\ sent' = sent /\ run' = run /\ run # "down"
      /\ answer' = [q \in CallRecords |-> answer[q]]
  BY DEF JournalWrites, Audit!Extend, Audit!Unpromised
<1>2. /\ log \in Seq(CallRecords) /\ durable \in Nat /\ durable <= Len(log)
      /\ answer \in [CallRecords -> Told] /\ queue \subseteq CallRecords
  BY DEF EvidenceInv, LogSound, LogTypes, ProcTypes
<1>3. answer' = answer
  BY <1>1, <1>2
<1>4. /\ log' \in Seq(CallRecords) /\ Len(log') = Len(log) + 1 /\ Len(log) \in Nat
      /\ \A i \in 1..Len(log) : log'[i] = log[i]
      /\ log'[Len(log) + 1] = r
  BY <1>1, <1>2
<1>5. LogTypes'
  BY <1>1, <1>2, <1>3, <1>4 DEF LogTypes
<1>6. ASSUME NEW q \in CallRecords PROVE Promised(q)' /\ Submitted(q)'
  <2>1. Promised(q) /\ Submitted(q) /\ Submitted(r)
    BY DEF EvidenceInv, LogSound
  <2>2. Promised(q)'
    BY <1>1, <1>2, <1>3, <1>4, <2>1 DEF Promised
  <2>3. InLog(q)' => InLog(q) \/ q = r
    BY <1>4 DEF InLog
  <2>4. Submitted(q)'
    BY <1>1, <1>3, <2>1, <2>3 DEF Submitted
  <2> QED
    BY <2>2, <2>4
<1>7. ASSUME NEW c \in Calls PROVE IntentBefore(c)'
  <2>1. IntentBefore(c) /\ Submitted(r) /\ Promised(Intent(c)) /\ Evidenced(c)
    BY RecordsOfCall DEF EvidenceInv, LogSound
  <2>2. r = Outcome(c) => \E i \in 1..durable : log[i] = Intent(c)
    BY <1>1, <2>1 DEF Submitted, Evidenced, Promised
  <2>3. SUFFICES ASSUME NEW j \in 1..Len(log'), log'[j] = Outcome(c)
                 PROVE  \E i \in 1..(j - 1) : log'[i] = Intent(c)
    BY DEF IntentBefore
  <2>4. CASE j \in 1..Len(log)
    <3>1. PICK i \in 1..(j - 1) : log[i] = Intent(c)
      BY <1>4, <2>1, <2>3, <2>4 DEF IntentBefore
    <3> QED
      BY <1>4, <2>4, <3>1
  <2>5. CASE j = Len(log) + 1
    <3>1. PICK i \in 1..durable : log[i] = Intent(c)
      BY <1>4, <2>2, <2>3, <2>5
    <3>2. i \in 1..Len(log) /\ i \in 1..(j - 1)
      BY <1>2, <1>4, <2>5
    <3> QED
      BY <1>4, <3>1, <3>2
  <2> QED
    BY <1>4, <2>4, <2>5
<1>8. LogSound'
  BY <1>5, <1>6, <1>7 DEF LogSound
<1> QED
  BY <1>1, <1>2, <1>3, <1>8, CallsStay

LEMMA StepSyncs ==
  ASSUME EvidenceInv, JournalSyncs
  PROVE  EvidenceInv'
<1> DEFINE rs == {r \in Waiting : InLog(r)}
<1>1. /\ durable' = Len(log) /\ log' = log /\ queue' = queue
      /\ call' = call /\ sent' = sent /\ run' = run /\ run # "down"
      /\ answer' = [q \in CallRecords |-> IF q \in rs THEN "ok" ELSE answer[q]]
  BY DEF JournalSyncs, Audit!Commit, procVars
<1>2. /\ log \in Seq(CallRecords) /\ durable \in Nat /\ durable <= Len(log)
      /\ answer \in [CallRecords -> Told] /\ queue \subseteq CallRecords
  BY DEF EvidenceInv, LogSound, LogTypes, ProcTypes
<1>3. \A q \in rs : answer[q] = "waiting" /\ \E i \in 1..Len(log) : log[i] = q
  BY DEF Waiting, InLog
<1>4. \A q \in CallRecords : answer'[q] = answer[q] \/ (q \in rs /\ answer'[q] = "ok")
  BY <1>1
<1>5. answer' \in [CallRecords -> Told]
  BY <1>1, <1>2 DEF Told
<1>6. LogTypes'
  BY <1>1, <1>2, <1>5 DEF LogTypes
<1>7. ASSUME NEW q \in CallRecords PROVE Promised(q)' /\ Submitted(q)'
  <2>1. Promised(q) /\ Submitted(q)
    BY DEF EvidenceInv, LogSound
  <2>2. answer'[q] = "ok" => \E i \in 1..Len(log) : log[i] = q
    <3>1. CASE q \in rs
      BY <1>3, <3>1
    <3>2. CASE answer'[q] = answer[q]
      BY <1>2, <2>1, <3>2 DEF Promised
    <3> QED
      BY <1>4, <3>1, <3>2
  <2>3. Promised(q)'
    BY <1>1, <2>2 DEF Promised
  <2>4. Submitted(q)'
    BY <1>1, <1>4, <2>1 DEF Submitted, InLog
  <2> QED
    BY <2>3, <2>4
<1>8. \A c \in Calls : IntentBefore(c)'
  BY <1>1 DEF EvidenceInv, LogSound, IntentBefore
<1>9. LogSound'
  BY <1>6, <1>7, <1>8 DEF LogSound
<1>10. \A q \in CallRecords : \/ answer'[q] = answer[q]
                              \/ answer[q] = "waiting" /\ answer'[q] \in {"ok", "failed"}
  BY <1>3, <1>4
<1> QED
  BY <1>1, <1>2, <1>9, <1>10, CallsStay

(* The callers are told nothing that promises anything, and a tail of the   *)
(* log that was not durable may go.                                         *)
LEMMA LogRefuses ==
  ASSUME EvidenceInv, NEW outcome \in {"failed", "lost"}, Audit!Unpromised(Waiting, outcome),
         NEW n \in durable..Len(log), log' = SubSeq(log, 1, n), durable' = durable, queue' = {}
  PROVE  /\ LogSound' /\ queue' \subseteq CallRecords
         /\ \A r \in CallRecords : answer'[r] = IF answer[r] = "waiting" THEN outcome ELSE answer[r]
<1>1. /\ log \in Seq(CallRecords) /\ durable \in Nat /\ durable <= Len(log)
      /\ answer \in [CallRecords -> Told] /\ Len(log) \in Nat /\ n \in Nat
  BY DEF EvidenceInv, LogSound, LogTypes
<1>2. answer' = [r \in CallRecords |-> IF answer[r] = "waiting" THEN outcome ELSE answer[r]]
  BY DEF Audit!Unpromised, Waiting
<1>3. \A r \in CallRecords : answer'[r] = IF answer[r] = "waiting" THEN outcome ELSE answer[r]
  BY <1>2
<1>4. answer' \in [CallRecords -> Told]
  BY <1>1, <1>2 DEF Told
<1>5. /\ log' \in Seq(CallRecords) /\ Len(log') = n
      /\ \A i \in 1..n : log'[i] = log[i]
  <2>1. 1 \in 1..(Len(log) + 1) /\ n \in 0..Len(log)
    BY <1>1
  <2> QED
    BY <1>1, <2>1, SubSeqProperties
<1>6. LogTypes'
  BY <1>1, <1>4, <1>5 DEF LogTypes
<1>7. ASSUME NEW r \in CallRecords PROVE Promised(r)' /\ Submitted(r)'
  <2>1. Promised(r) /\ Submitted(r)
    BY DEF EvidenceInv, LogSound
  <2>2. Promised(r)'
    BY <1>1, <1>3, <1>5, <2>1 DEF Promised
  <2>3. InLog(r)' => InLog(r)
    BY <1>1, <1>5 DEF InLog
  <2>4. Submitted(r)'
    BY <1>3, <2>1, <2>3 DEF Submitted
  <2> QED
    BY <2>2, <2>4
<1>8. ASSUME NEW c \in Calls PROVE IntentBefore(c)'
  <2>1. IntentBefore(c)
    BY DEF EvidenceInv, LogSound
  <2>2. SUFFICES ASSUME NEW j \in 1..n, log'[j] = Outcome(c)
                 PROVE  \E i \in 1..(j - 1) : log'[i] = Intent(c)
    BY <1>5 DEF IntentBefore
  <2>3. j \in 1..Len(log) /\ log[j] = Outcome(c)
    BY <1>1, <1>5, <2>2
  <2>4. PICK i \in 1..(j - 1) : log[i] = Intent(c)
    BY <2>1, <2>3 DEF IntentBefore
  <2>5. i \in 1..n
    BY <1>1
  <2> QED
    BY <1>5, <2>4, <2>5
<1> QED
  BY <1>3, <1>6, <1>7, <1>8 DEF LogSound

(* Refusing extends the log by nothing: the same with the whole log kept.   *)
LEMMA LogEnds ==
  ASSUME EvidenceInv, NEW outcome \in {"failed", "lost"}, Audit!Extend(<<>>, Waiting, outcome),
         queue' = {}
  PROVE  /\ LogSound' /\ queue' \subseteq CallRecords
         /\ \A r \in CallRecords : answer'[r] = IF answer[r] = "waiting" THEN outcome ELSE answer[r]
<1>1. log \in Seq(CallRecords) /\ Len(log) \in Nat /\ durable \in Nat /\ durable <= Len(log)
  BY DEF EvidenceInv, LogSound, LogTypes
<1>2. log' = log \o <<>> /\ durable' = durable /\ Audit!Unpromised(Waiting, outcome)
  BY DEF Audit!Extend
<1>3. log \o <<>> = log /\ SubSeq(log, 1, Len(log)) = log
  BY <1>1
<1>4. Len(log) \in durable..Len(log)
  BY <1>1
<1> QED
  BY <1>2, <1>3, <1>4, LogRefuses

LEMMA StepRefuses ==
  ASSUME EvidenceInv, JournalFails \/ JournalRefuses
  PROVE  EvidenceInv'
<1>1. /\ Audit!Extend(<<>>, Waiting, "failed") /\ queue' = {}
      /\ call' = call /\ sent' = sent /\ run' = run /\ run # "down"
  BY DEF JournalFails, JournalRefuses
<1>2. /\ LogSound' /\ queue' \subseteq CallRecords
      /\ \A r \in CallRecords : answer'[r] = IF answer[r] = "waiting" THEN "failed" ELSE answer[r]
  BY <1>1, LogEnds
<1>3. \A r \in CallRecords : \/ answer'[r] = answer[r]
                             \/ answer[r] = "waiting" /\ answer'[r] \in {"ok", "failed"}
  BY <1>2
<1> QED
  BY <1>1, <1>2, <1>3, CallsStay

-----------------------------------------------------------------------------
(* The process. *)

LEMMA StopHolds ==
  ASSUME EvidenceInv, NEW label \in {"lost", "reported", "done"}, Stop(label),
         label = "done" => Pending = {},
         LogSound', queue' \subseteq CallRecords,
         \A r \in CallRecords : answer'[r] = IF answer[r] = "waiting" THEN "lost" ELSE answer[r]
  PROVE  EvidenceInv'
<1>1. call \in [Calls -> CallState] /\ sent \in [Calls -> Nat]
  BY DEF EvidenceInv, ProcTypes
<1>2. run' = "down" /\ sent' = sent
  BY DEF Stop
<1>3. ASSUME NEW c \in Calls
      PROVE  /\ call'[c] \in CallState /\ call'[c].allow = call[c].allow
             /\ \/ call'[c].pc = "lost" /\ call[c].pc \in Active
                \/ call'[c].pc = label /\ c \in Pending
                \/ call'[c].pc = call[c].pc /\ call[c].pc \notin Active /\ c \notin Pending
  <2>1. call[c] \in CallState /\ (c \in Pending => call[c].pc = "done")
    BY <1>1 DEF Pending
  <2>2. [call[c] EXCEPT !.pc = "lost"] \in CallState /\ [call[c] EXCEPT !.pc = "lost"].pc = "lost"
        /\ [call[c] EXCEPT !.pc = "lost"].allow = call[c].allow
    BY <2>1 DEF CallState, Labels
  <2>3. [call[c] EXCEPT !.pc = label] \in CallState /\ [call[c] EXCEPT !.pc = label].pc = label
        /\ [call[c] EXCEPT !.pc = label].allow = call[c].allow
    BY <2>1 DEF CallState, Labels
  <2>4. call'[c] = CASE call[c].pc \in Active -> [call[c] EXCEPT !.pc = "lost"]
                     [] c \in Pending         -> [call[c] EXCEPT !.pc = label]
                     [] OTHER                 -> call[c]
    BY DEF Stop
  <2>5. CASE call[c].pc \in Active
    <3>1. c \notin Pending
      BY <2>1, <2>5 DEF Active
    <3>2. call'[c] = [call[c] EXCEPT !.pc = "lost"]
      BY <2>4, <2>5, <3>1
    <3> QED
      BY <2>2, <2>5, <3>2
  <2>6. CASE c \in Pending
    <3>1. call[c].pc \notin Active
      BY <2>1, <2>6 DEF Active
    <3>2. call'[c] = [call[c] EXCEPT !.pc = label]
      BY <2>4, <2>6, <3>1
    <3> QED
      BY <2>3, <2>6, <3>2
  <2>7. CASE call[c].pc \notin Active /\ c \notin Pending
    <3>1. call'[c] = call[c]
      BY <2>4, <2>7
    <3> QED
      BY <2>1, <2>7, <3>1
  <2> QED
    BY <2>5, <2>6, <2>7
<1>4. ProcTypes'
  <2>1. DOMAIN call' = Calls /\ call' = [c \in Calls |-> call'[c]]
    BY DEF Stop
  <2>2. call' \in [Calls -> CallState]
    BY <1>3, <2>1
  <2> QED
    BY <1>1, <1>2, <2>2 DEF ProcTypes
<1>5. ASSUME NEW c \in Calls PROVE Evidenced(c)' /\ Answered(c)'
  <2>1. Evidenced(c) /\ Answered(c)
    BY DEF EvidenceInv
  <2>2. Intent(c) \in CallRecords /\ Outcome(c) \in CallRecords
    BY RecordsOfCall
  <2>3. Answered(c)'
    <3>1. SUFFICES ASSUME call'[c].pc = "done" PROVE answer'[Outcome(c)] \in {"ok", "failed"}
      BY DEF Answered
    <3>2. call[c].pc = "done" /\ c \notin Pending
      BY <1>3, <3>1
    <3> QED
      BY <2>1, <2>2, <3>2 DEF Answered, Pending
  <2>4. answer'[Intent(c)] = answer[Intent(c)] \/ answer[Intent(c)] = "waiting"
    BY <2>2
  <2>5. answer'[Outcome(c)] # "idle" => answer[Outcome(c)] # "idle"
    BY <2>2
  <2>6. Evidenced(c)'
    BY <1>2, <1>3, <2>1, <2>4, <2>5 DEF Evidenced, Dispatched, Active, Pending
  <2> QED
    BY <2>3, <2>6
<1> QED
  BY <1>4, <1>5 DEF EvidenceInv

LEMMA StepProcess ==
  ASSUME EvidenceInv, Dies \/ Shutdown \/ Exit \/ ExitAfterBound \/ Restart
  PROVE  EvidenceInv'
<1>1. CASE Dies
  <2>1. PICK n \in durable..Len(log) : Audit!Lose(n, Waiting)
    BY <1>1 DEF Dies
  <2>2. /\ Stop("lost") /\ queue' = {} /\ log' = SubSeq(log, 1, n) /\ durable' = durable
        /\ Audit!Unpromised(Waiting, "lost")
    BY <1>1, <2>1 DEF Dies, Stop, Audit!Lose
  <2>3. /\ LogSound' /\ queue' \subseteq CallRecords
        /\ \A r \in CallRecords : answer'[r] = IF answer[r] = "waiting" THEN "lost" ELSE answer[r]
    BY <2>2, LogRefuses
  <2> QED
    BY <2>2, <2>3, StopHolds
<1>2. CASE Exit
  <2>1. Stop("done") /\ queue' = {} /\ Pending = {} /\ Audit!Extend(<<>>, Waiting, "lost")
    BY <1>2 DEF Exit, Stop
  <2>2. /\ LogSound' /\ queue' \subseteq CallRecords
        /\ \A r \in CallRecords : answer'[r] = IF answer[r] = "waiting" THEN "lost" ELSE answer[r]
    BY <2>1, LogEnds
  <2> QED
    BY <2>1, <2>2, StopHolds
<1>3. CASE ExitAfterBound
  <2>1. Stop("reported") /\ queue' = {} /\ Audit!Extend(<<>>, Waiting, "lost")
    BY <1>3 DEF ExitAfterBound, Stop
  <2>2. /\ LogSound' /\ queue' \subseteq CallRecords
        /\ \A r \in CallRecords : answer'[r] = IF answer[r] = "waiting" THEN "lost" ELSE answer[r]
    BY <2>1, LogEnds
  <2> QED
    BY <2>1, <2>2, StopHolds
<1>4. CASE Shutdown \/ Restart
  <2>1. /\ UNCHANGED logVars /\ answer' = answer /\ queue' = queue /\ call' = call /\ sent' = sent
        /\ run' # "down"
    BY <1>4 DEF Shutdown, Restart, logVars
  <2>2. LogSound'
    BY <2>1, LogQuiet
  <2> QED
    BY <2>1, <2>2 DEF EvidenceInv, ProcTypes, Evidenced, Answered
<1> QED
  BY <1>1, <1>2, <1>3, <1>4

-----------------------------------------------------------------------------
LEMMA EvidenceInitial == CallInit => EvidenceInv
<1> SUFFICES ASSUME CallInit PROVE EvidenceInv
  OBVIOUS
<1>1. /\ log = <<>> /\ durable = 0 /\ answer = [r \in CallRecords |-> "idle"] /\ queue = {}
      /\ call = [c \in Calls |-> Idle] /\ sent = [c \in Calls |-> 0]
  BY DEF CallInit, Audit!LogInit
<1>2. Idle \in CallState /\ Idle.pc = "idle"
  BY DEF Idle, CallState, Labels
<1>3. LogSound
  BY <1>1 DEF LogSound, LogTypes, Told, Promised, Submitted, IntentBefore, InLog
<1>4. ProcTypes
  BY <1>1, <1>2 DEF ProcTypes
<1>5. \A c \in Calls : Evidenced(c) /\ Answered(c)
  BY <1>1, <1>2, RecordsOfCall DEF Evidenced, Answered, Dispatched
<1> QED
  BY <1>3, <1>4, <1>5 DEF EvidenceInv

LEMMA EvidenceStep ==
  ASSUME EvidenceInv, [CallNext]_callVars
  PROVE  EvidenceInv'
<1>1. CASE UNCHANGED callVars
  <2>1. /\ UNCHANGED logVars /\ answer' = answer /\ queue' = queue /\ call' = call /\ sent' = sent
        /\ run' = run
    BY <1>1 DEF callVars, logVars, procVars
  <2>2. LogSound'
    BY <2>1, LogQuiet
  <2> QED
    BY <2>1, <2>2 DEF EvidenceInv, ProcTypes, Evidenced, Answered
<1>2. ASSUME NEW c \in Calls, BeginCall(c) \/ CallStep(c) PROVE EvidenceInv'
  BY <1>2, StepBegin, StepIntentAnswered, StepIntentTimeout, StepAuthorizeAllow, StepAuthorizeDeny,
     StepDenyTimeout, StepQuiet, StepSend, StepFinish DEF CallStep
<1>3. CASE JournalStep
  BY <1>3, StepWrites, StepSyncs, StepRefuses DEF JournalStep
<1>4. CASE Dies \/ Shutdown \/ Exit \/ ExitAfterBound \/ Restart
  BY <1>4, StepProcess
<1> QED
  BY <1>1, <1>2, <1>3, <1>4 DEF CallNext

LEMMA EvidenceFollows == EvidenceInv => EvidenceKept
<1> SUFFICES ASSUME EvidenceInv, NEW c \in Calls
             PROVE  /\ sent[c] > 0 => /\ call[c].allow /\ answer[Intent(c)] = "ok"
                                      /\ \E i \in 1..durable : log[i] = Intent(c)
                    /\ InLog(Outcome(c)) =>
                         /\ call[c].pc \notin {"refused", "denied"}
                         /\ \E i, j \in 1..Len(log) :
                              i < j /\ log[i] = Intent(c) /\ log[j] = Outcome(c)
                    /\ call[c].pc = "done" =>
                         \/ \E i \in 1..durable : log[i] = Outcome(c)
                         \/ answer[Outcome(c)] = "failed"
                         \/ answer[Outcome(c)] = "waiting" /\ run # "down"
  BY DEF EvidenceKept, EvidenceFirst, OutcomeProvesDispatch, DrainKeepsOutcomes
<1>1. /\ Evidenced(c) /\ Answered(c) /\ IntentBefore(c) /\ Promised(Intent(c))
      /\ Promised(Outcome(c)) /\ Submitted(Outcome(c)) /\ log \in Seq(CallRecords)
  BY RecordsOfCall DEF EvidenceInv, LogSound, LogTypes
<1>2. sent[c] > 0 => /\ call[c].allow /\ answer[Intent(c)] = "ok"
                     /\ \E i \in 1..durable : log[i] = Intent(c)
  BY <1>1 DEF Evidenced, Promised
<1>3. ASSUME InLog(Outcome(c))
      PROVE  \E i, j \in 1..Len(log) : i < j /\ log[i] = Intent(c) /\ log[j] = Outcome(c)
  <2>1. PICK j \in 1..Len(log) : log[j] = Outcome(c)
    BY <1>3 DEF InLog
  <2>2. PICK i \in 1..(j - 1) : log[i] = Intent(c)
    BY <1>1, <2>1 DEF IntentBefore
  <2>3. Len(log) \in Nat
    BY <1>1
  <2>4. i \in 1..Len(log) /\ i < j
    BY <2>3
  <2> QED
    BY <2>1, <2>2, <2>4
<1>4. InLog(Outcome(c)) => call[c].pc \notin {"refused", "denied"}
  BY <1>1 DEF Submitted, Evidenced
<1>5. call[c].pc = "done" => \/ \E i \in 1..durable : log[i] = Outcome(c)
                             \/ answer[Outcome(c)] = "failed"
                             \/ answer[Outcome(c)] = "waiting" /\ run # "down"
  <2>1. call[c].pc = "done" => \/ answer[Outcome(c)] \in {"ok", "failed"}
                               \/ answer[Outcome(c)] = "waiting" /\ run # "down"
    BY <1>1 DEF Answered
  <2>2. answer[Outcome(c)] = "ok" => \E i \in 1..durable : log[i] = Outcome(c)
    BY <1>1 DEF Promised
  <2> QED
    BY <2>1, <2>2
<1> QED
  BY <1>2, <1>3, <1>4, <1>5

(* Every tool call keeps its evidence (begin_enterprise_call,               *)
(* record_outcome, drain_pending_audit): whatever the calls, the outbound   *)
(* requests, the timeouts, the failures of the journal and the crashes and  *)
(* power losses, nothing is sent before its intent is durable, an outcome   *)
(* in the journal proves a dispatch, and a call its caller was answered for *)
(* has its outcome.                                                         *)
THEOREM EvidenceHolds == CallSpec => []EvidenceKept
<1>1. CallInit => EvidenceInv
  BY EvidenceInitial
<1>2. EvidenceInv /\ [CallNext]_callVars => EvidenceInv'
  BY EvidenceStep
<1>3. EvidenceInv => EvidenceKept
  BY EvidenceFollows
<1> QED
  BY <1>1, <1>2, <1>3, PTL DEF CallSpec

-----------------------------------------------------------------------------
(* Walks: a function that is built step by step exists.                     *)

LEMMA UpTo ==
  ASSUME NEW N \in Nat, NEW S, 0 \in S, \A n \in 1 .. N : n - 1 \in S => n \in S
  PROVE  \A n \in 0 .. N : n \in S
<1> DEFINE Bad == {n \in 0 .. N : n \notin S}
<1> SUFFICES ASSUME Bad # {} PROVE FALSE
  OBVIOUS
<1>1. Bad \subseteq Nat
  OBVIOUS
<1>2. PICK n \in Bad : \A m \in Bad : <<m, n>> \notin OpToRel(<, Nat)
  BY <1>1, NatLessThanWellFounded, WFMin
<1>3. n \in 0 .. N /\ n \notin S /\ n \in Nat /\ \A m \in Bad : m \in Nat
  OBVIOUS
<1> HIDE DEF Bad
<1>7. \A m \in Bad : ~(m < n)
  BY <1>2, <1>3 DEF OpToRel
<1>4. n # 0 /\ n - 1 \in 0 .. N
  BY <1>3
<1>5. n - 1 \notin S
  BY <1>3, <1>4
<1>6. n - 1 \in Bad
  BY <1>4, <1>5 DEF Bad
<1> QED
  BY <1>3, <1>7, <1>6

Steps(N, Q) == [1 .. N -> [Q -> Q]]

Walk(f, N, Q, start, G) ==
  f \in [0 .. N -> Q] /\ f[0] = start /\ \A n \in 1 .. N : f[n] = G[n][f[n - 1]]

LEMMA Iterates ==
  ASSUME NEW N \in Nat, NEW Q, NEW start \in Q, NEW G \in Steps(N, Q)
  PROVE  \E f : Walk(f, N, Q, start, G)
<1> USE DEF Steps
<1> DEFINE Good(k, f) == f \in [0 .. k -> Q] /\ f[0] = start /\ \A n \in 1 .. k : f[n] = G[n][f[n - 1]]
           S == {k \in 0 .. N : \E f : Good(k, f)}
<1>1. 0 \in S
  <2> DEFINE h == [n \in 0 .. 0 |-> start]
  <2>1. h \in [0 .. 0 -> Q] /\ h[0] = start /\ \A n \in 1 .. 0 : h[n] = G[n][h[n - 1]]
    OBVIOUS
  <2> HIDE DEF h
  <2>2. Good(0, h)
    BY <2>1
  <2> QED
    BY <2>2
<1>2. ASSUME NEW k \in 1 .. N, k - 1 \in S PROVE k \in S
  <2>1. PICK f : Good(k - 1, f)
    BY <1>2
  <2> DEFINE g == [n \in 0 .. k |-> IF n = k THEN G[k][f[k - 1]] ELSE f[n]]
  <2>2. f[k - 1] \in Q /\ \A n \in 0 .. k - 1 : f[n] \in Q
    BY <2>1
  <2>3. G[k][f[k - 1]] \in Q
    BY <2>2
  <2>4. g \in [0 .. k -> Q]
    <3>1. \A n \in 0 .. k : n # k => n \in 0 .. k - 1
      OBVIOUS
    <3>2. \A n \in 0 .. k : (IF n = k THEN G[k][f[k - 1]] ELSE f[n]) \in Q
      BY <2>2, <2>3, <3>1
    <3> QED
      BY <3>2
  <2>5. g[0] = start
    BY <2>1
  <2>6. ASSUME NEW n \in 1 .. k PROVE g[n] = G[n][g[n - 1]]
    <3>1. g[n - 1] = f[n - 1]
      OBVIOUS
    <3>2. CASE n = k
      BY <3>1, <3>2
    <3>3. CASE n # k
      <4>1. n \in 1 .. k - 1
        BY <3>3
      <4>2. g[n] = f[n]
        BY <3>3
      <4> QED
        BY <2>1, <3>1, <4>1, <4>2
    <3> QED
      BY <3>2, <3>3
  <2> HIDE DEF g
  <2>7. Good(k, g)
    BY <2>4, <2>5, <2>6
  <2> QED
    BY <2>7
<1> HIDE DEF S
<1>3. N \in S
  <2>1. \A n \in 0 .. N : n \in S
    BY <1>1, <1>2, UpTo
  <2> QED
    BY <2>1
<1> QED
  BY <1>3 DEF S, Walk

-----------------------------------------------------------------------------
(* Totals of an egress log, one entry after the other.                      *)

Tried(entry) == IF entry = Denied THEN 0 ELSE entry

Sums(u, notes) ==
  /\ u \in [0 .. Len(notes) -> Int] /\ u[0] = 0 /\ Total(notes) = u[Len(notes)]
  /\ \A n \in 1 .. Len(notes) : u[n] = u[n - 1] + Tried(notes[n])

LEMMA TotalSums ==
  ASSUME NEW notes \in Seq(Int)
  PROVE  \E u : Sums(u, notes)
<1>1. PICK N \in Nat : N = Len(notes)
  OBVIOUS
<1>2. \A n \in 1 .. N : notes[n] \in Int /\ Tried(notes[n]) \in Int
  BY <1>1 DEF Tried
<1> DEFINE G == [n \in 1 .. N |-> [x \in Int |-> x + Tried(notes[n])]]
<1>3. G \in Steps(N, Int) /\ 0 \in Int
  BY <1>2 DEF Steps
<1>4. PICK g \in [0 .. N -> Int] : g[0] = 0 /\ \A n \in 1 .. N : g[n] = G[n][g[n - 1]]
  <2> HIDE DEF G
  <2>1. PICK f : Walk(f, N, Int, 0, G)
    BY <1>3, Iterates, Zenon
  <2> QED
    BY <2>1 DEF Walk
<1>5. ASSUME NEW n \in 1 .. N PROVE g[n] = g[n - 1] + Tried(notes[n])
  <2>1. g[n - 1] \in Int
    <3>1. n - 1 \in 0 .. N
      OBVIOUS
    <3> QED
      BY <3>1
  <2> QED
    BY <1>4, <2>1
<1> DEFINE Adds(f) == f = [i \in 0 .. Len(notes) |->
                             IF i = 0 THEN 0
                             ELSE f[i - 1] + IF notes[i] = Denied THEN 0 ELSE notes[i]]
<1>6. Adds(g)
  <2>1. \A i \in 0 .. N : g[i] = IF i = 0 THEN 0
                                 ELSE g[i - 1] + IF notes[i] = Denied THEN 0 ELSE notes[i]
    <3>1. \A i \in 0 .. N : i # 0 => i \in 1 .. N
      OBVIOUS
    <3> QED
      BY <1>4, <1>5, <3>1 DEF Tried
  <2> QED
    BY <1>1, <2>1
<1> DEFINE u == CHOOSE f : Adds(f)
<1>7. Adds(u)
  BY <1>6, Zenon
<1>8. Total(notes) = u[Len(notes)]
  BY DEF Total
<1> HIDE DEF u
<1>9. u[0] = 0
  <2>1. 0 \in 0 .. Len(notes)
    BY <1>1
  <2> QED
    BY <1>7, <2>1
<1>10. \A n \in 1 .. N : u[n] = u[n - 1] + Tried(notes[n])
  <2>1. \A n \in 1 .. N : n \in 0 .. Len(notes) /\ n # 0
    BY <1>1
  <2> QED
    BY <1>7, <2>1, Zenon DEF Tried
<1> DEFINE S == {m \in 0 .. N : u[m] \in Int}
<1>11. 0 \in S
  BY <1>9
<1>12. ASSUME NEW n \in 1 .. N, n - 1 \in S PROVE n \in S
  BY <1>2, <1>10, <1>12
<1>13. \A n \in 0 .. N : n \in S
  <2> HIDE DEF S
  <2> QED
    BY <1>11, <1>12, UpTo
<1>14. u \in [0 .. Len(notes) -> Int]
  BY <1>1, <1>7, <1>13
<1> QED
  BY <1>1, <1>8, <1>9, <1>10, <1>14 DEF Sums

LEMMA TotalEmpty == Total(<<>>) = 0
<1>1. PICK u : Sums(u, <<>>)
  <2>1. <<>> \in Seq(Int)
    OBVIOUS
  <2> QED
    BY <2>1, TotalSums
<1> QED
  BY <1>1 DEF Sums

\* A request is noted.
LEMMA TotalAppend ==
  ASSUME NEW notes \in Seq(Int), NEW entry \in Int
  PROVE  Total(Append(notes, entry)) = Total(notes) + Tried(entry)
<1>1. PICK N \in Nat : N = Len(notes)
  OBVIOUS
<1>2. PICK more : more = Append(notes, entry) /\ more \in Seq(Int)
  <2>1. Append(notes, entry) \in Seq(Int)
    OBVIOUS
  <2> QED
    BY <2>1
<1>3. Len(more) = N + 1 /\ more[N + 1] = entry /\ \A n \in 1 .. N : more[n] = notes[n]
  BY <1>1, <1>2
<1>4. PICK u : Sums(u, notes)
  BY TotalSums
<1>5. PICK v : Sums(v, more)
  BY <1>2, TotalSums
<1> DEFINE S == {n \in 0 .. N : v[n] = u[n]}
<1>6. 0 \in S
  BY <1>4, <1>5 DEF Sums
<1>7. ASSUME NEW n \in 1 .. N, n - 1 \in S PROVE n \in S
  <2>1. n \in 1 .. Len(notes) /\ n \in 1 .. Len(more) /\ more[n] = notes[n] /\ n \in 0 .. N
    BY <1>1, <1>3
  <2> QED
    BY <1>4, <1>5, <1>7, <2>1 DEF Sums
<1>8. v[N] = u[N]
  <2>1. \A n \in 0 .. N : n \in S
    <3> HIDE DEF S
    <3> QED
      BY <1>6, <1>7, UpTo
  <2> QED
    BY <2>1
<1>9. v[N + 1] = v[N] + Tried(entry)
  <2>1. N + 1 \in 1 .. Len(more) /\ (N + 1) - 1 = N
    BY <1>3
  <2> QED
    BY <1>3, <1>5, <2>1 DEF Sums
<1> QED
  BY <1>1, <1>2, <1>3, <1>4, <1>5, <1>8, <1>9 DEF Sums

\* An attempt is noted.
LEMMA TotalMore ==
  ASSUME NEW notes \in Seq(Int), NEW t \in 1 .. Len(notes), notes[t] # Denied, notes[t] + 1 # Denied
  PROVE  Total([notes EXCEPT ![t] = notes[t] + 1]) = Total(notes) + 1
<1>1. PICK N \in Nat : N = Len(notes)
  OBVIOUS
<1>2. PICK more : more = [notes EXCEPT ![t] = notes[t] + 1]
  OBVIOUS
<1>3. more \in Seq(Int) /\ Len(more) = N
  BY <1>1, <1>2, ExceptSeq
<1>4. \A n \in 1 .. N : more[n] = IF n = t THEN notes[n] + 1 ELSE notes[n]
  BY <1>1, <1>2
<1>5. PICK u : Sums(u, notes)
  BY TotalSums
<1>6. PICK v : Sums(v, more)
  BY <1>3, TotalSums
<1> DEFINE S == {n \in 0 .. N : v[n] = u[n] + (IF n >= t THEN 1 ELSE 0)}
<1>7. 0 \in S
  BY <1>5, <1>6 DEF Sums
<1>8. ASSUME NEW n \in 1 .. N, n - 1 \in S PROVE n \in S
  <2>1. /\ u[n] = u[n - 1] + Tried(notes[n]) /\ v[n] = v[n - 1] + Tried(more[n])
        /\ u[n - 1] \in Int /\ Tried(notes[n]) \in Int
    <3>1. n \in 1 .. Len(notes) /\ n \in 1 .. Len(more) /\ n - 1 \in 0 .. Len(notes)
      BY <1>1, <1>3
    <3>2. notes[n] \in Int
      BY <3>1
    <3>3. Tried(notes[n]) \in Int
      BY <3>2 DEF Tried
    <3> QED
      BY <1>5, <1>6, <3>1, <3>3 DEF Sums
  <2>2. Tried(more[n]) = Tried(notes[n]) + (IF n = t THEN 1 ELSE 0)
    BY <1>1, <1>4 DEF Tried
  <2>3. v[n - 1] = u[n - 1] + (IF n - 1 >= t THEN 1 ELSE 0)
    BY <1>8
  <2>4. v[n] = u[n] + (IF n >= t THEN 1 ELSE 0)
    <3>1. CASE n = t
      BY <2>1, <2>2, <2>3, <3>1
    <3>2. CASE n > t
      BY <2>1, <2>2, <2>3, <3>2
    <3>3. CASE n < t
      BY <2>1, <2>2, <2>3, <3>3
    <3> QED
      BY <3>1, <3>2, <3>3
  <2> QED
    BY <2>4
<1>9. v[N] = u[N] + 1
  <2>1. \A n \in 0 .. N : n \in S
    <3> HIDE DEF S
    <3> QED
      BY <1>7, <1>8, UpTo
  <2> QED
    BY <1>1, <2>1
<1> QED
  BY <1>1, <1>2, <1>3, <1>5, <1>6, <1>9 DEF Sums

-----------------------------------------------------------------------------
(* The egress log and the wire.                                             *)

\* The call's log adds up to the n attempts it made, but for omitted requests;
\* a ticket is for a request that was allowed; the summary is the whole log.
Accounts(k, n) ==
  /\ Len(k.notes) <= MaxEgress /\ \A i \in 1 .. Len(k.notes) : k.notes[i] >= Denied
  /\ Total(k.notes) \in Int /\ Total(k.notes) <= n /\ (k.omitted = 0 => Total(k.notes) = n)
  /\ k.pc = "ticket" => /\ k.ticket >= 1
                        /\ k.ticket <= Len(k.notes) => k.notes[k.ticket] # Denied
                        /\ k.ticket > Len(k.notes) => k.omitted > 0
  /\ k.pc \in {"outcome", "done"} => k.summary = k.notes

EgressInv == \A c \in Calls : Accounts(call[c], sent[c])

CallFields(k) ==
  /\ k.notes \in Seq(Int) /\ k.omitted \in Nat /\ k.ticket \in Nat /\ k.pc \in Labels
  /\ Len(k.notes) \in Nat /\ MaxEgress \in Nat

LEMMA FieldsOfCalls == ASSUME NEW k \in CallState PROVE CallFields(k)
BY CallConstants DEF CallState, CallFields

\* The call moves without touching its log.
LEMMA AccountsMoved ==
  ASSUME NEW k, NEW r, NEW n, Accounts(k, n), r.notes = k.notes, r.omitted = k.omitted,
         r.pc # "ticket", r.pc \in {"outcome", "done"} => r.summary = r.notes
  PROVE  Accounts(r, n)
BY DEF Accounts

LEMMA NotedAccounts ==
  ASSUME NEW k \in CallState, NEW n \in Nat, Accounts(k, n), NEW entry \in {0, Denied}, NEW label,
         label = "ticket" => entry = 0, label \notin {"outcome", "done"}
  PROVE  Accounts([Noted(k, entry) EXCEPT !.pc = label], n)
<1>1. CallFields(k)
  BY FieldsOfCalls
<1>2. CASE Len(k.notes) < MaxEgress
  <2>1. PICK a, t, p, r : /\ a = Append(k.notes, entry) /\ t = Len(k.notes) + 1
                          /\ p = [k EXCEPT !.notes = a, !.ticket = t] /\ r = [p EXCEPT !.pc = label]
    OBVIOUS
  <2>2. [Noted(k, entry) EXCEPT !.pc = label] = r
    <3>1. Noted(k, entry) = p
      BY <1>2, <2>1, Zenon DEF Noted
    <3> QED
      BY <2>1, <3>1, Zenon
  <2>3. /\ Len(a) = Len(k.notes) + 1 /\ a[t] = entry /\ t \in Nat
        /\ \A i \in 1 .. Len(a) : i = t \/ i \in 1 .. Len(k.notes)
        /\ \A i \in 1 .. Len(k.notes) : a[i] = k.notes[i]
    BY <1>1, <2>1 DEF CallFields, Denied
  <2>4. Total(a) = Total(k.notes)
    <3>1. entry \in Int /\ Tried(entry) = 0
      BY DEF Tried, Denied
    <3>2. Total(a) = Total(k.notes) + Tried(entry)
      BY <1>1, <2>1, <3>1, TotalAppend DEF CallFields
    <3> QED
      BY <3>1, <3>2 DEF Accounts
  <2>5. \A i \in 1 .. Len(a) : a[i] >= Denied
    BY <2>3 DEF Accounts, Denied
  <2>6. r.pc = label /\ r.notes = a /\ r.omitted = k.omitted /\ r.ticket = t
    <3>1. a \in Seq(Int) /\ t \in Nat
      BY <1>1, <2>1 DEF CallFields, Denied
    <3>2. p = [k EXCEPT !.notes = a, !.ticket = t]
      BY <2>1
    <3>3. p \in CallState /\ p.notes = a /\ p.omitted = k.omitted /\ p.ticket = t
      BY <3>1, <3>2 DEF CallState
    <3>4. r = [p EXCEPT !.pc = label]
      BY <2>1
    <3> QED
      BY <3>3, <3>4 DEF CallState
  <2>7. Len(a) <= MaxEgress /\ t >= 1 /\ ~(t > Len(a)) /\ (label = "ticket" => a[t] # Denied)
    BY <1>1, <1>2, <2>1, <2>3 DEF CallFields, Denied
  <2>8. Accounts(r, n)
    BY <2>4, <2>5, <2>6, <2>7 DEF Accounts
  <2> QED
    BY <2>2, <2>8
<1>3. CASE ~(Len(k.notes) < MaxEgress)
  <2>1. PICK m, t, p, r : /\ m = k.omitted + 1 /\ t = MaxEgress + 1
                          /\ p = [k EXCEPT !.omitted = m, !.ticket = t] /\ r = [p EXCEPT !.pc = label]
    OBVIOUS
  <2>2. [Noted(k, entry) EXCEPT !.pc = label] = r
    <3>1. Noted(k, entry) = p
      BY <1>3, <2>1, Zenon DEF Noted
    <3> QED
      BY <2>1, <3>1, Zenon
  <2>3. r.pc = label /\ r.notes = k.notes /\ r.omitted = m /\ r.ticket = t
    <3>1. m \in Nat /\ t \in Nat
      BY <1>1, <2>1 DEF CallFields
    <3>2. p = [k EXCEPT !.omitted = m, !.ticket = t]
      BY <2>1
    <3>3. p \in CallState /\ p.notes = k.notes /\ p.omitted = m /\ p.ticket = t
      BY <3>1, <3>2 DEF CallState
    <3>4. r = [p EXCEPT !.pc = label]
      BY <2>1
    <3> QED
      BY <3>3, <3>4 DEF CallState
  <2>4. m # 0 /\ m > 0 /\ t >= 1 /\ t > Len(k.notes) /\ ~(t <= Len(k.notes))
    BY <1>1, <1>3, <2>1 DEF CallFields, Accounts
  <2>5. Accounts(r, n)
    BY <2>3, <2>4 DEF Accounts
  <2> QED
    BY <2>2, <2>5
<1> QED
  BY <1>2, <1>3

\* An attempt goes on the wire and into the log together.
LEMMA AttemptedAccounts ==
  ASSUME NEW k \in CallState, NEW n \in Nat, Accounts(k, n), k.pc = "ticket"
  PROVE  Accounts(Attempted(k), n + 1)
<1>1. CallFields(k)
  BY FieldsOfCalls
<1>2. CASE k.ticket <= Len(k.notes)
  <2>1. PICK a, r : /\ a = [k.notes EXCEPT ![k.ticket] = k.notes[k.ticket] + 1]
                    /\ r = [k EXCEPT !.notes = a]
    OBVIOUS
  <2>2. Attempted(k) = r
    BY <1>2, <2>1 DEF Attempted
  <2>3. r.pc = k.pc /\ r.notes = a /\ r.omitted = k.omitted /\ r.ticket = k.ticket
    BY <2>1 DEF CallState
  <2>4. PICK t : t = k.ticket
    OBVIOUS
  <2>5. t \in 1 .. Len(k.notes) /\ k.notes[t] \in Int /\ k.notes[t] # Denied /\ k.notes[t] >= 0
    BY <1>1, <1>2, <2>4 DEF CallFields, Accounts, Denied
  <2>6. Total(a) = Total(k.notes) + 1
    <3>1. PICK m \in Seq(Int) : m = k.notes
      BY <1>1 DEF CallFields
    <3>2. t \in 1 .. Len(m) /\ m[t] # Denied /\ m[t] + 1 # Denied
      BY <2>5, <3>1 DEF Denied
    <3>3. a = [m EXCEPT ![t] = m[t] + 1]
      BY <2>1, <2>4, <3>1, Zenon
    <3>4. Total([m EXCEPT ![t] = m[t] + 1]) = Total(m) + 1
      BY <3>2, TotalMore
    <3> QED
      BY <3>1, <3>3, <3>4
  <2>7. Len(a) = Len(k.notes) /\ \A i \in 1 .. Len(k.notes) : a[i] = IF i = t THEN k.notes[i] + 1 ELSE k.notes[i]
    BY <1>1, <2>1, <2>4, <2>5, ExceptSeq DEF CallFields
  <2>8. a[t] # Denied /\ \A i \in 1 .. Len(a) : a[i] >= Denied
    BY <2>5, <2>7 DEF Accounts, Denied
  <2>9. Total(k.notes) \in Int
    BY DEF Accounts
  <2>10. Accounts(r, n + 1)
    BY <2>3, <2>4, <2>6, <2>7, <2>8, <2>9 DEF Accounts
  <2> QED
    BY <2>2, <2>10
<1>3. CASE ~(k.ticket <= Len(k.notes))
  <2>1. Attempted(k) = k /\ k.omitted # 0 /\ Total(k.notes) <= n + 1
    BY <1>1, <1>3 DEF Attempted, CallFields, Accounts
  <2> QED
    BY <2>1 DEF Accounts
<1> QED
  BY <1>2, <1>3

LEMMA EgressInitial == CallInit => EgressInv
<1> SUFFICES ASSUME CallInit, NEW c \in Calls PROVE Accounts(call[c], sent[c])
  BY DEF EgressInv
<1>1. call[c] = Idle /\ sent[c] = 0
  BY DEF CallInit
<1>2. Idle.notes = <<>> /\ Idle.pc = "idle" /\ Len(<<>>) = 0 /\ MaxEgress \in Nat
  BY CallConstants DEF Idle
<1> QED
  BY <1>1, <1>2, TotalEmpty DEF Accounts

\* A step of one call.
LEMMA CallAccounts ==
  ASSUME EvidenceInv, EgressInv, NEW c \in Calls, NEW new, call' = [call EXCEPT ![c] = new],
         \A d \in Calls : d # c => sent'[d] = sent[d], Accounts(new, sent'[c])
  PROVE  EgressInv'
<1>1. call \in [Calls -> CallState]
  BY DEF EvidenceInv, ProcTypes
<1>2. call'[c] = new /\ \A d \in Calls : d # c => call'[d] = call[d]
  BY <1>1
<1> QED
  BY <1>2 DEF EgressInv

LEMMA CallGoesAccounts ==
  ASSUME EvidenceInv, EgressInv, NEW c \in Calls, NEW label, CallTo(c, label), label # "ticket",
         label \in {"outcome", "done"} => call[c].pc = "outcome", sent' = sent
  PROVE  EgressInv'
<1>1. call \in [Calls -> CallState] /\ call[c] \in CallState
  BY DEF EvidenceInv, ProcTypes
<1>2. PICK new : new = [call[c] EXCEPT !.pc = label]
  OBVIOUS
<1>3. /\ new.pc = label /\ new.notes = call[c].notes /\ new.omitted = call[c].omitted
      /\ new.summary = call[c].summary
  BY <1>1, <1>2 DEF CallState
<1>4. call' = [call EXCEPT ![c] = new]
  BY <1>1, <1>2 DEF CallTo, CallState
<1>5. Accounts(call[c], sent[c])
  BY DEF EgressInv
<1>6. label \in {"outcome", "done"} => new.summary = new.notes
  BY <1>3, <1>5 DEF Accounts
<1>7. Accounts(new, sent'[c])
  BY <1>3, <1>5, <1>6, AccountsMoved
<1> QED
  BY <1>4, <1>7, CallAccounts

LEMMA EgressCallStep ==
  ASSUME EvidenceInv, EgressInv, NEW c \in Calls, BeginCall(c) \/ CallStep(c)
  PROVE  EgressInv'
<1>1. /\ call \in [Calls -> CallState] /\ call[c] \in CallState /\ sent \in [Calls -> Nat] /\ sent[c] \in Nat
      /\ Accounts(call[c], sent[c])
  BY DEF EvidenceInv, ProcTypes, EgressInv
<1>2. CASE BeginCall(c)
  <2>1. PICK allow, new : /\ call' = [call EXCEPT ![c].pc = "intent", ![c].allow = allow]
                          /\ new = [call[c] EXCEPT !.pc = "intent", !.allow = allow] /\ sent' = sent
    BY <1>2 DEF BeginCall
  <2>2. call' = [call EXCEPT ![c] = new] /\ new.pc = "intent" /\ new.notes = call[c].notes /\ new.omitted = call[c].omitted
    BY <1>1, <2>1 DEF CallState
  <2>3. Accounts(new, sent'[c])
    BY <1>1, <2>1, <2>2, AccountsMoved
  <2> QED
    BY <2>1, <2>2, <2>3, CallAccounts
<1>3. CASE IntentAcked(c) \/ IntentFailed(c) \/ IntentTimeout(c) \/ DenyJournaled(c) \/ DenyTimeout(c) \/ RequestDone(c)
  <2>1. sent' = sent /\ \E label \in {"running", "denied", "refused"} : CallTo(c, label)
    BY <1>3 DEF IntentAcked, IntentFailed, IntentTimeout, DenyJournaled, DenyTimeout, RequestDone
  <2> QED
    BY <2>1, CallGoesAccounts
<1>4. CASE OutcomeAnswered(c) \/ OutcomeTimeout(c)
  <2>1. sent' = sent /\ CallTo(c, "done") /\ call[c].pc = "outcome"
    BY <1>4 DEF OutcomeAnswered, OutcomeTimeout, CallAt
  <2> QED
    BY <2>1, CallGoesAccounts
<1>5. CASE AuthorizeAllow(c) \/ AuthorizeDeny(c)
  <2>1. PICK entry, label, new :
          /\ entry \in {0, Denied} /\ label \in {"ticket", "denying"}
          /\ label = "ticket" => entry = 0
          /\ new = [Noted(call[c], entry) EXCEPT !.pc = label]
          /\ call' = [call EXCEPT ![c] = new] /\ sent' = sent
    BY <1>5 DEF AuthorizeAllow, AuthorizeDeny
  <2>2. Accounts(new, sent[c])
    BY <1>1, <2>1, NotedAccounts
  <2> QED
    BY <2>1, <2>2, CallAccounts
<1>6. CASE Send(c)
  <2>1. PICK new : /\ new = Attempted(call[c]) /\ call' = [call EXCEPT ![c] = new]
                   /\ sent' = [sent EXCEPT ![c] = sent[c] + 1] /\ call[c].pc = "ticket"
    BY <1>6 DEF Send, CallAt
  <2>2. sent'[c] = sent[c] + 1 /\ \A d \in Calls : d # c => sent'[d] = sent[d]
    BY <1>1, <2>1
  <2>3. Accounts(new, sent'[c])
    BY <1>1, <2>1, <2>2, AttemptedAccounts
  <2> QED
    BY <2>1, <2>2, <2>3, CallAccounts
<1>7. CASE FinishCall(c)
  <2>1. PICK new : /\ new = [call[c] EXCEPT !.pc = "outcome", !.summary = call[c].notes]
                   /\ call' = [call EXCEPT ![c].pc = "outcome", ![c].summary = call[c].notes] /\ sent' = sent
    BY <1>7 DEF FinishCall
  <2>2. PICK a : a = call[c].notes
    OBVIOUS
  <2>3. call' = [call EXCEPT ![c].pc = "outcome", ![c].summary = a] /\ new = [call[c] EXCEPT !.pc = "outcome", !.summary = a]
    BY <2>1, <2>2
  <2>4. call' = [call EXCEPT ![c] = new] /\ new.pc = "outcome" /\ new.notes = call[c].notes
        /\ new.summary = a /\ new.omitted = call[c].omitted
    BY <1>1, <2>3 DEF CallState
  <2>5. Accounts(new, sent'[c])
    BY <1>1, <2>1, <2>2, <2>4, AccountsMoved
  <2> QED
    BY <2>1, <2>4, <2>5, CallAccounts
<1> QED
  BY <1>2, <1>3, <1>4, <1>5, <1>6, <1>7 DEF CallStep

\* The process stops: calls under way are lost, the others keep their log.
LEMMA EgressStops ==
  ASSUME EvidenceInv, EgressInv, NEW label \in {"lost", "done", "reported"}, Stop(label)
  PROVE  EgressInv'
<1> SUFFICES ASSUME NEW c \in Calls PROVE Accounts(call'[c], sent'[c])
  BY DEF EgressInv
<1>1. Accounts(call[c], sent[c]) /\ call[c] \in CallState /\ sent' = sent
  BY DEF EvidenceInv, ProcTypes, EgressInv, Stop
<1>2. \/ call'[c] = [call[c] EXCEPT !.pc = "lost"]
      \/ call[c].pc = "done" /\ call'[c] = [call[c] EXCEPT !.pc = label]
      \/ call'[c] = call[c]
  BY DEF Stop, Pending
<1>3. ASSUME NEW step, call'[c] = [call[c] EXCEPT !.pc = step],
             step = "lost" \/ (call[c].pc = "done" /\ step \in {"lost", "done", "reported"})
      PROVE  Accounts(call'[c], sent[c])
  <2>1. /\ call'[c].pc = step /\ call'[c].notes = call[c].notes /\ call'[c].omitted = call[c].omitted
        /\ call'[c].summary = call[c].summary
    BY <1>1, <1>3 DEF CallState
  <2>2. call'[c].pc \in {"outcome", "done"} => call'[c].summary = call'[c].notes
    BY <1>1, <1>3, <2>1 DEF Accounts
  <2>3. call'[c].pc # "ticket"
    BY <1>3, <2>1
  <2>4. PICK r : r = call'[c]
    OBVIOUS
  <2>5. Accounts(r, sent[c])
    BY <1>1, <2>1, <2>2, <2>3, <2>4, AccountsMoved
  <2> QED
    BY <2>4, <2>5
<1> QED
  BY <1>1, <1>2, <1>3

LEMMA EgressStep ==
  ASSUME EvidenceInv, EgressInv, [CallNext]_callVars
  PROVE  EgressInv'
<1>1. CASE \E c \in Calls : BeginCall(c) \/ CallStep(c)
  BY <1>1, EgressCallStep
<1>2. CASE JournalStep \/ Shutdown \/ Restart \/ UNCHANGED callVars
  <2>1. call' = call /\ sent' = sent
    BY <1>2 DEF JournalStep, JournalSyncs, JournalFails, JournalRefuses, JournalWrites, Shutdown, Restart, callVars
  <2> QED
    BY <2>1 DEF EgressInv
<1>3. CASE Dies \/ Exit \/ ExitAfterBound
  BY <1>3, EgressStops DEF Dies, Exit, ExitAfterBound
<1> QED
  BY <1>1, <1>2, <1>3 DEF CallNext

\* For any number of calls, outbound requests, retries and any limit of the
\* egress log (CallScope::note_egress, EgressTicket::attempted, record_outcome):
\* the outcome record of a call never lists more attempts than went on the wire,
\* and lists every one of them unless it says that requests were omitted.
THEOREM EgressIsAccounted == CallSpec => []EgressAccounted
<1>1. CallInit => EvidenceInv /\ EgressInv
  BY EvidenceInitial, EgressInitial
<1>2. EvidenceInv /\ EgressInv /\ [CallNext]_callVars => (EvidenceInv /\ EgressInv)'
  BY EvidenceStep, EgressStep
<1>3. EvidenceInv /\ EgressInv => EgressAccounted
  BY DEF EgressInv, Accounts, EgressAccounted
<1> QED
  BY <1>1, <1>2, <1>3, PTL DEF CallSpec

-----------------------------------------------------------------------------
(* The receiver's copy.  A stream that is reused ends in the last record of *)
(* a batch, so the next batch begins a message; a stream whose write broke  *)
(* is not used again.                                                       *)

Piece == [batch : Nat, frame : Nat, whole : BOOLEAN]

IsDelivery(d) == \E pc, batch, tok : d = [pc |-> pc, batch |-> batch, token |-> tok] /\ batch \in Nat

InFrames(s) ==
  \A i \in 1..Len(s) - 1 :
    /\ s[i].whole
    /\ IF s[i].frame = Frames THEN s[i + 1].frame = 1
       ELSE s[i + 1].frame = s[i].frame + 1 /\ s[i + 1].batch = s[i].batch

\* Nothing, or whole batches to the last record.
Clean(s) == Len(s) = 0 \/ (s[Len(s)].whole /\ s[Len(s)].frame = Frames)

Holds(s, b) ==
  \E k \in 0..Len(s) - Frames :
    \A i \in 1..Frames : s[k + i] = [batch |-> b, frame |-> i, whole |-> TRUE]

Arrived(b) == b \in missed \/ b \in stored \/ \E c \in 1..Len(wire) : Holds(wire[c], b)

WireSound ==
  /\ wire \in Seq(Seq(Piece)) /\ conn \in 0..Len(wire)
  /\ \A c \in 1..Len(wire) : InFrames(wire[c])
  /\ conn # 0 => Clean(wire[conn])

DeliverySound ==
  /\ IsDelivery(delivery)
  /\ delivery.pc = "write" => conn # 0
  /\ delivery.pc = "grace" => Arrived(delivery.batch)
  /\ \A b \in acked : Arrived(b)

ForwarderInv == WireSound /\ DeliverySound

-----------------------------------------------------------------------------
(* Streams.                                                                 *)

LEMMA ConcatPieces ==
  ASSUME NEW s \in Seq(Piece), NEW t \in Seq(Piece)
  PROVE  /\ s \o t \in Seq(Piece) /\ Len(s \o t) = Len(s) + Len(t)
         /\ \A i \in 1..Len(s) : (s \o t)[i] = s[i]
         /\ \A i \in 1..Len(t) : (s \o t)[Len(s) + i] = t[i]
OBVIOUS

LEMMA StreamGoesOn ==
  ASSUME NEW s \in Seq(Piece), NEW t \in Seq(Piece), InFrames(s), Clean(s), InFrames(t),
         Len(t) > 0 => t[1].frame = 1
  PROVE  InFrames(s \o t)
<1> DEFINE u == s \o t
<1>1. /\ u \in Seq(Piece) /\ Len(u) = Len(s) + Len(t)
      /\ \A i \in 1..Len(s) : u[i] = s[i]
      /\ \A i \in 1..Len(t) : u[Len(s) + i] = t[i]
  BY ConcatPieces
<1>2. Len(s) \in Nat /\ Len(t) \in Nat
  OBVIOUS
<1> HIDE DEF u
<1>3. ASSUME NEW i \in 1..Len(u) - 1
      PROVE  /\ u[i].whole
             /\ IF u[i].frame = Frames THEN u[i + 1].frame = 1
                ELSE u[i + 1].frame = u[i].frame + 1 /\ u[i + 1].batch = u[i].batch
  <2>1. CASE i < Len(s)
    <3>1. i \in 1..Len(s) - 1 /\ i \in 1..Len(s) /\ i + 1 \in 1..Len(s)
      BY <1>2, <2>1
    <3>2. u[i] = s[i] /\ u[i + 1] = s[i + 1]
      BY <1>1, <3>1
    <3> QED
      BY <3>1, <3>2 DEF InFrames
  <2>2. CASE i = Len(s)
    <3>1. u[i] = s[Len(s)] /\ Len(s) # 0 /\ Len(t) > 0
      BY <1>1, <1>2, <2>2
    <3>2. u[i + 1] = t[1]
      BY <1>1, <1>2, <2>2, <3>1
    <3> QED
      BY <3>1, <3>2 DEF Clean
  <2>3. CASE i > Len(s)
    <3>1. PICK j \in 1..Len(t) - 1 : i = Len(s) + j
      <4>1. i - Len(s) \in 1..Len(t) - 1 /\ i = Len(s) + (i - Len(s))
        BY <1>1, <1>2, <2>3
      <4> QED
        BY <4>1
    <3>2. u[i] = t[j] /\ u[i + 1] = t[j + 1]
      <4>1. j \in 1..Len(t) /\ j + 1 \in 1..Len(t) /\ i + 1 = Len(s) + (j + 1)
        BY <1>2, <3>1
      <4> QED
        BY <1>1, <3>1, <4>1
    <3> QED
      BY <3>1, <3>2, SMTT(30) DEF InFrames
  <2> QED
    BY <1>2, <2>1, <2>2, <2>3
<1>4. InFrames(u)
  BY <1>3 DEF InFrames
<1> QED
  BY <1>4 DEF u

(* What a connection has received it keeps.                                 *)
LEMMA HoldsOn ==
  ASSUME NEW s \in Seq(Piece), NEW t \in Seq(Piece), NEW b, Holds(s, b)
  PROVE  Holds(s \o t, b)
<1>1. PICK k \in 0..Len(s) - Frames :
        \A i \in 1..Frames : s[k + i] = [batch |-> b, frame |-> i, whole |-> TRUE]
  BY DEF Holds
<1> DEFINE u == s \o t
<1>2. Len(u) = Len(s) + Len(t) /\ \A i \in 1..Len(s) : u[i] = s[i]
  BY ConcatPieces
<1> HIDE DEF u
<1>3. Len(s) \in Nat /\ Len(t) \in Nat /\ Frames \in Nat \ {0}
  BY ForwarderConstants
<1>4. k \in 0..Len(u) - Frames /\ \A i \in 1..Frames : k + i \in 1..Len(s)
  BY <1>1, <1>2, <1>3
<1>5. Holds(u, b)
  BY <1>1, <1>2, <1>4 DEF Holds
<1> QED
  BY <1>5 DEF u

(* The octets of a batch: whole records, or all but the last of them whole. *)
LEMMA PiecesSound ==
  ASSUME NEW n \in 0..Frames, delivery.batch \in Nat
  PROVE  /\ Pieces(n) \in Seq(Piece) /\ Len(Pieces(n)) = n /\ InFrames(Pieces(n))
         /\ n > 0 => Pieces(n)[1].frame = 1
         /\ \A i \in 1..n : Pieces(n)[i] = [batch |-> delivery.batch, frame |-> i, whole |-> TRUE]
<1> USE ForwarderConstants
<1>1. \A i \in 1..n : Pieces(n)[i] = [batch |-> delivery.batch, frame |-> i, whole |-> TRUE]
  BY DEF Pieces
<1>2. Pieces(n) \in Seq(Piece) /\ Len(Pieces(n)) = n
  <2>1. Pieces(n) \in [1..n -> Piece]
    BY DEF Pieces, Piece
  <2> QED
    BY <2>1, n \in Nat
<1>3. InFrames(Pieces(n))
  BY <1>1, <1>2 DEF InFrames
<1> QED
  BY <1>1, <1>2, <1>3

LEMMA TornSound ==
  ASSUME NEW n \in 1..Frames, delivery.batch \in Nat
  PROVE  Torn(n) \in Seq(Piece) /\ Len(Torn(n)) = n /\ InFrames(Torn(n)) /\ Torn(n)[1].frame = 1
<1> USE ForwarderConstants
<1> DEFINE p == Pieces(n - 1)
           e == [batch |-> delivery.batch, frame |-> n, whole |-> FALSE]
<1>1. /\ p \in Seq(Piece) /\ Len(p) = n - 1
      /\ \A i \in 1..n - 1 : p[i] = [batch |-> delivery.batch, frame |-> i, whole |-> TRUE]
  BY n - 1 \in 0..Frames, PiecesSound
<1>2. e \in Piece /\ e.frame = n /\ e.batch = delivery.batch
  BY DEF Piece
<1> HIDE DEF p, e
<1>3. PICK q : q = Append(p, e)
  OBVIOUS
<1>4. /\ q \in Seq(Piece) /\ Len(q) = n /\ q[n] = e
      /\ \A i \in 1..n - 1 : q[i] = p[i]
  BY <1>1, <1>2, <1>3
<1>5. /\ \A i \in 1..n - 1 : q[i].frame = i /\ q[i].batch = delivery.batch /\ q[i].whole
      /\ q[n].frame = n /\ q[n].batch = delivery.batch
  <2>1. \A i \in 1..n - 1 : q[i] = [batch |-> delivery.batch, frame |-> i, whole |-> TRUE]
    BY <1>1, <1>4
  <2>2. ASSUME NEW i \in 1..n - 1
        PROVE  q[i].frame = i /\ q[i].batch = delivery.batch /\ q[i].whole
    <3>1. q[i] = [batch |-> delivery.batch, frame |-> i, whole |-> TRUE]
      BY <2>1
    <3>2. q[i].frame = i /\ q[i].batch = delivery.batch
      BY <3>1
    <3>3. q[i].whole = TRUE
      BY <3>1
    <3> QED
      BY <3>2, <3>3, Zenon
  <2> QED
    BY <1>2, <1>4, <2>2
<1>6. q[1].frame = 1
  <2>1. 1 = n \/ 1 \in 1..n - 1
    OBVIOUS
  <2> QED
    BY <1>5, <2>1
<1>7. InFrames(q)
  <2> SUFFICES ASSUME NEW i \in 1..n - 1
               PROVE  /\ q[i].whole /\ q[i].frame # Frames
                      /\ q[i + 1].frame = q[i].frame + 1 /\ q[i + 1].batch = q[i].batch
    BY <1>4 DEF InFrames
  <2>1. i + 1 = n \/ i + 1 \in 1..n - 1
    OBVIOUS
  <2>2. q[i + 1].frame = i + 1 /\ q[i + 1].batch = delivery.batch
    BY <1>5, <2>1
  <2> QED
    BY <1>5, <2>2
<1> QED
  BY <1>3, <1>4, <1>6, <1>7 DEF Torn, p, e

-----------------------------------------------------------------------------
(* Steps.                                                                   *)

LEMMA ForwarderInitial == ForwarderInit => ForwarderInv
<1> SUFFICES ASSUME ForwarderInit PROVE ForwarderInv
  OBVIOUS
<1>1. wire \in Seq(Seq(Piece)) /\ Len(wire) = 0 /\ conn = 0 /\ acked = {}
  BY DEF ForwarderInit
<1>2. delivery = [pc |-> "idle", batch |-> 1, token |-> "none"] /\ 1 \in Nat
  BY DEF ForwarderInit, NoDelivery
<1>3. IsDelivery(delivery) /\ delivery.pc = "idle"
  BY <1>2, Zenon DEF IsDelivery
<1>4. WireSound
  BY <1>1 DEF WireSound
<1> QED
  BY <1>1, <1>3, <1>4 DEF ForwarderInv, DeliverySound

(* The call in flight, after a step. *)
To(d, pc) == [d EXCEPT !.pc = pc]
With(d, pc, tok) == [d EXCEPT !.pc = pc, !.token = tok]

LEMMA DeliveryMoves ==
  ASSUME NEW d, IsDelivery(d), NEW pc
  PROVE  /\ d.batch \in Nat
         /\ IsDelivery(To(d, pc)) /\ To(d, pc).pc = pc /\ To(d, pc).batch = d.batch
         /\ IsDelivery([pc |-> "idle", batch |-> d.batch + 1, token |-> "none"])
<1>1. PICK pc0, batch, tok0 :
        d = [pc |-> pc0, batch |-> batch, token |-> tok0] /\ batch \in Nat
  BY DEF IsDelivery
<1>2. To(d, pc) = [pc |-> pc, batch |-> batch, token |-> tok0]
  BY <1>1 DEF To
<1>3. d.batch = batch /\ batch + 1 \in Nat
  BY <1>1
<1>4. IsDelivery(To(d, pc))
  BY <1>1, <1>2 DEF IsDelivery
<1>5. IsDelivery([pc |-> "idle", batch |-> d.batch + 1, token |-> "none"])
  BY <1>3 DEF IsDelivery
<1> QED
  BY <1>1, <1>2, <1>3, <1>4, <1>5

LEMMA DeliveryTurns ==
  ASSUME NEW d, IsDelivery(d), NEW pc, NEW tok
  PROVE  IsDelivery(With(d, pc, tok)) /\ With(d, pc, tok).pc = pc
<1>1. PICK pc0, batch, tok0 :
        d = [pc |-> pc0, batch |-> batch, token |-> tok0] /\ batch \in Nat
  BY DEF IsDelivery
<1>2. With(d, pc, tok) = [pc |-> pc, batch |-> batch, token |-> tok]
  <2>1. PICK e : e = [d EXCEPT !.pc = pc, !.token = tok]
    OBVIOUS
  <2>2. e = [pc |-> pc, batch |-> batch, token |-> tok]
    BY <1>1, <2>1
  <2> QED
    BY <2>1, <2>2 DEF With
<1>3. IsDelivery(With(d, pc, tok))
  BY <1>1, <1>2 DEF IsDelivery
<1> QED
  BY <1>2, <1>3

(* The wire and the receiver's store only grow, so what arrived stays so.   *)
LEMMA Stays ==
  ASSUME missed \subseteq missed', stored \subseteq stored', Len(wire) <= Len(wire'),
         Len(wire) \in Nat, Len(wire') \in Nat,
         \A c \in 1..Len(wire) : \A b : Holds(wire[c], b) => Holds(wire'[c], b)
  PROVE  \A b : Arrived(b) => Arrived(b)'
BY DEF Arrived

LEMMA SameWire ==
  ASSUME UNCHANGED wire, missed \subseteq missed', stored \subseteq stored'
  PROVE  \A b : Arrived(b) => Arrived(b)'
BY DEF Arrived

(* The wire grows on the connection in use. *)
LEMMA WireGrows ==
  ASSUME WireSound, conn # 0, NEW t \in Seq(Piece), InFrames(t), Len(t) > 0 => t[1].frame = 1,
         Reaches(t)
  PROVE  /\ wire' \in Seq(Seq(Piece)) /\ Len(wire') = Len(wire) /\ wire'[conn] = wire[conn] \o t
         /\ \A c \in 1..Len(wire') : InFrames(wire'[c])
         /\ \A c \in 1..Len(wire) : \A b : Holds(wire[c], b) => Holds(wire'[c], b)
<1>1. conn \in 1..Len(wire) /\ wire \in Seq(Seq(Piece)) /\ Len(wire) \in Nat
  BY DEF WireSound
<1>2. PICK s, u : s = wire[conn] /\ u = s \o t
  OBVIOUS
<1>3. s \in Seq(Piece) /\ u \in Seq(Piece)
  BY <1>1, <1>2, ConcatPieces
<1>4. wire' = [wire EXCEPT ![conn] = u]
  BY <1>2 DEF Reaches
<1>5. /\ wire' \in Seq(Seq(Piece)) /\ Len(wire') = Len(wire) /\ wire'[conn] = u
      /\ \A c \in 1..Len(wire) : c # conn => wire'[c] = wire[c]
  BY <1>1, <1>3, <1>4
<1>6. InFrames(u)
  BY <1>1, <1>2, <1>3, StreamGoesOn DEF WireSound
<1>7. \A b : Holds(s, b) => Holds(u, b)
  BY <1>2, <1>3, HoldsOn
<1> QED
  BY <1>1, <1>2, <1>5, <1>6, <1>7 DEF WireSound

(* A step that leaves the wire alone, or drops the connection. *)
LEMMA DeliverMoves ==
  ASSUME ForwarderInv, UNCHANGED wire, missed \subseteq missed', stored \subseteq stored',
         conn' \in {0, conn}, IsDelivery(delivery)', delivery'.pc = "write" => conn' # 0,
         delivery'.pc = "grace" => Arrived(delivery.batch)',
         \A b \in acked' : b \in acked \/ Arrived(b)'
  PROVE  ForwarderInv'
<1>1. \A b : Arrived(b) => Arrived(b)'
  BY SameWire
<1>2. WireSound'
  BY DEF ForwarderInv, WireSound
<1>3. (delivery'.pc = "grace" => Arrived(delivery.batch)') /\ \A b \in acked' : Arrived(b)'
  BY <1>1 DEF ForwarderInv, DeliverySound
<1> QED
  BY <1>2, <1>3 DEF ForwarderInv, DeliverySound, Arrived

LEMMA FailedCall ==
  ASSUME IsDelivery(delivery), Fails
  PROVE  IsDelivery(delivery)' /\ delivery'.pc = "idle" /\ acked' = acked
<1>1. delivery' = With(delivery, "idle", "none") /\ acked' = acked
  BY DEF Fails, With
<1> QED
  BY <1>1, DeliveryTurns

LEMMA AcknowledgedCall ==
  ASSUME IsDelivery(delivery), Acknowledge
  PROVE  /\ IsDelivery(delivery)' /\ delivery'.pc = "idle"
         /\ acked' = acked \cup {delivery.batch}
BY DeliveryMoves DEF Acknowledge

LEMMA StepDeliver == ForwarderInv /\ Deliver => ForwarderInv'
<1> SUFFICES ASSUME ForwarderInv, Deliver PROVE ForwarderInv'
  OBVIOUS
<1>1. PICK pc, tok : /\ delivery' = With(delivery, pc, tok) /\ pc \in {"check", "request"}
  BY DEF Deliver, With
<1>2. IsDelivery(delivery)' /\ delivery'.pc \in {"check", "request"}
  BY <1>1, DeliveryTurns DEF ForwarderInv, DeliverySound
<1>3. UNCHANGED <<wire, missed, stored, conn, acked>>
  BY DEF Deliver
<1> QED
  BY <1>2, <1>3, DeliverMoves

LEMMA StepCheckPeer == ForwarderInv /\ CheckPeer => ForwarderInv'
<1> SUFFICES ASSUME ForwarderInv, CheckPeer PROVE ForwarderInv'
  OBVIOUS
<1>1. PICK pc : /\ delivery' = To(delivery, pc) /\ pc = IF conn' = 0 THEN "connect" ELSE "write"
  BY DEF CheckPeer, To
<1>2. IsDelivery(delivery)' /\ delivery'.pc = pc
  BY <1>1, DeliveryMoves DEF ForwarderInv, DeliverySound
<1>3. UNCHANGED <<wire, missed, stored, acked>> /\ conn' \in {0, conn}
  BY DEF CheckPeer
<1> QED
  BY <1>1, <1>2, <1>3, DeliverMoves

LEMMA StepConnect == ForwarderInv /\ Connect => ForwarderInv'
<1> SUFFICES ASSUME ForwarderInv, Connect PROVE ForwarderInv'
  OBVIOUS
<1>1. UNCHANGED <<stored, missed>>
  BY DEF Connect
<1>2. CASE Fails /\ UNCHANGED <<conn, peer, wire>>
  BY <1>1, <1>2, FailedCall, DeliverMoves DEF ForwarderInv, DeliverySound
<1>3. CASE /\ wire' = Append(wire, <<>>) /\ conn' = Len(wire')
           /\ delivery' = [delivery EXCEPT !.pc = "write"] /\ UNCHANGED acked
  <2>1. wire \in Seq(Seq(Piece)) /\ Len(wire) \in Nat
    BY DEF ForwarderInv, WireSound
  <2>2. PICK none : none = <<>>
    OBVIOUS
  <2>3. none \in Seq(Piece) /\ Len(none) = 0
    BY <2>2
  <2>4. /\ wire' \in Seq(Seq(Piece)) /\ Len(wire') = Len(wire) + 1 /\ wire'[Len(wire) + 1] = none
        /\ \A c \in 1..Len(wire) : wire'[c] = wire[c]
    BY <1>3, <2>1, <2>2, <2>3
  <2>5. InFrames(none) /\ Clean(none)
    BY <2>3 DEF InFrames, Clean
  <2>6. \A c \in 1..Len(wire') : c \in 1..Len(wire) \/ c = Len(wire) + 1
    BY <2>1, <2>4
  <2>7. WireSound'
    BY <1>3, <2>1, <2>4, <2>5, <2>6 DEF ForwarderInv, WireSound
  <2>8. \A b : Arrived(b) => Arrived(b)'
    BY <1>1, <2>1, <2>4, Stays
  <2>9. IsDelivery(delivery)' /\ delivery'.pc = "write"
    <3>1. delivery' = To(delivery, "write")
      BY <1>3 DEF To
    <3> QED
      BY <3>1, DeliveryMoves DEF ForwarderInv, DeliverySound
  <2>10. conn' # 0
    BY <1>3, <2>1, <2>4
  <2>11. \A b \in acked' : Arrived(b)'
    BY <1>3, <2>8 DEF ForwarderInv, DeliverySound
  <2> QED
    BY <2>7, <2>9, <2>10, <2>11 DEF ForwarderInv, DeliverySound, Arrived
<1> QED
  BY <1>2, <1>3 DEF Connect

LEMMA StepWriteAll == ForwarderInv /\ WriteAll => ForwarderInv'
<1> SUFFICES ASSUME ForwarderInv, WriteAll PROVE ForwarderInv'
  OBVIOUS
<1>1. /\ UNCHANGED <<stored, acked, conn>> /\ conn # 0 /\ IsDelivery(delivery)
      /\ delivery' = To(delivery, "grace")
  BY DEF WriteAll, ForwarderInv, DeliverySound, To
<1>2. /\ IsDelivery(delivery)' /\ delivery'.pc = "grace" /\ delivery'.batch = delivery.batch
      /\ delivery.batch \in Nat
  BY <1>1, DeliveryMoves
<1>3. CASE missed' = missed \cup {delivery.batch} /\ UNCHANGED wire
  <2>1. Arrived(delivery.batch)'
    BY <1>2, <1>3 DEF Arrived
  <2> QED
    BY <1>1, <1>2, <1>3, <2>1, DeliverMoves
<1>4. CASE Reaches(Pieces(Frames)) /\ UNCHANGED missed
  <2>1. PICK t : t = Pieces(Frames)
    OBVIOUS
  <2>2. Frames \in 0..Frames /\ Frames > 0 /\ Frames \in Nat
    BY ForwarderConstants
  <2>3. /\ t \in Seq(Piece) /\ Len(t) = Frames /\ InFrames(t) /\ t[1].frame = 1
        /\ \A i \in 1..Frames : t[i] = [batch |-> delivery.batch, frame |-> i, whole |-> TRUE]
    BY <1>2, <2>1, <2>2, PiecesSound
  <2>4. /\ wire' \in Seq(Seq(Piece)) /\ Len(wire') = Len(wire) /\ wire'[conn] = wire[conn] \o t
        /\ \A c \in 1..Len(wire') : InFrames(wire'[c])
        /\ \A c \in 1..Len(wire) : \A b : Holds(wire[c], b) => Holds(wire'[c], b)
    BY <1>1, <1>4, <2>1, <2>3, WireGrows DEF ForwarderInv
  <2>5. conn \in 1..Len(wire) /\ wire[conn] \in Seq(Piece) /\ Len(wire) \in Nat
    BY <1>1 DEF ForwarderInv, WireSound
  <2>6. PICK s, u : s = wire[conn] /\ u = s \o t
    OBVIOUS
  <2>7. /\ Len(u) = Len(s) + Frames /\ Len(s) \in Nat
        /\ \A i \in 1..Frames : u[Len(s) + i] = t[i]
    <3>1. s \in Seq(Piece) /\ t \in Seq(Piece) /\ Len(t) = Frames
      BY <2>3, <2>5, <2>6
    <3>2. Len(s \o t) = Len(s) + Len(t) /\ \A i \in 1..Len(t) : (s \o t)[Len(s) + i] = t[i]
      BY <3>1, ConcatPieces
    <3>3. Len(s) \in Nat
      BY <3>1
    <3> QED
      BY <2>6, <3>1, <3>2, <3>3, Zenon
  <2>8. Clean(u)
    <3>1. u[Len(u)] = [batch |-> delivery.batch, frame |-> Frames, whole |-> TRUE]
      <4>1. Frames \in 1..Frames /\ Len(u) = Len(s) + Frames
        BY <2>2, <2>7
      <4> QED
        BY <2>3, <2>7, <4>1
    <3>2. u[Len(u)].frame = Frames
      BY <3>1
    <3>3. u[Len(u)].whole = TRUE
      BY <3>1
    <3> QED
      BY <3>2, <3>3 DEF Clean
  <2>9. Holds(u, delivery.batch)
    <3>1. Len(s) \in 0..Len(u) - Frames
      BY <2>2, <2>7
    <3> QED
      BY <2>3, <2>7, <3>1 DEF Holds
  <2>10. \A b : Arrived(b) => Arrived(b)'
    BY <1>1, <1>4, <2>4, <2>5, Stays
  <2>11. Arrived(delivery.batch)'
    BY <1>2, <2>4, <2>5, <2>6, <2>9 DEF Arrived
  <2>12. WireSound'
    BY <1>1, <2>4, <2>5, <2>6, <2>8 DEF WireSound
  <2>13. \A b \in acked' : Arrived(b)'
    BY <1>1, <2>10 DEF ForwarderInv, DeliverySound
  <2> QED
    BY <1>1, <1>2, <2>11, <2>12, <2>13 DEF ForwarderInv, DeliverySound
<1> QED
  BY <1>3, <1>4 DEF WriteAll

LEMMA StepWriteBreaks == ForwarderInv /\ WriteBreaks => ForwarderInv'
<1> SUFFICES ASSUME ForwarderInv, WriteBreaks PROVE ForwarderInv'
  OBVIOUS
<1>1. /\ UNCHANGED <<stored, missed>> /\ conn # 0 /\ conn' = 0 /\ IsDelivery(delivery)
      /\ Fails
  BY DEF WriteBreaks, ForwarderInv, DeliverySound
<1>2. IsDelivery(delivery)' /\ delivery'.pc = "idle" /\ acked' = acked /\ delivery.batch \in Nat
  BY <1>1, FailedCall, DeliveryMoves
<1>3. CASE UNCHANGED wire
  BY <1>1, <1>2, <1>3, DeliverMoves
<1>4. CASE \E n \in 1..Frames : Reaches(Torn(n)) \/ Reaches(Pieces(n - 1))
  <2>1. PICK n \in 1..Frames : Reaches(Torn(n)) \/ Reaches(Pieces(n - 1))
    BY <1>4
  <2>2. PICK t \in Seq(Piece) : InFrames(t) /\ (Len(t) > 0 => t[1].frame = 1) /\ Reaches(t)
    <3>1. CASE Reaches(Torn(n))
      BY <1>2, <2>1, <3>1, TornSound
    <3>2. CASE Reaches(Pieces(n - 1))
      <4>1. n - 1 \in 0..Frames
        BY <2>1, ForwarderConstants
      <4> QED
        BY <1>2, <3>2, <4>1, PiecesSound
    <3> QED
      BY <2>1, <3>1, <3>2
  <2>3. /\ wire' \in Seq(Seq(Piece)) /\ Len(wire') = Len(wire)
        /\ \A c \in 1..Len(wire') : InFrames(wire'[c])
        /\ \A c \in 1..Len(wire) : \A b : Holds(wire[c], b) => Holds(wire'[c], b)
    BY <1>1, <2>2, WireGrows DEF ForwarderInv
  <2>4. Len(wire) \in Nat /\ missed \subseteq missed' /\ stored \subseteq stored'
    BY <1>1 DEF ForwarderInv, WireSound
  <2>5. \A b : Arrived(b) => Arrived(b)'
    <3>1. Len(wire) <= Len(wire') /\ Len(wire') \in Nat
      BY <2>3, <2>4
    <3> QED
      BY <2>3, <2>4, <3>1, Stays
  <2>6. WireSound'
    BY <1>1, <2>3, <2>4 DEF WireSound
  <2>7. \A b \in acked' : Arrived(b)'
    BY <1>2, <2>5 DEF ForwarderInv, DeliverySound
  <2> QED
    BY <1>2, <2>6, <2>7 DEF ForwarderInv, DeliverySound
<1> QED
  BY <1>3, <1>4 DEF WriteBreaks

LEMMA StepGrace == ForwarderInv /\ Grace => ForwarderInv'
<1> SUFFICES ASSUME ForwarderInv, Grace PROVE ForwarderInv'
  OBVIOUS
<1>1. /\ UNCHANGED <<wire, stored, missed>> /\ IsDelivery(delivery) /\ Arrived(delivery.batch)
      /\ conn' \in {0, conn}
  BY DEF Grace, ForwarderInv, DeliverySound
<1>2. CASE Fails
  BY <1>1, <1>2, FailedCall, DeliverMoves
<1>3. CASE Acknowledge
  <2>1. PICK b : b = delivery.batch /\ Arrived(b)
    BY <1>1
  <2>2. Arrived(b)'
    BY <1>1, <2>1, SameWire
  <2>3. IsDelivery(delivery)' /\ delivery'.pc = "idle" /\ acked' = acked \cup {b}
    BY <1>1, <1>3, <2>1, AcknowledgedCall
  <2> QED
    BY <1>1, <2>2, <2>3, DeliverMoves
<1> QED
  BY <1>2, <1>3 DEF Grace

LEMMA StepRequest == ForwarderInv /\ (Request \/ RequestBreaks) => ForwarderInv'
<1> SUFFICES ASSUME ForwarderInv, Request \/ RequestBreaks PROVE ForwarderInv'
  OBVIOUS
<1>1. UNCHANGED <<wire, conn, missed>> /\ stored \subseteq stored' /\ IsDelivery(delivery)
  BY DEF Request, RequestBreaks, ForwarderInv, DeliverySound
<1>2. CASE Fails
  BY <1>1, <1>2, FailedCall, DeliverMoves
<1>3. CASE stored' = stored \cup {delivery.batch} /\ Acknowledge
  <2>1. PICK b : b = delivery.batch
    OBVIOUS
  <2>2. Arrived(b)'
    BY <1>3, <2>1 DEF Arrived
  <2>3. IsDelivery(delivery)' /\ delivery'.pc = "idle" /\ acked' = acked \cup {b}
    BY <1>1, <1>3, <2>1, AcknowledgedCall
  <2> QED
    BY <1>1, <2>2, <2>3, DeliverMoves
<1> QED
  BY <1>2, <1>3 DEF Request, RequestBreaks

LEMMA ForwarderStep == ForwarderInv /\ [ForwarderNext]_forwarderVars => ForwarderInv'
<1> SUFFICES ASSUME ForwarderInv, [ForwarderNext]_forwarderVars PROVE ForwarderInv'
  OBVIOUS
<1>1. CASE PeerLeaves \/ Rotate \/ UNCHANGED forwarderVars
  <2>1. UNCHANGED <<delivery, conn, wire, stored, acked, missed>>
    BY <1>1 DEF PeerLeaves, Rotate, forwarderVars
  <2> QED
    BY <2>1 DEF ForwarderInv, WireSound, DeliverySound, Arrived
<1> QED
  BY <1>1, StepDeliver, StepCheckPeer, StepConnect, StepWriteAll, StepWriteBreaks, StepGrace,
     StepRequest DEF ForwarderNext

(* DeliveryHonest, for batches of any size and any number of reconnects,    *)
(* broken writes and rotated tokens: a receiver reads whole messages in     *)
(* order on every connection, an acknowledged batch was handed over whole   *)
(* but for a peer that left unnoticed, and no adapter sends plain text off  *)
(* this host (the two adapters' deliver).                                   *)
THEOREM ReceiversServed == ForwarderSpec => []DeliveryHonest
<1>1. ForwarderInv => StreamInFrames
  BY DEF ForwarderInv, WireSound, StreamInFrames, InFrames
<1>2. ForwarderInv => AckedIsDelivered
  BY DEF ForwarderInv, DeliverySound, AckedIsDelivered, Arrived, Holds
<1>3. NeverPlain
  BY DEF NeverPlain, Adapter, SyslogBuilds, HttpBuilds, FormatOf
<1> QED
  BY <1>1, <1>2, <1>3, ForwarderInitial, ForwarderStep, PTL DEF ForwarderSpec, DeliveryHonest

-----------------------------------------------------------------------------
(* Rollups: deleting rows, and the sum over rows, one row after the other.  *)

UsageRow ==
  [id : Nat, ts : Nat, subject : {k.subject : k \in UsageKinds}, vendor : {k.vendor : k \in UsageKinds},
   env : {k.env : k \in UsageKinds}, allow : BOOLEAN, ok : BOOLEAN, ms : Nat]

Deletes(u, rows, gone) ==
  /\ u[0] = <<>> /\ Without(rows, gone) = u[Len(rows)]
  /\ \A n \in 1 .. Len(rows) : u[n] = IF n \in gone THEN u[n - 1] ELSE Append(u[n - 1], rows[n])

LEMMA WithoutWalks ==
  ASSUME NEW R, NEW rows \in Seq(R), NEW gone
  PROVE  \E u : Deletes(u, rows, gone)
<1>1. PICK N \in Nat : N = Len(rows)
  OBVIOUS
<1>2. \A n \in 1 .. N : rows[n] \in R
  BY <1>1
<1> DEFINE G == [n \in 1 .. N |-> [x \in Seq(R) |-> IF n \in gone THEN x ELSE Append(x, rows[n])]]
<1>3. G \in Steps(N, Seq(R)) /\ <<>> \in Seq(R)
  BY <1>2 DEF Steps
<1>4. PICK g \in [0 .. N -> Seq(R)] : g[0] = <<>> /\ \A n \in 1 .. N : g[n] = G[n][g[n - 1]]
  <2> HIDE DEF G
  <2>1. PICK f : Walk(f, N, Seq(R), <<>>, G)
    BY <1>3, Iterates, Zenon
  <2> QED
    BY <2>1 DEF Walk
<1>5. ASSUME NEW n \in 1 .. N
      PROVE  g[n] = IF n \in gone THEN g[n - 1] ELSE Append(g[n - 1], rows[n])
  <2>1. g[n - 1] \in Seq(R)
    <3>1. n - 1 \in 0 .. N
      OBVIOUS
    <3> QED
      BY <3>1
  <2> QED
    BY <1>4, <2>1
<1> DEFINE Adds(f) == f = [n \in 0 .. Len(rows) |->
                             IF n = 0 THEN <<>>
                             ELSE IF n \in gone THEN f[n - 1] ELSE Append(f[n - 1], rows[n])]
<1>6. Adds(g)
  <2>1. \A n \in 0 .. N : g[n] = IF n = 0 THEN <<>>
                                 ELSE IF n \in gone THEN g[n - 1] ELSE Append(g[n - 1], rows[n])
    <3>1. \A n \in 0 .. N : n # 0 => n \in 1 .. N
      OBVIOUS
    <3> QED
      BY <1>4, <1>5, <3>1
  <2> QED
    BY <1>1, <2>1
<1> DEFINE u == CHOOSE f : Adds(f)
<1>7. Adds(u)
  BY <1>6, Zenon
<1>8. Without(rows, gone) = u[Len(rows)]
  BY DEF Without
<1> HIDE DEF u
<1>9. u[0] = <<>>
  <2>1. 0 \in 0 .. Len(rows)
    BY <1>1
  <2> QED
    BY <1>7, <2>1
<1>10. \A n \in 1 .. N : u[n] = IF n \in gone THEN u[n - 1] ELSE Append(u[n - 1], rows[n])
  <2>1. \A n \in 1 .. N : n \in 0 .. Len(rows) /\ n # 0
    BY <1>1
  <2> QED
    BY <1>7, <2>1, Zenon
<1> QED
  BY <1>1, <1>8, <1>9, <1>10 DEF Deletes

Ascending(rows) == \A i, j \in 1 .. Len(rows) : i < j => rows[i].id < rows[j].id

\* What is kept of the first n rows.
KeptOf(a, R, rows, gone, n) ==
  /\ a \in Seq(R) /\ IsFiniteSet(gone \cap (1 .. n))
  /\ Len(a) + Cardinality(gone \cap (1 .. n)) = n
  /\ \A i \in 1 .. Len(a) : \E k \in 1 .. n : a[i] = rows[k]
  /\ Ascending(rows) => Ascending(a)

LEMMA RowGoes ==
  ASSUME NEW R, NEW rows \in Seq(R), NEW gone, NEW n \in 1 .. Len(rows), NEW a,
         KeptOf(a, R, rows, gone, n - 1), n \in gone
  PROVE  KeptOf(a, R, rows, gone, n)
<1>1. PICK H : H = gone \cap (1 .. n - 1)
  OBVIOUS
<1>2. gone \cap (1 .. n) = H \cup {n} /\ n \notin H
  BY <1>1
<1>3. IsFiniteSet(H) /\ Len(a) + Cardinality(H) = n - 1 /\ Len(a) \in Nat
  BY <1>1 DEF KeptOf
<1>4. Cardinality(H) \in Nat
  BY <1>3, FS_CardinalityType
<1>5. IsFiniteSet(H \cup {n}) /\ Cardinality(H \cup {n}) = Cardinality(H) + 1
  BY <1>2, <1>3, FS_AddElement
<1>6. IsFiniteSet(gone \cap (1 .. n)) /\ Len(a) + Cardinality(gone \cap (1 .. n)) = n
  <2>1. Len(a) + (Cardinality(H) + 1) = n
    BY <1>3, <1>4
  <2> QED
    BY <1>2, <1>5, <2>1, Zenon
<1>7. \A i \in 1 .. Len(a) : \E k \in 1 .. n : a[i] = rows[k]
  BY DEF KeptOf
<1> QED
  BY <1>6, <1>7 DEF KeptOf

LEMMA RowStays ==
  ASSUME NEW R, NEW rows \in Seq(R), NEW gone, NEW n \in 1 .. Len(rows), NEW a,
         KeptOf(a, R, rows, gone, n - 1), n \notin gone
  PROVE  KeptOf(Append(a, rows[n]), R, rows, gone, n)
<1>1. PICK H : H = gone \cap (1 .. n - 1)
  OBVIOUS
<1>2. gone \cap (1 .. n) = H
  BY <1>1
<1>3. IsFiniteSet(H) /\ Len(a) + Cardinality(H) = n - 1 /\ Len(a) \in Nat /\ a \in Seq(R) /\ rows[n] \in R
  BY <1>1 DEF KeptOf
<1>4. Cardinality(H) \in Nat
  BY <1>3, FS_CardinalityType
<1>5. PICK b : b = Append(a, rows[n])
  OBVIOUS
<1>6. /\ b \in Seq(R) /\ Len(b) = Len(a) + 1 /\ b[Len(a) + 1] = rows[n]
      /\ \A i \in 1 .. Len(a) : b[i] = a[i]
  BY <1>3, <1>5
<1>7. IsFiniteSet(gone \cap (1 .. n)) /\ Len(b) + Cardinality(gone \cap (1 .. n)) = n
  <2>1. Len(b) + Cardinality(H) = n
    BY <1>3, <1>4, <1>6
  <2> QED
    BY <1>2, <1>3, <2>1, Zenon
<1>8. \A i \in 1 .. Len(a) : \E k \in 1 .. n - 1 : a[i] = rows[k]
  BY DEF KeptOf
<1>9. \A i \in 1 .. Len(b) : i # Len(a) + 1 => i \in 1 .. Len(a)
  BY <1>3, <1>6
<1>10. ASSUME NEW i \in 1 .. Len(b) PROVE \E k \in 1 .. n : b[i] = rows[k]
  <2>1. CASE i = Len(a) + 1
    BY <1>6, <2>1
  <2>2. CASE i # Len(a) + 1
    <3>1. PICK k \in 1 .. n - 1 : a[i] = rows[k]
      BY <1>8, <1>9, <2>2
    <3> QED
      BY <1>6, <1>9, <2>2, <3>1
  <2> QED
    BY <2>1, <2>2
<1>11. ASSUME Ascending(rows) PROVE Ascending(b)
  <2> SUFFICES ASSUME NEW i \in 1 .. Len(b), NEW j \in 1 .. Len(b), i < j PROVE b[i].id < b[j].id
    BY DEF Ascending
  <2>1. i \in 1 .. Len(a) /\ b[i] = a[i]
    BY <1>3, <1>6
  <2>2. CASE j = Len(a) + 1
    <3>1. PICK k \in 1 .. n - 1 : a[i] = rows[k]
      BY <1>8, <2>1
    <3>2. k \in 1 .. Len(rows) /\ k < n
      OBVIOUS
    <3>3. rows[k].id < rows[n].id
      BY <1>11, <3>2 DEF Ascending
    <3> QED
      BY <1>6, <2>1, <2>2, <3>1, <3>3
  <2>3. CASE j # Len(a) + 1
    <3>1. j \in 1 .. Len(a) /\ b[j] = a[j]
      BY <1>6, <1>9, <2>3
    <3>2. Ascending(a)
      BY <1>11 DEF KeptOf
    <3> QED
      BY <2>1, <3>1, <3>2 DEF Ascending
  <2> QED
    BY <2>2, <2>3
<1> QED
  BY <1>5, <1>6, <1>7, <1>10, <1>11 DEF KeptOf

\* The rows that stay are rows of the table, in its order.
LEMMA WithoutKeeps ==
  ASSUME NEW R, NEW rows \in Seq(R), NEW gone \in SUBSET (1 .. Len(rows))
  PROVE  /\ Without(rows, gone) \in Seq(R)
         /\ Len(Without(rows, gone)) + Cardinality(gone) = Len(rows)
         /\ \A i \in 1 .. Len(Without(rows, gone)) : \E k \in 1 .. Len(rows) : Without(rows, gone)[i] = rows[k]
         /\ Ascending(rows) => Ascending(Without(rows, gone))
<1>1. PICK N \in Nat : N = Len(rows)
  OBVIOUS
<1>2. PICK u : Deletes(u, rows, gone)
  BY WithoutWalks
<1> DEFINE S == {n \in 0 .. N : KeptOf(u[n], R, rows, gone, n)}
<1>3. 0 \in S
  <2>1. u[0] = <<>> /\ gone \cap (1 .. 0) = {}
    BY <1>2 DEF Deletes
  <2>2. <<>> \in Seq(R) /\ Len(<<>>) = 0 /\ IsFiniteSet({}) /\ Cardinality({}) = 0
    BY FS_EmptySet
  <2>3. KeptOf(u[0], R, rows, gone, 0)
    BY <2>1, <2>2 DEF Ascending, KeptOf
  <2> QED
    BY <2>3
<1>4. ASSUME NEW n \in 1 .. N, n - 1 \in S PROVE n \in S
  <2>1. u[n] = IF n \in gone THEN u[n - 1] ELSE Append(u[n - 1], rows[n])
    BY <1>1, <1>2 DEF Deletes
  <2>2. KeptOf(u[n - 1], R, rows, gone, n - 1) /\ n \in 1 .. Len(rows)
    BY <1>1, <1>4
  <2>3. KeptOf(u[n], R, rows, gone, n)
    BY <2>1, <2>2, RowGoes, RowStays
  <2> QED
    BY <2>3
<1>5. N \in S
  <2>1. \A n \in 0 .. N : n \in S
    <3> HIDE DEF S
    <3> QED
      BY <1>3, <1>4, UpTo
  <2>2. N \in 0 .. N
    OBVIOUS
  <2> HIDE DEF S
  <2> QED
    BY <2>1, <2>2
<1>6. gone \cap (1 .. N) = gone
  BY <1>1
<1>7. Without(rows, gone) = u[N]
  BY <1>1, <1>2 DEF Deletes
<1>8. KeptOf(u[N], R, rows, gone, N)
  BY <1>5
<1> QED
  BY <1>1, <1>6, <1>7, <1>8 DEF KeptOf

-----------------------------------------------------------------------------
(* The events are accounted for.  A batch in hand exists only from its      *)
(* first event to its append; the table, the batch and the channel hold     *)
(* ever later events.                                                       *)

LEMMA RowTypes ==
  ASSUME NEW rows \in Seq(UsageRow), NEW i \in 1 .. Len(rows)
  PROVE  /\ rows[i] \in UsageRow /\ rows[i].id \in Nat /\ rows[i].ts \in Nat /\ rows[i].ms \in Nat
         /\ rows[i].allow \in BOOLEAN /\ rows[i].ok \in BOOLEAN
<1>1. rows[i] \in UsageRow
  OBVIOUS
<1> QED
  BY <1>1 DEF UsageRow

Below(a, b) == \A i \in 1 .. Len(a), j \in 1 .. Len(b) : a[i].id < b[j].id

IdsUpTo(a, n) == \A i \in 1 .. Len(a) : a[i].id <= n

UsageInv ==
  /\ channel \in Seq(UsageRow) /\ pending \in Seq(UsageRow) /\ usage \in Seq(UsageRow)
  /\ dropped \in Nat /\ pruned \in Nat /\ recorded \in Nat /\ abandoned \in Nat /\ now \in Nat
  /\ stage = "wait" => pending = <<>>
  /\ Len(usage) + pruned + Len(pending) + Len(channel) + dropped + abandoned = recorded
  /\ Ascending(usage) /\ Ascending(pending) /\ Ascending(channel)
  /\ Below(usage, pending) /\ Below(usage, channel) /\ Below(pending, channel)
  /\ IdsUpTo(usage, recorded) /\ IdsUpTo(pending, recorded) /\ IdsUpTo(channel, recorded)

LEMMA UsageInitial == RollupInit => UsageInv
<1> SUFFICES ASSUME RollupInit PROVE UsageInv
  OBVIOUS
<1>1. <<>> \in Seq(UsageRow) /\ Len(<<>>) = 0
  OBVIOUS
<1> QED
  BY <1>1 DEF RollupInit, UsageInv, Ascending, Below, IdsUpTo

LEMMA RecordKeeps ==
  ASSUME UsageInv, NEW kind \in UsageKinds, Record(kind)
  PROVE  UsageInv'
<1>1. /\ recorded' = recorded + 1
      /\ pending' = pending /\ usage' = usage /\ pruned' = pruned /\ stage' = stage /\ now' = now /\ abandoned' = abandoned
  BY DEF Record
<1>2. recorded \in Nat /\ recorded' \in Nat /\ dropped \in Nat
  BY <1>1 DEF UsageInv
<1>3. IdsUpTo(usage, recorded') /\ IdsUpTo(pending, recorded')
  <2>1. \A n \in Nat : n <= recorded => n <= recorded'
    BY <1>1, <1>2
  <2>2. /\ \A i \in 1 .. Len(usage) : usage[i].id \in Nat
        /\ \A i \in 1 .. Len(pending) : pending[i].id \in Nat
    BY RowTypes DEF UsageInv
  <2> QED
    BY <2>1, <2>2 DEF UsageInv, IdsUpTo
<1>4. \A i \in 1 .. Len(channel) : channel[i].id \in Nat /\ channel[i].id <= recorded'
  <2>1. \A i \in 1 .. Len(channel) : channel[i].id \in Nat /\ channel[i].id <= recorded
    BY RowTypes DEF UsageInv, IdsUpTo
  <2> QED
    BY <1>1, <1>2, <2>1
<1>5. CASE channel' = channel /\ dropped' = dropped + 1
  <2>1. IdsUpTo(channel', recorded')
    BY <1>4, <1>5 DEF IdsUpTo
  <2>2. Len(usage') + pruned' + Len(pending') + Len(channel') + dropped' + abandoned' = recorded'
    BY <1>1, <1>5 DEF UsageInv
  <2> QED
    BY <1>1, <1>2, <1>3, <1>5, <2>1, <2>2 DEF UsageInv
<1>6. CASE channel' = Append(channel, Row(recorded', now, kind)) /\ dropped' = dropped
  <2>1. PICK row : row = Row(recorded', now, kind)
    OBVIOUS
  <2>2. row \in UsageRow /\ row.id = recorded'
    <3>1. now \in Nat /\ kind.allow \in BOOLEAN /\ kind.ok \in BOOLEAN /\ kind.ms \in Nat
      BY RollupConstants DEF UsageInv
    <3> QED
      BY <1>2, <2>1, <3>1 DEF Row, UsageRow
  <2>3. PICK L \in Nat : L = Len(channel)
    BY DEF UsageInv
  <2>4. /\ channel' \in Seq(UsageRow) /\ Len(channel') = L + 1 /\ channel'[L + 1] = row
        /\ \A i \in 1 .. L : channel'[i] = channel[i]
    BY <1>6, <2>1, <2>2, <2>3 DEF UsageInv
  <2>5. \A i \in 1 .. Len(channel') : i # L + 1 => i \in 1 .. L
    BY <2>4
  <2>6. /\ \A i \in 1 .. Len(usage) : usage[i].id < recorded'
        /\ \A i \in 1 .. Len(pending) : pending[i].id < recorded'
        /\ \A i \in 1 .. L : channel[i].id < recorded'
    <3>1. \A n \in Nat : n <= recorded => n < recorded'
      BY <1>1, <1>2
    <3>2. /\ \A i \in 1 .. Len(usage) : usage[i].id \in Nat
          /\ \A i \in 1 .. Len(pending) : pending[i].id \in Nat
          /\ \A i \in 1 .. L : channel[i].id \in Nat
      BY <2>3, RowTypes DEF UsageInv
    <3> QED
      BY <2>3, <3>1, <3>2 DEF UsageInv, IdsUpTo
  <2>7. Below(usage, channel') /\ Below(pending, channel')
    <3>1. Below(usage, channel) /\ Below(pending, channel)
      BY DEF UsageInv
    <3> QED
      BY <2>2, <2>3, <2>4, <2>5, <2>6, <3>1 DEF Below
  <2>8. Ascending(channel')
    <3> SUFFICES ASSUME NEW i \in 1 .. Len(channel'), NEW j \in 1 .. Len(channel'), i < j
                 PROVE  channel'[i].id < channel'[j].id
      BY DEF Ascending
    <3>1. i \in 1 .. L /\ channel'[i] = channel[i]
      BY <2>4
    <3>2. CASE j = L + 1
      BY <2>2, <2>4, <2>6, <3>1, <3>2
    <3>3. CASE j # L + 1
      <4>1. j \in 1 .. L /\ channel'[j] = channel[j]
        BY <2>4, <2>5, <3>3
      <4> QED
        BY <2>3, <3>1, <4>1 DEF UsageInv, Ascending
    <3> QED
      BY <3>2, <3>3
  <2>9. IdsUpTo(channel', recorded')
    BY <1>2, <1>4, <2>2, <2>3, <2>4, <2>5 DEF IdsUpTo
  <2>10. Len(usage') + pruned' + Len(pending') + Len(channel') + dropped' + abandoned' = recorded'
    <3>1. Len(usage) \in Nat /\ Len(pending) \in Nat
      BY DEF UsageInv
    <3> HIDE DEF Row
    <3> QED
      BY <1>1, <1>2, <1>6, <2>3, <2>4, <3>1 DEF UsageInv
  <2> QED
    BY <1>1, <1>2, <1>3, <1>6, <2>4, <2>7, <2>8, <2>9, <2>10 DEF UsageInv
<1> QED
  BY <1>5, <1>6 DEF Record

\* The first event of the channel moves to the end of the batch.
LEMMA EventTaken ==
  ASSUME UsageInv, channel # <<>>, pending' = Append(pending, Head(channel)), channel' = Tail(channel),
         usage' = usage, dropped' = dropped, pruned' = pruned, recorded' = recorded, now' = now,
         abandoned' = abandoned, stage' # "wait"
  PROVE  UsageInv'
<1>1. PICK L \in Nat : L = Len(channel)
  BY DEF UsageInv
<1>2. PICK M \in Nat : M = Len(pending)
  BY DEF UsageInv
<1>3. L > 0 /\ Head(channel) = channel[1] /\ channel[1] \in UsageRow
  BY <1>1 DEF UsageInv
<1>4. /\ channel' \in Seq(UsageRow) /\ Len(channel') = L - 1
      /\ \A i \in 1 .. L - 1 : channel'[i] = channel[i + 1] /\ i + 1 \in 1 .. L /\ 1 < i + 1
  BY <1>1, <1>3 DEF UsageInv
<1>5. /\ pending' \in Seq(UsageRow) /\ Len(pending') = M + 1 /\ pending'[M + 1] = channel[1]
      /\ \A i \in 1 .. M : pending'[i] = pending[i]
  BY <1>2, <1>3 DEF UsageInv
<1>6. \A i \in 1 .. Len(pending') : i # M + 1 => i \in 1 .. M
  BY <1>5
<1>7. 1 \in 1 .. L
  BY <1>3
<1>8. Ascending(channel')
  <2> SUFFICES ASSUME NEW i \in 1 .. L - 1, NEW j \in 1 .. L - 1, i < j PROVE channel'[i].id < channel'[j].id
    BY <1>4 DEF Ascending
  <2>1. i + 1 < j + 1 /\ i + 1 \in 1 .. L /\ j + 1 \in 1 .. L
    OBVIOUS
  <2>2. channel[i + 1].id < channel[j + 1].id
    BY <1>1, <2>1 DEF UsageInv, Ascending
  <2> QED
    BY <1>4, <2>2
<1>9. Ascending(pending')
  <2> SUFFICES ASSUME NEW i \in 1 .. Len(pending'), NEW j \in 1 .. Len(pending'), i < j
               PROVE  pending'[i].id < pending'[j].id
    BY DEF Ascending
  <2>1. i \in 1 .. M /\ pending'[i] = pending[i]
    BY <1>5
  <2>2. CASE j = M + 1
    BY <1>1, <1>2, <1>5, <1>7, <2>1, <2>2 DEF UsageInv, Below
  <2>3. CASE j # M + 1
    <3>1. j \in 1 .. M /\ pending'[j] = pending[j]
      BY <1>5, <1>6, <2>3
    <3> QED
      BY <1>2, <2>1, <3>1 DEF UsageInv, Ascending
  <2> QED
    BY <2>2, <2>3
<1>10. Below(usage, pending')
  <2> SUFFICES ASSUME NEW i \in 1 .. Len(usage), NEW j \in 1 .. Len(pending') PROVE usage[i].id < pending'[j].id
    BY DEF Below
  <2>1. CASE j = M + 1
    BY <1>1, <1>5, <1>7, <2>1 DEF UsageInv, Below
  <2>2. CASE j # M + 1
    BY <1>2, <1>5, <1>6, <2>2 DEF UsageInv, Below
  <2> QED
    BY <2>1, <2>2
<1>11. Below(usage, channel')
  BY <1>1, <1>4 DEF UsageInv, Below
<1>12. Below(pending', channel')
  <2> SUFFICES ASSUME NEW i \in 1 .. Len(pending'), NEW j \in 1 .. L - 1 PROVE pending'[i].id < channel'[j].id
    BY <1>4 DEF Below
  <2>1. CASE i = M + 1
    <3>1. channel[1].id < channel[j + 1].id
      BY <1>1, <1>4, <1>7 DEF UsageInv, Ascending
    <3> QED
      BY <1>4, <1>5, <2>1, <3>1
  <2>2. CASE i # M + 1
    BY <1>1, <1>2, <1>4, <1>5, <1>6, <2>2 DEF UsageInv, Below
  <2> QED
    BY <2>1, <2>2
<1>13. IdsUpTo(channel', recorded)
  BY <1>1, <1>4 DEF UsageInv, IdsUpTo
<1>14. IdsUpTo(pending', recorded)
  BY <1>1, <1>2, <1>5, <1>6, <1>7 DEF UsageInv, IdsUpTo
<1>15. Len(usage') + pruned' + Len(pending') + Len(channel') + dropped' + abandoned' = recorded'
  BY <1>1, <1>2, <1>4, <1>5 DEF UsageInv
<1> QED
  BY <1>4, <1>5, <1>8, <1>9, <1>10, <1>11, <1>12, <1>13, <1>14, <1>15 DEF UsageInv

\* The batch is in the table.
LEMMA BatchStored ==
  ASSUME UsageInv, usage' = usage \o pending, pending' = <<>>, channel' = channel \/ channel' = <<>>,
         abandoned' = abandoned + (Len(channel) - Len(channel')),
         dropped' = dropped, pruned' = pruned, recorded' = recorded, now' = now
  PROVE  UsageInv'
<1>1. PICK L \in Nat : L = Len(usage)
  BY DEF UsageInv
<1>2. PICK M \in Nat : M = Len(pending)
  BY DEF UsageInv
<1>3. /\ usage' \in Seq(UsageRow) /\ Len(usage') = L + M
      /\ \A i \in 1 .. L : usage'[i] = usage[i]
      /\ \A i \in 1 .. L + M : i \notin 1 .. L => i - L \in 1 .. M /\ usage'[i] = pending[i - L]
  BY <1>1, <1>2 DEF UsageInv
<1>4. pending' \in Seq(UsageRow) /\ Len(pending') = 0
  OBVIOUS
<1>5. Ascending(usage')
  <2> SUFFICES ASSUME NEW i \in 1 .. L + M, NEW j \in 1 .. L + M, i < j PROVE usage'[i].id < usage'[j].id
    BY <1>3 DEF Ascending
  <2>1. CASE i \in 1 .. L /\ j \in 1 .. L
    BY <1>1, <1>3, <2>1 DEF UsageInv, Ascending
  <2>2. CASE i \in 1 .. L /\ j \notin 1 .. L
    BY <1>1, <1>2, <1>3, <2>2 DEF UsageInv, Below
  <2>3. CASE i \notin 1 .. L
    <3>1. j \notin 1 .. L
      BY <2>3
    <3>2. i - L < j - L
      OBVIOUS
    <3>3. pending[i - L].id < pending[j - L].id
      BY <1>2, <1>3, <2>3, <3>1, <3>2 DEF UsageInv, Ascending
    <3> QED
      BY <1>3, <2>3, <3>1, <3>3
  <2> QED
    BY <2>1, <2>2, <2>3
<1>6. Below(usage', channel) /\ IdsUpTo(channel, recorded) /\ Ascending(channel)
  <2>1. Below(usage', channel)
    BY <1>1, <1>2, <1>3 DEF UsageInv, Below
  <2> QED
    BY <2>1 DEF UsageInv
<1>7. IdsUpTo(usage', recorded)
  BY <1>1, <1>2, <1>3 DEF UsageInv, IdsUpTo
<1>8. PICK K \in Nat, C \in Nat :
        /\ K = Len(channel) /\ C = Len(channel') /\ C <= K /\ channel' \in Seq(UsageRow)
        /\ Below(usage', channel') /\ IdsUpTo(channel', recorded') /\ Ascending(channel')
  <2>1. CASE channel' = channel
    BY <1>6, <2>1 DEF UsageInv
  <2>2. CASE channel' = <<>>
    <3>1. Len(channel') = 0 /\ channel' \in Seq(UsageRow)
      BY <2>2
    <3>2. Below(usage', channel') /\ IdsUpTo(channel', recorded') /\ Ascending(channel')
      BY <3>1 DEF Below, IdsUpTo, Ascending
    <3> QED
      BY <3>1, <3>2 DEF UsageInv
  <2> QED
    BY <2>1, <2>2
<1>9. /\ abandoned' \in Nat
      /\ Len(usage') + pruned' + Len(pending') + Len(channel') + dropped' + abandoned' = recorded'
  <2>1. L + pruned + M + K + dropped + abandoned = recorded
    BY <1>1, <1>2, <1>8 DEF UsageInv
  <2>2. pruned \in Nat /\ dropped \in Nat /\ abandoned \in Nat /\ recorded \in Nat
    BY DEF UsageInv
  <2>3. abandoned' = abandoned + (K - C)
    BY <1>8
  <2>4. abandoned' \in Nat /\ (L + M) + pruned + 0 + C + dropped + abandoned' = recorded
    BY <1>8, <2>1, <2>2, <2>3
  <2> QED
    BY <1>3, <1>4, <1>8, <2>4, Zenon
<1>10. Ascending(pending') /\ Below(usage', pending') /\ Below(pending', channel') /\ IdsUpTo(pending', recorded')
  BY <1>4 DEF Ascending, Below, IdsUpTo
<1> QED
  BY <1>3, <1>4, <1>5, <1>7, <1>8, <1>9, <1>10 DEF UsageInv

\* The last append failed: the batch and the channel are left behind.
LEMMA BatchLost ==
  ASSUME UsageInv, usage' = usage, pending' = <<>>, channel' = <<>>,
         abandoned' = abandoned + (Len(pending) - Len(pending')) + (Len(channel) - Len(channel')),
         dropped' = dropped, pruned' = pruned, recorded' = recorded, now' = now
  PROVE  UsageInv'
<1>1. PICK L \in Nat, M \in Nat, K \in Nat : L = Len(usage) /\ M = Len(pending) /\ K = Len(channel)
  BY DEF UsageInv
<1>2. /\ Len(pending') = 0 /\ Len(channel') = 0
      /\ pending' \in Seq(UsageRow) /\ channel' \in Seq(UsageRow)
  OBVIOUS
<1>3. pruned \in Nat /\ dropped \in Nat /\ abandoned \in Nat /\ recorded \in Nat
  BY DEF UsageInv
<1>4. L + pruned + M + K + dropped + abandoned = recorded
  BY <1>1 DEF UsageInv
<1>5. abandoned' = abandoned + (M - 0) + (K - 0)
  BY <1>1, <1>2
<1>6. abandoned' \in Nat /\ L + pruned + 0 + 0 + dropped + abandoned' = recorded
  BY <1>3, <1>4, <1>5
<1>7. Len(usage') + pruned' + Len(pending') + Len(channel') + dropped' + abandoned' = recorded'
  BY <1>1, <1>2, <1>6, Zenon
<1>8. /\ Ascending(pending') /\ Ascending(channel') /\ Below(usage', pending') /\ Below(usage', channel')
      /\ Below(pending', channel') /\ IdsUpTo(pending', recorded') /\ IdsUpTo(channel', recorded')
  BY <1>2 DEF Ascending, Below, IdsUpTo
<1> QED
  BY <1>2, <1>6, <1>7, <1>8 DEF UsageInv

\* The consumer takes all that is queued, with no batch in hand.
LEMMA DrainKeeps == UsageInv /\ Drain => UsageInv'
<1> SUFFICES ASSUME UsageInv, Drain PROVE UsageInv'
  OBVIOUS
<1>1. /\ pending = <<>> /\ pending' = channel /\ channel' = <<>> /\ usage' = usage /\ dropped' = dropped
      /\ pruned' = pruned /\ recorded' = recorded /\ now' = now /\ abandoned' = abandoned
      /\ stage' = IF channel = <<>> THEN "stopped" ELSE "final"
  BY DEF UsageInv, Drain
<1>2. channel' \in Seq(UsageRow) /\ Len(channel') = 0 /\ Len(pending) = 0
  BY <1>1
<1>3. Ascending(channel') /\ Below(usage', channel') /\ Below(pending', channel') /\ IdsUpTo(channel', recorded')
  BY <1>2 DEF Ascending, Below, IdsUpTo
<1>4. stage' # "wait"
  BY <1>1
<1>5. Len(usage') + pruned' + Len(pending') + Len(channel') + dropped' + abandoned' = recorded'
  <2>1. Len(channel) \in Nat /\ Len(usage) \in Nat /\ pruned \in Nat /\ dropped \in Nat /\ abandoned \in Nat
    BY DEF UsageInv
  <2> QED
    BY <1>1, <1>2, <2>1 DEF UsageInv
<1>6. pending' \in Seq(UsageRow) /\ Ascending(pending') /\ Below(usage', pending') /\ IdsUpTo(pending', recorded')
  BY <1>1 DEF UsageInv
<1> QED
  BY <1>1, <1>2, <1>3, <1>4, <1>5, <1>6 DEF UsageInv

LEMMA PruneKeeps ==
  ASSUME UsageInv, Prune, pending' = pending, channel' = channel, dropped' = dropped,
         recorded' = recorded, abandoned' = abandoned, now' = now, stage' = "wait" => pending = <<>>
  PROVE  UsageInv'
<1>1. CASE usage' = usage /\ pruned' = pruned
  BY <1>1 DEF UsageInv
<1>2. CASE /\ usage' = Without(usage, Expired(usage, Cutoff))
           /\ pruned' = pruned + Cardinality(Expired(usage, Cutoff))
  <2>1. PICK gone : gone = Expired(usage, Cutoff)
    OBVIOUS
  <2>2. usage \in Seq(UsageRow) /\ gone \in SUBSET (1 .. Len(usage))
    BY <2>1 DEF UsageInv, Expired
  <2>3. /\ usage' \in Seq(UsageRow) /\ Len(usage') + Cardinality(gone) = Len(usage)
        /\ \A i \in 1 .. Len(usage') : \E k \in 1 .. Len(usage) : usage'[i] = usage[k]
        /\ Ascending(usage) => Ascending(usage')
    BY <1>2, <2>1, <2>2, WithoutKeeps
  <2>4. Cardinality(gone) \in Nat
    <3>1. IsFiniteSet(1 .. Len(usage))
      BY <2>2, FS_Interval
    <3>2. IsFiniteSet(gone)
      BY <2>2, <3>1, FS_Subset
    <3> QED
      BY <3>2, FS_CardinalityType
  <2>5. pruned' = pruned + Cardinality(gone)
    BY <1>2, <2>1
  <2>6. /\ pruned \in Nat /\ Len(usage) \in Nat /\ Len(usage') \in Nat /\ Len(pending) \in Nat
        /\ Len(channel) \in Nat /\ dropped \in Nat /\ abandoned \in Nat
    BY <2>2, <2>3 DEF UsageInv
  <2>7. pruned' \in Nat /\ Len(usage') + pruned' + Len(pending') + Len(channel') + dropped' + abandoned' = recorded'
    <3>1. Len(usage) + pruned + Len(pending) + Len(channel) + dropped + abandoned = recorded
      BY DEF UsageInv
    <3>2. Len(usage') + Cardinality(gone) = Len(usage)
      BY <2>3
    <3>3. PICK a \in Nat, b \in Nat, c \in Nat, x \in Nat, y \in Nat :
            /\ a = Len(usage) /\ b = Len(pending) /\ c = Len(channel)
            /\ x = Len(usage') /\ y = Cardinality(gone)
      BY <2>4, <2>6, Zenon
    <3>4. a + pruned + b + c + dropped + abandoned = recorded /\ x + y = a
      BY <3>1, <3>2, <3>3, Zenon
    <3>5. pruned + y \in Nat /\ x + (pruned + y) + b + c + dropped + abandoned = recorded
      BY <2>6, <3>4
    <3> QED
      BY <2>5, <3>3, <3>5, Zenon
  <2>8. Below(usage', pending') /\ Below(usage', channel') /\ IdsUpTo(usage', recorded')
    BY <2>3 DEF UsageInv, Below, IdsUpTo
  <2> QED
    BY <2>3, <2>7, <2>8 DEF UsageInv
<1> QED
  BY <1>1, <1>2 DEF Prune

\* Batches, and what is left behind.  A batch is never larger than Batch but
\* for the last one, and only the last append leaves anything behind.
BatchInv ==
  /\ storeFailures \in Nat
  /\ stage \in {"linger", "backoff"} => Len(pending) <= Batch
  /\ stage = "backoff" => storeFailures > 0
  /\ abandoned > 0 => stage = "stopped" /\ cancelled /\ storeFailures > 0
  /\ stage = "final" => cancelled /\ channel = <<>>

LEMMA RefusedKept ==
  ASSUME UsageInv, Len(pending) <= Batch
  PROVE  RefusedBatch(pending) = pending
<1>1. Len(pending) \in Nat /\ Batch \in Nat
  BY RollupConstants DEF UsageInv
<1> QED
  BY <1>1 DEF RefusedBatch

LEMMA AppendKeeps ==
  ASSUME UsageInv, BatchInv, NEW was, AppendBatch(was), was = stage, dropped' = dropped,
         pruned' = pruned, recorded' = recorded, now' = now, cancelled' = cancelled,
         was \in {"linger", "final", "backoff"}, was = "backoff" => cancelled
  PROVE  UsageInv' /\ BatchInv'
<1>1. Len(pending) \in Nat /\ Len(channel) \in Nat /\ abandoned \in Nat /\ storeFailures \in Nat
  BY DEF UsageInv, BatchInv
<1>2. abandoned = 0
  BY <1>1 DEF BatchInv
<1>3. CASE usage' = usage \o pending /\ unhealthy' = FALSE /\ storeFailures' = storeFailures
  <2>1. /\ pending' = <<>> /\ (channel' = channel \/ channel' = <<>>)
        /\ abandoned' = abandoned + 0 + (Len(channel) - Len(channel'))
        /\ stage' = IF was = "linger" THEN "wait" ELSE "stopped"
        /\ channel' = IF stage' = "stopped" THEN <<>> ELSE channel
    <3>1. stage' = AfterAppend(~unhealthy', was)
      BY DEF AppendBatch
    <3>2. stage' = IF was = "linger" THEN "wait" ELSE "stopped"
      <4>1. CASE was = "linger"
        BY <1>3, <3>1, <4>1 DEF AfterAppend
      <4>2. CASE was # "linger"
        BY <3>1, <4>2 DEF AfterAppend
      <4> QED
        BY <4>1, <4>2
    <3>3. channel' = IF stage' = "stopped" THEN <<>> ELSE channel
      BY DEF AppendBatch
    <3>4. pending' = <<>>
      BY <1>3 DEF AppendBatch
    <3>5. abandoned' = abandoned + (IF unhealthy' THEN Len(pending) - Len(pending') ELSE 0)
                                 + (Len(channel) - Len(channel'))
      BY DEF AppendBatch
    <3>6. (IF unhealthy' THEN Len(pending) - Len(pending') ELSE 0) = 0
      BY <1>3
    <3>7. abandoned' = abandoned + 0 + (Len(channel) - Len(channel'))
      BY <3>5, <3>6
    <3> QED
      BY <3>2, <3>3, <3>4, <3>7
  <2>2. PICK C \in Nat : C = Len(channel') /\ (channel' = channel => C = Len(channel))
    BY <1>1, <2>1
  <2>3. abandoned + 0 + (Len(channel) - Len(channel')) = abandoned + (Len(channel) - Len(channel'))
    BY <1>1, <2>2
  <2>4. UsageInv'
    BY <1>3, <2>1, <2>3, BatchStored
  <2>5. CASE was = "linger"
    <3>1. stage' = "wait" /\ channel' = channel
      BY <2>1, <2>5
    <3>2. abandoned' = 0
      BY <1>1, <1>2, <2>1, <3>1
    <3> QED
      BY <1>1, <1>3, <2>4, <3>1, <3>2 DEF BatchInv
  <2>6. CASE was = "final"
    <3>1. stage' = "stopped" /\ channel' = <<>> /\ channel = <<>> /\ cancelled
      BY <2>1, <2>6 DEF BatchInv
    <3>2. abandoned' = 0
      BY <1>1, <1>2, <2>1, <3>1
    <3> QED
      BY <1>1, <1>3, <2>4, <3>1, <3>2 DEF BatchInv
  <2>7. CASE was = "backoff"
    BY <1>1, <1>3, <2>1, <2>4, <2>7 DEF BatchInv
  <2> QED
    BY <2>5, <2>6, <2>7
<1>4. CASE usage' = usage /\ unhealthy' = TRUE /\ storeFailures' = storeFailures + 1
  <2>1. CASE was = "linger"
    <3>1. /\ stage' = "backoff" /\ pending' = RefusedBatch(pending) /\ channel' = channel
          /\ abandoned' = abandoned + (Len(pending) - Len(pending')) + (Len(channel) - Len(channel'))
      BY <1>4, <2>1 DEF AppendBatch, AfterAppend
    <3>2. pending' = pending /\ Len(pending) <= Batch
      BY <2>1, <3>1, RefusedKept DEF BatchInv
    <3>3. abandoned' = abandoned
      BY <1>1, <3>1, <3>2
    <3> QED
      BY <1>1, <1>2, <1>4, <3>1, <3>2, <3>3 DEF UsageInv, BatchInv
  <2>2. CASE was \in {"final", "backoff"}
    <3>1. /\ stage' = "stopped" /\ pending' = <<>> /\ channel' = <<>> /\ cancelled
          /\ abandoned' = abandoned + (Len(pending) - Len(pending')) + (Len(channel) - Len(channel'))
      BY <1>4, <2>2 DEF AppendBatch, AfterAppend, BatchInv
    <3>2. UsageInv'
      BY <1>4, <3>1, BatchLost
    <3> QED
      BY <1>1, <1>4, <3>1, <3>2 DEF BatchInv
  <2> QED
    BY <2>1, <2>2
<1> QED
  BY <1>3, <1>4 DEF AppendBatch

LEMMA UsageStep == UsageInv /\ BatchInv /\ [RollupNext]_rollupVars => UsageInv' /\ BatchInv'
<1> SUFFICES ASSUME UsageInv, BatchInv, [RollupNext]_rollupVars PROVE UsageInv' /\ BatchInv'
  OBVIOUS
<1>a. Len(pending) \in Nat /\ abandoned \in Nat /\ storeFailures \in Nat /\ Batch \in Nat \ {0}
  BY RollupConstants DEF UsageInv, BatchInv
<1>1. ASSUME NEW kind \in UsageKinds, Record(kind) PROVE UsageInv' /\ BatchInv'
  <2>1. BatchInv'
    BY <1>1 DEF Record, BatchInv
  <2> QED
    BY <1>1, <2>1, RecordKeeps
<1>2. CASE FirstEvent
  <2>1. pending = <<>> /\ Head(channel) \in UsageRow
    BY <1>2 DEF UsageInv, FirstEvent
  <2>2. pending' = Append(pending, Head(channel)) /\ stage' = "linger" /\ Len(pending') = 1
    BY <1>2, <2>1 DEF FirstEvent
  <2>3. UsageInv'
    BY <1>2, <2>2, EventTaken DEF FirstEvent
  <2>4. BatchInv'
    BY <1>2, <1>a, <2>2 DEF FirstEvent, BatchInv
  <2> QED
    BY <2>3, <2>4
<1>3. CASE QuietPrune
  <2>1. /\ Prune /\ pending' = pending /\ channel' = channel /\ dropped' = dropped
        /\ recorded' = recorded /\ abandoned' = abandoned /\ now' = now /\ (stage' = "wait" => pending = <<>>)
    BY <1>3 DEF QuietPrune, UsageInv
  <2>2. BatchInv'
    BY <1>3, <1>a DEF QuietPrune, Prune, BatchInv
  <2> QED
    BY <2>1, <2>2, PruneKeeps
<1>4. CASE Drain
  <2>1. BatchInv'
    BY <1>4 DEF Drain, BatchInv
  <2> QED
    BY <1>4, <2>1, DrainKeeps
<1>5. CASE TopUp
  <2>1. UsageInv'
    BY <1>5, EventTaken DEF TopUp
  <2>2. Len(pending') = Len(pending) + 1
    BY <1>5 DEF TopUp, UsageInv
  <2>3. BatchInv'
    BY <1>5, <1>a, <2>2 DEF TopUp, BatchInv
  <2> QED
    BY <2>1, <2>3
<1>6. CASE Write
  <2>1. stage \in {"linger", "final"} /\ AppendBatch(stage)
    BY <1>6 DEF Write
  <2> QED
    BY <1>6, <2>1, AppendKeeps DEF Write
<1>7. CASE Retry
  <2>1. /\ pending' = pending /\ channel' = channel /\ dropped' = dropped /\ abandoned' = abandoned
        /\ recorded' = recorded /\ now' = now /\ stage' = "linger"
    BY <1>7 DEF Retry
  <2>2. BatchInv'
    BY <1>7, <1>a DEF Retry, Prune, BatchInv
  <2>3. CASE Prune
    BY <2>1, <2>2, <2>3, PruneKeeps
  <2>4. CASE UNCHANGED <<usage, pruned>>
    BY <2>1, <2>2, <2>4 DEF UsageInv
  <2> QED
    BY <1>7, <2>3, <2>4 DEF Retry
<1>8. CASE CancelledRetry
  BY <1>8, AppendKeeps DEF CancelledRetry
<1>9. CASE Cancel
  BY <1>9 DEF Cancel, UsageInv, BatchInv
<1>10. CASE Elapse
  BY <1>10 DEF Elapse, UsageInv, BatchInv
<1>11. CASE UNCHANGED rollupVars
  BY <1>11 DEF rollupVars, UsageInv, BatchInv
<1> QED
  BY <1>1, <1>2, <1>3, <1>4, <1>5, <1>6, <1>7, <1>8, <1>9, <1>10, <1>11 DEF RollupNext

LEMMA UsageFollows == UsageInv /\ BatchInv => UsageAccounted
<1> SUFFICES ASSUME UsageInv, BatchInv PROVE UsageAccounted
  OBVIOUS
<1>1. PICK L \in Nat, M \in Nat, K \in Nat : L = Len(usage) /\ M = Len(pending) /\ K = Len(channel)
  BY DEF UsageInv
<1> DEFINE front == usage \o pending
           both == front \o channel
<1>2. /\ front \in Seq(UsageRow) /\ Len(front) = L + M
      /\ \A i \in 1 .. L : front[i] = usage[i]
      /\ \A i \in 1 .. L + M : i \notin 1 .. L => i - L \in 1 .. M /\ front[i] = pending[i - L]
  BY <1>1 DEF UsageInv
<1>3. Ascending(front)
  <2> HIDE DEF front
  <2> SUFFICES ASSUME NEW i \in 1 .. L + M, NEW j \in 1 .. L + M, i < j PROVE front[i].id < front[j].id
    BY <1>2 DEF Ascending
  <2>1. CASE i \in 1 .. L /\ j \in 1 .. L
    BY <1>1, <1>2, <2>1 DEF UsageInv, Ascending
  <2>2. CASE i \in 1 .. L /\ j \notin 1 .. L
    BY <1>1, <1>2, <2>2 DEF UsageInv, Below
  <2>3. CASE i \notin 1 .. L
    <3>1. j \notin 1 .. L /\ i - L < j - L
      BY <2>3
    <3>2. pending[i - L].id < pending[j - L].id
      BY <1>1, <1>2, <2>3, <3>1 DEF UsageInv, Ascending
    <3> QED
      BY <1>2, <2>3, <3>1, <3>2
  <2> QED
    BY <2>1, <2>2, <2>3
<1>4. Below(front, channel)
  <2> HIDE DEF front
  <2> QED
    BY <1>1, <1>2 DEF UsageInv, Below
<1>5. PICK F \in Nat : F = Len(front)
  BY <1>2
<1>6. /\ both \in Seq(UsageRow) /\ Len(both) = F + K /\ DOMAIN both = 1 .. F + K
      /\ \A i \in 1 .. F : both[i] = front[i]
      /\ \A i \in 1 .. F + K : i \notin 1 .. F => i - F \in 1 .. K /\ both[i] = channel[i - F]
  <2>1. front \in Seq(UsageRow) /\ channel \in Seq(UsageRow)
    BY <1>2 DEF UsageInv
  <2> HIDE DEF front
  <2> QED
    BY <1>1, <1>5, <2>1
<1>7. ASSUME NEW i \in 1 .. F + K, NEW j \in 1 .. F + K, i < j PROVE both[i].id < both[j].id
  <2> HIDE DEF front, both
  <2>1. CASE i \in 1 .. F /\ j \in 1 .. F
    BY <1>3, <1>5, <1>6, <1>7, <2>1 DEF Ascending
  <2>2. CASE i \in 1 .. F /\ j \notin 1 .. F
    BY <1>1, <1>4, <1>5, <1>6, <2>2 DEF Below
  <2>3. CASE i \notin 1 .. F
    <3>1. j \notin 1 .. F /\ i - F < j - F
      BY <1>7, <2>3
    <3>2. channel[i - F].id < channel[j - F].id
      BY <1>1, <1>6, <2>3, <3>1 DEF UsageInv, Ascending
    <3> QED
      BY <1>6, <2>3, <3>1, <3>2
  <2> QED
    BY <2>1, <2>2, <2>3
<1>8. \A i, j \in DOMAIN both : i < j => both[i].id < both[j].id
  <2> HIDE DEF both
  <2> QED
    BY <1>6, <1>7
<1>9. Len(usage) + pruned + Len(pending) + Len(channel) + dropped + abandoned = recorded
  BY DEF UsageInv
<1>10. abandoned > 0 => stage = "stopped" /\ cancelled /\ storeFailures > 0
  BY DEF BatchInv
<1> QED
  BY <1>8, <1>9, <1>10, Zenon DEF UsageAccounted

-----------------------------------------------------------------------------
(* The reports: what one more row adds to a statement's answer.             *)

SumsOf(u, rows, places) ==
  /\ u \in [0 .. Len(rows) -> Nat] /\ u[0] = 0 /\ SqlSum(rows, places) = u[Len(rows)]
  /\ \A n \in 1 .. Len(rows) : u[n] = u[n - 1] + (IF n \in places THEN rows[n].ms ELSE 0)

LEMMA SqlSumWalks ==
  ASSUME NEW rows \in Seq(UsageRow), NEW places
  PROVE  \E u : SumsOf(u, rows, places)
<1>1. PICK N \in Nat : N = Len(rows)
  OBVIOUS
<1> DEFINE inc(n) == IF n \in places THEN rows[n].ms ELSE 0
<1>2. \A n \in 1 .. N : inc(n) \in Nat
  BY <1>1, RowTypes
<1> DEFINE G == [n \in 1 .. N |-> [x \in Nat |-> x + inc(n)]]
<1>3. G \in Steps(N, Nat) /\ 0 \in Nat
  <2> HIDE DEF inc
  <2> QED
    BY <1>2 DEF Steps
<1>4. PICK g \in [0 .. N -> Nat] : g[0] = 0 /\ \A n \in 1 .. N : g[n] = G[n][g[n - 1]]
  <2> HIDE DEF G
  <2>1. PICK f : Walk(f, N, Nat, 0, G)
    BY <1>3, Iterates, Zenon
  <2> QED
    BY <2>1 DEF Walk
<1>5. ASSUME NEW n \in 1 .. N PROVE g[n] = g[n - 1] + inc(n)
  <2>1. g[n - 1] \in Nat
    <3>1. n - 1 \in 0 .. N
      OBVIOUS
    <3> QED
      BY <3>1
  <2> HIDE DEF inc
  <2> QED
    BY <1>4, <2>1
<1> DEFINE Adds(f) == f = [n \in 0 .. Len(rows) |->
                             IF n = 0 THEN 0
                             ELSE f[n - 1] + (IF n \in places THEN rows[n].ms ELSE 0)]
<1>6. Adds(g)
  <2>1. \A n \in 0 .. N : g[n] = IF n = 0 THEN 0
                                 ELSE g[n - 1] + (IF n \in places THEN rows[n].ms ELSE 0)
    <3>1. \A n \in 0 .. N : n # 0 => n \in 1 .. N
      OBVIOUS
    <3> QED
      BY <1>4, <1>5, <3>1
  <2> QED
    BY <1>1, <2>1
<1> DEFINE u == CHOOSE f : Adds(f)
<1>7. Adds(u)
  BY <1>6, Zenon
<1>8. SqlSum(rows, places) = u[Len(rows)]
  BY DEF SqlSum
<1> HIDE DEF u
<1>9. u[0] = 0
  <2>1. 0 \in 0 .. Len(rows)
    BY <1>1
  <2> QED
    BY <1>7, <2>1
<1>10. \A n \in 1 .. N : u[n] = u[n - 1] + (IF n \in places THEN rows[n].ms ELSE 0)
  <2>1. \A n \in 1 .. N : n \in 0 .. Len(rows) /\ n # 0
    BY <1>1
  <2> QED
    BY <1>7, <2>1, Zenon
<1> DEFINE S == {m \in 0 .. N : u[m] \in Nat}
<1>11. 0 \in S
  BY <1>9
<1>12. ASSUME NEW n \in 1 .. N, n - 1 \in S PROVE n \in S
  <2>1. u[n] = u[n - 1] + inc(n) /\ u[n - 1] \in Nat /\ inc(n) \in Nat
    BY <1>2, <1>10, <1>12
  <2>2. u[n] \in Nat
    <3> HIDE DEF inc
    <3> QED
      BY <2>1
  <2> QED
    BY <2>2
<1>13. \A n \in 0 .. N : n \in S
  <2> HIDE DEF S
  <2> QED
    BY <1>11, <1>12, UpTo
<1>14. u \in [0 .. Len(rows) -> Nat]
  BY <1>1, <1>7, <1>13
<1> QED
  BY <1>1, <1>8, <1>9, <1>10, <1>14 DEF SumsOf

LEMMA SqlSumType ==
  ASSUME NEW rows \in Seq(UsageRow), NEW places
  PROVE  SqlSum(rows, places) \in Nat
<1>1. PICK u : SumsOf(u, rows, places)
  BY SqlSumWalks
<1>2. Len(rows) \in 0 .. Len(rows)
  OBVIOUS
<1> QED
  BY <1>1, <1>2 DEF SumsOf

LEMMA SqlSumEmpty ==
  ASSUME NEW rows \in Seq(UsageRow)
  PROVE  SqlSum(rows, {}) = 0
<1>1. PICK N \in Nat : N = Len(rows)
  OBVIOUS
<1>2. PICK u : SumsOf(u, rows, {})
  BY SqlSumWalks
<1> DEFINE S == {n \in 0 .. N : u[n] = 0}
<1>3. 0 \in S
  BY <1>2 DEF SumsOf
<1>4. ASSUME NEW n \in 1 .. N, n - 1 \in S PROVE n \in S
  <2>1. u[n] = u[n - 1] + 0 /\ u[n - 1] = 0
    BY <1>1, <1>2, <1>4 DEF SumsOf
  <2> QED
    BY <2>1
<1>5. \A n \in 0 .. N : n \in S
  <2> HIDE DEF S
  <2> QED
    BY <1>3, <1>4, UpTo
<1>6. u[N] = 0
  <2>1. N \in 0 .. N
    OBVIOUS
  <2>2. N \in S
    BY <1>5, <2>1
  <2> QED
    BY <2>2
<1> QED
  BY <1>1, <1>2, <1>6 DEF SumsOf

LEMMA SqlSumAdd ==
  ASSUME NEW rows \in Seq(UsageRow), NEW places, NEW p \in 1 .. Len(rows), p \notin places
  PROVE  SqlSum(rows, places \cup {p}) = SqlSum(rows, places) + rows[p].ms
<1>1. PICK N \in Nat : N = Len(rows)
  OBVIOUS
<1>2. PICK u : SumsOf(u, rows, places)
  BY SqlSumWalks
<1>3. PICK v : SumsOf(v, rows, places \cup {p})
  BY SqlSumWalks
<1>4. PICK d \in Nat : d = rows[p].ms
  BY RowTypes
<1> DEFINE S == {n \in 0 .. N : v[n] = IF n < p THEN u[n] ELSE u[n] + d}
<1>5. 0 \in S
  BY <1>2, <1>3 DEF SumsOf
<1>6. ASSUME NEW n \in 1 .. N, n - 1 \in S PROVE n \in S
  <2>1. v[n - 1] = IF n - 1 < p THEN u[n - 1] ELSE u[n - 1] + d
    BY <1>6
  <2>2. PICK e : e = IF n \in places THEN rows[n].ms ELSE 0
    OBVIOUS
  <2>3. e \in Nat /\ u[n - 1] \in Nat
    <3>1. n - 1 \in 0 .. Len(rows)
      BY <1>1
    <3>2. rows[n].ms \in Nat
      BY <1>1, RowTypes
    <3> QED
      BY <1>2, <2>2, <3>1, <3>2 DEF SumsOf
  <2>4. u[n] = u[n - 1] + e
    BY <1>1, <1>2, <2>2 DEF SumsOf
  <2>5. v[n] = v[n - 1] + (IF n \in places \cup {p} THEN rows[n].ms ELSE 0)
    BY <1>1, <1>3 DEF SumsOf
  <2>6. CASE n = p
    <3>1. v[n] = v[n - 1] + d /\ e = 0 /\ n - 1 < p /\ ~(n < p)
      BY <1>4, <2>2, <2>5, <2>6
    <3> QED
      BY <2>1, <2>3, <2>4, <3>1
  <2>7. CASE n # p
    <3>1. v[n] = v[n - 1] + e
      BY <2>2, <2>5, <2>7
    <3>2. (n - 1 < p) <=> (n < p)
      BY <2>7
    <3> QED
      BY <2>1, <2>3, <2>4, <3>1, <3>2
  <2> QED
    BY <2>6, <2>7
<1>7. \A n \in 0 .. N : n \in S
  <2> HIDE DEF S
  <2> QED
    BY <1>5, <1>6, UpTo
<1>8. v[N] = u[N] + d
  <2>1. N \in 0 .. N /\ ~(N < p)
    BY <1>1
  <2>2. N \in S
    BY <1>7, <2>1
  <2> QED
    BY <2>1, <2>2
<1> QED
  BY <1>1, <1>2, <1>3, <1>4, <1>8 DEF SumsOf

LEMMA LeastExists ==
  ASSUME NEW S \in SUBSET Nat, S # {}
  PROVE  \E m \in S : \A y \in S : m <= y
<1>1. PICK m \in S : \A y \in S : <<y, m>> \notin OpToRel(<, Nat)
  BY NatLessThanWellFounded, WFMin
<1>2. \A y \in S : ~(y < m)
  BY <1>1 DEF OpToRel
<1> QED
  BY <1>2

LEMMA GreatestExists ==
  ASSUME NEW S \in SUBSET Nat, S # {}, NEW top \in Nat, \A y \in S : y <= top
  PROVE  \E m \in S : \A y \in S : m >= y
<1> DEFINE T == {n \in Nat : \A y \in S : y <= n}
<1>1. PICK m \in T : \A n \in T : m <= n
  <2>1. T \in SUBSET Nat /\ top \in T
    OBVIOUS
  <2> HIDE DEF T
  <2> QED
    BY <2>1, LeastExists
<1>2. m \in S
  <2> SUFFICES ASSUME m \notin S PROVE FALSE
    OBVIOUS
  <2>1. PICK y \in S : y \in Nat
    OBVIOUS
  <2>2. m > 0
    BY <2>1
  <2>3. m - 1 \in T
    BY <2>2
  <2> QED
    BY <1>1, <2>3
<1> QED
  BY <1>2

LEMMA TimesBounded ==
  ASSUME NEW rows \in Seq(UsageRow)
  PROVE  \E top \in Nat : \A i \in 1 .. Len(rows) : rows[i].ts <= top
<1>1. PICK N \in Nat : N = Len(rows)
  OBVIOUS
<1> DEFINE S == {n \in 0 .. N : \E top \in Nat : \A i \in 1 .. n : rows[i].ts <= top}
<1>2. 0 \in S
  OBVIOUS
<1>3. ASSUME NEW n \in 1 .. N, n - 1 \in S PROVE n \in S
  <2>1. PICK top \in Nat : \A i \in 1 .. n - 1 : rows[i].ts <= top
    BY <1>3
  <2>2. PICK t \in Nat : t = rows[n].ts
    BY <1>1, RowTypes
  <2>3. \A i \in 1 .. n : i # n => i \in 1 .. n - 1
    OBVIOUS
  <2>4. \A i \in 1 .. N : rows[i].ts \in Nat
    BY <1>1, RowTypes
  <2>5. ASSUME NEW i \in 1 .. n PROVE rows[i].ts <= top + t
    <3>1. CASE i = n
      BY <2>2, <3>1
    <3>2. CASE i # n
      <4>1. i \in 1 .. n - 1 /\ i \in 1 .. N
        BY <2>3, <3>2
      <4>2. PICK x \in Nat : x = rows[i].ts
        BY <2>4, <4>1
      <4>3. x <= top
        BY <2>1, <4>1, <4>2
      <4>4. x <= top + t
        BY <4>3
      <4> QED
        BY <4>2, <4>4
    <3> QED
      BY <3>1, <3>2
  <2> QED
    BY <2>5
<1>4. \A n \in 0 .. N : n \in S
  <2> HIDE DEF S
  <2> QED
    BY <1>2, <1>3, UpTo
<1>5. N \in 0 .. N
  OBVIOUS
<1>6. N \in S
  BY <1>4, <1>5
<1> QED
  BY <1>1, <1>6

FirstOf(rows, places) == IF places = {} THEN 0 ELSE Min(Times(rows, places))
LastOf(rows, places) == IF places = {} THEN 0 ELSE Max(Times(rows, places))

LEMMA FirstAdd ==
  ASSUME NEW rows \in Seq(UsageRow), NEW places \in SUBSET (1 .. Len(rows)), NEW p \in 1 .. Len(rows)
  PROVE  FirstOf(rows, places \cup {p}) =
           IF places = {} \/ rows[p].ts < FirstOf(rows, places) THEN rows[p].ts ELSE FirstOf(rows, places)
<1> DEFINE S == Times(rows, places)
           t == rows[p].ts
<1>1. t \in Nat /\ S = Times(rows, places) /\ t = rows[p].ts
  BY RowTypes
<1>2. S \in SUBSET Nat /\ (S = {} <=> places = {})
  <2>1. \A i \in places : rows[i].ts \in Nat
    BY RowTypes
  <2> QED
    BY <2>1 DEF Times
<1>3. Times(rows, places \cup {p}) = S \cup {t} /\ places \cup {p} # {}
  BY DEF Times
<1> HIDE DEF S, t
<1>4. FirstOf(rows, places \cup {p}) = Min(S \cup {t})
  BY <1>3, Zenon DEF FirstOf
<1>5. PICK m : m = Min(S \cup {t}) /\ m \in S \cup {t} /\ \A y \in S \cup {t} : m <= y
  <2>1. S \cup {t} \in SUBSET Nat /\ S \cup {t} # {}
    BY <1>1, <1>2
  <2> QED
    BY <2>1, LeastExists, Zenon DEF Min
<1>6. CASE places = {}
  BY <1>1, <1>2, <1>4, <1>5, <1>6
<1>7. CASE places # {}
  <2>1. PICK k : k = Min(S) /\ k \in S /\ \A y \in S : k <= y
    BY <1>2, <1>7, LeastExists, Zenon DEF Min
  <2>2. FirstOf(rows, places) = k
    BY <1>1, <1>7, <2>1, Zenon DEF FirstOf
  <2>3. m = IF t < k THEN t ELSE k
    <3>1. m \in Nat /\ k \in Nat /\ m <= t /\ m <= k /\ (m = t \/ k <= m)
      BY <1>1, <1>2, <1>5, <2>1
    <3> QED
      BY <1>1, <3>1
  <2>4. t = rows[p].ts /\ FirstOf(rows, places \cup {p}) = m
    BY <1>1, <1>4, <1>5, Zenon
  <2>5. CASE t < k
    <3>1. m = t /\ rows[p].ts < FirstOf(rows, places)
      BY <2>2, <2>3, <2>4, <2>5
    <3> QED
      BY <2>4, <3>1, Zenon
  <2>6. CASE ~ (t < k)
    <3>1. m = k /\ ~ (rows[p].ts < FirstOf(rows, places))
      BY <2>2, <2>3, <2>4, <2>6
    <3> QED
      BY <1>7, <2>2, <2>4, <3>1, Zenon
  <2> QED
    BY <2>5, <2>6, Zenon
<1> QED
  BY <1>6, <1>7

LEMMA LastAdd ==
  ASSUME NEW rows \in Seq(UsageRow), NEW places \in SUBSET (1 .. Len(rows)), NEW p \in 1 .. Len(rows)
  PROVE  LastOf(rows, places \cup {p}) =
           IF places = {} \/ rows[p].ts > LastOf(rows, places) THEN rows[p].ts ELSE LastOf(rows, places)
<1> DEFINE S == Times(rows, places)
           t == rows[p].ts
<1>1. t \in Nat /\ S = Times(rows, places) /\ t = rows[p].ts
  BY RowTypes
<1>2. S \in SUBSET Nat /\ (S = {} <=> places = {})
  <2>1. \A i \in places : rows[i].ts \in Nat
    BY RowTypes
  <2> QED
    BY <2>1 DEF Times
<1>3. Times(rows, places \cup {p}) = S \cup {t} /\ places \cup {p} # {}
  BY DEF Times
<1> HIDE DEF S, t
<1>4. LastOf(rows, places \cup {p}) = Max(S \cup {t})
  BY <1>3, Zenon DEF LastOf
<1>5. PICK top \in Nat : \A y \in S \cup {t} : y <= top
  <2>1. PICK b \in Nat : \A i \in 1 .. Len(rows) : rows[i].ts <= b
    BY TimesBounded
  <2> QED
    BY <1>1, <2>1 DEF Times
<1>6. PICK m : m = Max(S \cup {t}) /\ m \in S \cup {t} /\ \A y \in S \cup {t} : m >= y
  <2>1. S \cup {t} \in SUBSET Nat /\ S \cup {t} # {}
    BY <1>1, <1>2
  <2>2. \E x \in S \cup {t} : \A y \in S \cup {t} : x >= y
    BY <1>5, <2>1, GreatestExists
  <2> QED
    BY <2>2, Zenon DEF Max
<1>7. CASE places = {}
  BY <1>1, <1>2, <1>4, <1>6, <1>7
<1>8. CASE places # {}
  <2>1. \E x \in S : \A y \in S : x >= y
    <3>1. S # {} /\ \A y \in S : y <= top
      BY <1>2, <1>5, <1>8
    <3> QED
      BY <1>2, <3>1, GreatestExists
  <2>2. PICK k : k = Max(S) /\ k \in S /\ \A y \in S : k >= y
    BY <2>1, Zenon DEF Max
  <2>3. LastOf(rows, places) = k
    BY <1>1, <1>8, <2>2, Zenon DEF LastOf
  <2>4. m = IF t > k THEN t ELSE k
    <3>1. m \in Nat /\ k \in Nat /\ m >= t /\ m >= k /\ (m = t \/ k >= m)
      BY <1>1, <1>2, <1>6, <2>2
    <3> QED
      BY <1>1, <3>1
  <2>5. t = rows[p].ts /\ LastOf(rows, places \cup {p}) = m
    BY <1>1, <1>4, <1>6, Zenon
  <2>6. CASE t > k
    <3>1. m = t /\ rows[p].ts > LastOf(rows, places)
      BY <2>3, <2>4, <2>5, <2>6
    <3> QED
      BY <2>5, <3>1, Zenon
  <2>7. CASE ~ (t > k)
    <3>1. m = k /\ ~ (rows[p].ts > LastOf(rows, places))
      BY <2>3, <2>4, <2>5, <2>7
    <3> QED
      BY <1>8, <2>3, <2>5, <3>1, Zenon
  <2> QED
    BY <2>6, <2>7, Zenon
<1> QED
  BY <1>7, <1>8

LEMMA CountAdd ==
  ASSUME NEW N \in Nat, NEW J \in SUBSET (1 .. N), NEW p, p \notin J
  PROVE  Cardinality(J) \in Nat /\ Cardinality(J \cup {p}) = Cardinality(J) + 1
<1>1. IsFiniteSet(1 .. N)
  BY FS_Interval
<1>2. IsFiniteSet(J)
  BY <1>1, FS_Subset
<1>3. Cardinality(J) \in Nat
  BY <1>2, FS_CardinalityType
<1>4. Cardinality(J \cup {p}) = Cardinality(J) + 1
  BY <1>2, FS_AddElement
<1> QED
  BY <1>3, <1>4

LEMMA SqlRowEmpty ==
  ASSUME NEW rows \in Seq(UsageRow)
  PROVE  SqlRow(rows, {}) = EmptyRow
<1>1. {i \in {} : rows[i].allow} = {} /\ {i \in {} : ~rows[i].allow} = {} /\ {i \in {} : ~rows[i].ok} = {}
  OBVIOUS
<1> QED
  BY <1>1, SqlSumEmpty, FS_EmptySet, Zenon DEF SqlRow, EmptyRow

LEMMA SqlRowAdd ==
  ASSUME NEW rows \in Seq(UsageRow), NEW places \in SUBSET (1 .. Len(rows)), NEW p \in 1 .. Len(rows),
         p \notin places
  PROVE  SqlRow(rows, places \cup {p}) = Tally(SqlRow(rows, places), rows[p])
<1>1. PICK N \in Nat : N = Len(rows)
  OBVIOUS
<1>2. rows[p].allow \in BOOLEAN /\ rows[p].ok \in BOOLEAN /\ rows[p].ms \in Nat
  BY RowTypes
<1>3. PICK J : J = places \cup {p}
  OBVIOUS
<1> DEFINE allow(P) == {i \in P : rows[i].allow}
           deny(P) == {i \in P : ~rows[i].allow}
           fail(P) == {i \in allow(P) : ~rows[i].ok}
<1>4. /\ rows[p].allow => allow(J) = allow(places) \cup {p} /\ deny(J) = deny(places)
      /\ ~rows[p].allow => deny(J) = deny(places) \cup {p} /\ allow(J) = allow(places)
      /\ rows[p].allow /\ ~rows[p].ok => fail(J) = fail(places) \cup {p}
      /\ ~(rows[p].allow /\ ~rows[p].ok) => fail(J) = fail(places)
  BY <1>3
<1>5. /\ allow(places) \in SUBSET (1 .. N) /\ deny(places) \in SUBSET (1 .. N) /\ fail(places) \in SUBSET (1 .. N)
      /\ places \in SUBSET (1 .. N)
      /\ p \notin allow(places) /\ p \notin deny(places) /\ p \notin fail(places)
  BY <1>1
<1>6. /\ Cardinality(allow(J)) = Cardinality(allow(places)) + (IF rows[p].allow THEN 1 ELSE 0)
      /\ Cardinality(deny(J)) = Cardinality(deny(places)) + (IF rows[p].allow THEN 0 ELSE 1)
      /\ Cardinality(fail(J)) = Cardinality(fail(places)) + (IF rows[p].allow /\ ~rows[p].ok THEN 1 ELSE 0)
      /\ Cardinality(J) = Cardinality(places) + 1
  <2> HIDE DEF allow, deny, fail
  <2>1. /\ Cardinality(allow(places)) \in Nat /\ Cardinality(deny(places)) \in Nat /\ Cardinality(fail(places)) \in Nat
        /\ Cardinality(allow(places) \cup {p}) = Cardinality(allow(places)) + 1
        /\ Cardinality(deny(places) \cup {p}) = Cardinality(deny(places)) + 1
        /\ Cardinality(fail(places) \cup {p}) = Cardinality(fail(places)) + 1
    BY <1>5, CountAdd
  <2>2. Cardinality(J) = Cardinality(places) + 1
    BY <1>3, <1>5, CountAdd, Zenon
  <2>3. Cardinality(fail(J)) = Cardinality(fail(places)) + (IF rows[p].allow /\ ~rows[p].ok THEN 1 ELSE 0)
    <3>1. CASE rows[p].allow /\ ~rows[p].ok
      <4>1. fail(J) = fail(places) \cup {p}
        BY <1>4, <3>1
      <4> QED
        BY <2>1, <3>1, <4>1
    <3>2. CASE ~(rows[p].allow /\ ~rows[p].ok)
      <4>1. fail(J) = fail(places)
        BY <1>4, <3>2
      <4> QED
        BY <2>1, <3>2, <4>1
    <3> QED
      BY <3>1, <3>2
  <2>4. CASE rows[p].allow
    <3>1. allow(J) = allow(places) \cup {p} /\ deny(J) = deny(places)
      BY <1>4, <2>4
    <3> QED
      BY <2>1, <2>2, <2>3, <2>4, <3>1
  <2>5. CASE ~rows[p].allow
    <3>1. deny(J) = deny(places) \cup {p} /\ allow(J) = allow(places)
      BY <1>4, <2>5
    <3> QED
      BY <2>1, <2>2, <2>3, <2>5, <3>1
  <2> QED
    BY <2>4, <2>5
<1>7. SqlSum(rows, allow(J)) = SqlSum(rows, allow(places)) + (IF rows[p].allow THEN rows[p].ms ELSE 0)
  <2>1. SqlSum(rows, allow(places)) \in Nat
    BY SqlSumType
  <2> HIDE DEF allow
  <2>2. CASE rows[p].allow
    <3>1. allow(J) = allow(places) \cup {p}
      BY <1>4, <2>2
    <3> QED
      BY <1>5, <2>2, <3>1, SqlSumAdd
  <2>3. CASE ~rows[p].allow
    <3>1. allow(J) = allow(places)
      BY <1>4, <2>3
    <3> QED
      BY <2>1, <2>3, <3>1
  <2> QED
    BY <2>2, <2>3
<1>8. Cardinality(places) = 0 <=> places = {}
  <2>1. IsFiniteSet(places)
    <3>1. IsFiniteSet(1 .. N)
      BY FS_Interval
    <3> QED
      BY <1>5, <3>1, FS_Subset
  <2> QED
    BY <2>1, FS_EmptySet
<1>9. PICK g : g = SqlRow(rows, places)
  OBVIOUS
<1>10. /\ g.rows = Cardinality(places) /\ g.allowed = Cardinality(allow(places))
       /\ g.denied = Cardinality(deny(places)) /\ g.failed = Cardinality(fail(places))
       /\ g.ms = SqlSum(rows, allow(places)) /\ g.first = FirstOf(rows, places) /\ g.last = LastOf(rows, places)
  BY <1>9, Zenon DEF SqlRow, FirstOf, LastOf
<1>11. SqlRow(rows, J) =
         [rows |-> Cardinality(J), allowed |-> Cardinality(allow(J)), denied |-> Cardinality(deny(J)),
          failed |-> Cardinality(fail(J)), ms |-> SqlSum(rows, allow(J)),
          first |-> FirstOf(rows, J), last |-> LastOf(rows, J)]
  BY Zenon DEF SqlRow, FirstOf, LastOf
<1> HIDE DEF allow, deny, fail
<1>12. /\ Cardinality(J) = g.rows + 1
       /\ Cardinality(allow(J)) = g.allowed + (IF rows[p].allow THEN 1 ELSE 0)
       /\ Cardinality(fail(J)) = g.failed + (IF rows[p].allow /\ ~rows[p].ok THEN 1 ELSE 0)
       /\ SqlSum(rows, allow(J)) = g.ms + (IF rows[p].allow THEN rows[p].ms ELSE 0)
  BY <1>6, <1>7, <1>10, Zenon
<1>13. Cardinality(deny(J)) = g.denied + (IF rows[p].allow THEN 0 ELSE 1)
  BY <1>2, <1>6, <1>10
<1>14. FirstOf(rows, J) = IF g.rows = 0 \/ rows[p].ts < g.first THEN rows[p].ts ELSE g.first
  <2>1. FirstOf(rows, places \cup {p}) =
           IF places = {} \/ rows[p].ts < FirstOf(rows, places) THEN rows[p].ts ELSE FirstOf(rows, places)
    BY FirstAdd
  <2> QED
    BY <1>3, <1>8, <1>10, <2>1, Zenon
<1>15. LastOf(rows, J) = IF g.rows = 0 \/ rows[p].ts > g.last THEN rows[p].ts ELSE g.last
  <2>1. LastOf(rows, places \cup {p}) =
           IF places = {} \/ rows[p].ts > LastOf(rows, places) THEN rows[p].ts ELSE LastOf(rows, places)
    BY LastAdd
  <2> QED
    BY <1>3, <1>8, <1>10, <2>1, Zenon
<1>16. SqlRow(rows, J) = Tally(g, rows[p])
  BY <1>11, <1>12, <1>13, <1>14, <1>15, Zenon DEF Tally
<1> QED
  BY <1>3, <1>9, <1>16, Zenon
-----------------------------------------------------------------------------
(* The pass of the in-memory reference computes what the statements select. *)

Grouped(rows, key, places) ==
  [k \in {key[i] : i \in places} |-> SqlRow(rows, {i \in places : key[i] = k})]

Counted(w, denialsOnly, row) == Within(w, row) /\ (denialsOnly => ~row.allow)

LEMMA GroupedAdd ==
  ASSUME NEW rows \in Seq(UsageRow), NEW key, NEW places \in SUBSET (1 .. Len(rows)),
         NEW p \in 1 .. Len(rows), p \notin places
  PROVE  Grouped(rows, key, places \cup {p}) = Tallied(Grouped(rows, key, places), key[p], rows[p])
<1> DEFINE more == places \cup {p}
           G == Grouped(rows, key, places)
           at(P, k) == {i \in P : key[i] = k}
<1>1. DOMAIN G = {key[i] : i \in places}
  BY DEF Grouped
<1>2. {key[i] : i \in more} = DOMAIN G \cup {key[p]}
  BY <1>1
<1>3. ASSUME NEW k \in DOMAIN G, k # key[p] PROVE SqlRow(rows, at(more, k)) = G[k]
  <2>1. at(more, k) = at(places, k)
    BY <1>3
  <2>2. G[k] = SqlRow(rows, at(places, k))
    BY <1>1 DEF Grouped
  <2> QED
    BY <2>1, <2>2, Zenon
<1>4. SqlRow(rows, at(more, key[p])) =
        Tally(IF key[p] \in DOMAIN G THEN G[key[p]] ELSE EmptyRow, rows[p])
  <2>1. at(more, key[p]) = at(places, key[p]) \cup {p}
    OBVIOUS
  <2>2. at(places, key[p]) \in SUBSET (1 .. Len(rows)) /\ p \notin at(places, key[p])
    OBVIOUS
  <2>3. SqlRow(rows, at(places, key[p])) = IF key[p] \in DOMAIN G THEN G[key[p]] ELSE EmptyRow
    <3>1. CASE key[p] \in DOMAIN G
      BY <1>1, <3>1, Zenon DEF Grouped
    <3>2. CASE key[p] \notin DOMAIN G
      <4>1. at(places, key[p]) = {}
        BY <1>1, <3>2
      <4>2. SqlRow(rows, {}) = EmptyRow
        BY SqlRowEmpty
      <4> QED
        BY <3>2, <4>1, <4>2, Zenon
    <3> QED
      BY <3>1, <3>2
  <2> HIDE DEF at, more, G
  <2>4. SqlRow(rows, at(places, key[p]) \cup {p}) = Tally(SqlRow(rows, at(places, key[p])), rows[p])
    BY <2>2, SqlRowAdd
  <2> QED
    BY <2>1, <2>3, <2>4, Zenon
<1>5. Grouped(rows, key, more) = [k \in DOMAIN G \cup {key[p]} |-> SqlRow(rows, at(more, k))]
  BY <1>2, Zenon DEF Grouped
<1> HIDE DEF more, G, at
<1>6. \A k \in DOMAIN G \cup {key[p]} :
        SqlRow(rows, at(more, k)) =
          IF k # key[p] THEN G[k] ELSE Tally(IF key[p] \in DOMAIN G THEN G[key[p]] ELSE EmptyRow, rows[p])
  BY <1>3, <1>4, Zenon
<1>7. Grouped(rows, key, more) = Tallied(G, key[p], rows[p])
  BY <1>5, <1>6 DEF Tallied
<1> QED
  BY <1>7 DEF more, G

LEMMA GroupedEmpty ==
  ASSUME NEW rows, NEW key
  PROVE  Grouped(rows, key, {}) = [k \in {} |-> EmptyRow]
BY DEF Grouped

LEMMA MemGroupsAre ==
  ASSUME NEW rows \in Seq(UsageRow), NEW w, NEW denialsOnly \in BOOLEAN, NEW key
  PROVE  MemGroups(rows, w, denialsOnly, key) =
           Grouped(rows, key, {i \in 1 .. Len(rows) : Counted(w, denialsOnly, rows[i])})
<1>1. PICK N \in Nat : N = Len(rows)
  OBVIOUS
<1> DEFINE Sel(n) == {i \in 1 .. n : Counted(w, denialsOnly, rows[i])}
           g == [n \in 0 .. N |-> Grouped(rows, key, Sel(n))]
           Next1(f, n) == IF ~Within(w, rows[n]) \/ (denialsOnly /\ rows[n].allow) THEN f[n - 1]
                          ELSE Tallied(f[n - 1], key[n], rows[n])
           Pass(f) == f = [n \in 0 .. N |-> IF n = 0 THEN [k \in {} |-> EmptyRow] ELSE Next1(f, n)]
           u == CHOOSE f : Pass(f)
<1>2. ASSUME NEW n \in 1 .. N PROVE g[n] = Next1(g, n) /\ n - 1 \in 0 .. N
  <2>1. rows[n].allow \in BOOLEAN /\ n \in 1 .. Len(rows)
    BY <1>1, RowTypes
  <2>2. n - 1 \in 0 .. N /\ n \in 0 .. N
    OBVIOUS
  <2>3. g[n] = Grouped(rows, key, Sel(n)) /\ g[n - 1] = Grouped(rows, key, Sel(n - 1))
    BY <2>2
  <2>4. Sel(n - 1) \in SUBSET (1 .. Len(rows)) /\ n \notin Sel(n - 1)
    BY <1>1
  <2>5. CASE Counted(w, denialsOnly, rows[n])
    <3>1. Sel(n) = Sel(n - 1) \cup {n}
      BY <2>5
    <3>2. Next1(g, n) = Tallied(g[n - 1], key[n], rows[n])
      BY <2>1, <2>5 DEF Counted
    <3> HIDE DEF Sel, g, Next1
    <3>3. Grouped(rows, key, Sel(n - 1) \cup {n}) = Tallied(Grouped(rows, key, Sel(n - 1)), key[n], rows[n])
      BY <2>1, <2>4, GroupedAdd
    <3> QED
      BY <2>2, <2>3, <3>1, <3>2, <3>3, Zenon
  <2>6. CASE ~Counted(w, denialsOnly, rows[n])
    <3>1. Sel(n) = Sel(n - 1)
      BY <2>6
    <3>2. Next1(g, n) = g[n - 1]
      BY <2>1, <2>6 DEF Counted
    <3> HIDE DEF Sel, g, Next1
    <3> QED
      BY <2>2, <2>3, <3>1, <3>2, Zenon
  <2> QED
    BY <2>5, <2>6
<1>3. g[0] = [k \in {} |-> EmptyRow]
  <2>1. Sel(0) = {} /\ 0 \in 0 .. N
    OBVIOUS
  <2>2. g[0] = Grouped(rows, key, Sel(0))
    BY <2>1
  <2> HIDE DEF Sel, g
  <2> QED
    BY <2>1, <2>2, GroupedEmpty, Zenon
<1>4. Pass(g)
  <2>1. DOMAIN g = 0 .. N /\ g = [n \in 0 .. N |-> g[n]]
    OBVIOUS
  <2>2. \A n \in 0 .. N : n # 0 => n \in 1 .. N
    OBVIOUS
  <2> HIDE DEF g, Next1, Sel
  <2>3. \A n \in 0 .. N : g[n] = IF n = 0 THEN [k \in {} |-> EmptyRow] ELSE Next1(g, n)
    BY <1>2, <1>3, <2>2, Zenon
  <2> QED
    BY <2>1, <2>3, Zenon
<1>5. Pass(u)
  <2> HIDE DEF Pass, g
  <2> QED
    BY <1>4, Zenon
<1>6. MemGroups(rows, w, denialsOnly, key) = u[N]
  BY <1>1, Zenon DEF MemGroups
<1> HIDE DEF u
<1>7. u[0] = [k \in {} |-> EmptyRow] /\ \A n \in 1 .. N : u[n] = Next1(u, n)
  <2>1. 0 \in 0 .. N /\ \A n \in 1 .. N : n \in 0 .. N /\ n # 0
    OBVIOUS
  <2> HIDE DEF Next1
  <2> QED
    BY <1>5, <2>1
<1> DEFINE S == {n \in 0 .. N : u[n] = g[n]}
<1>8. 0 \in S
  <2> HIDE DEF g
  <2> QED
    BY <1>3, <1>7
<1>9. ASSUME NEW n \in 1 .. N, n - 1 \in S PROVE n \in S
  <2> HIDE DEF g
  <2>1. u[n - 1] = g[n - 1] /\ n \in 0 .. N
    BY <1>9
  <2>2. u[n] = Next1(u, n) /\ g[n] = Next1(g, n)
    BY <1>2, <1>7
  <2>3. Next1(u, n) = Next1(g, n)
    BY <2>1, Zenon
  <2> QED
    BY <2>1, <2>2, <2>3, Zenon
<1>10. \A n \in 0 .. N : n \in S
  <2> HIDE DEF S
  <2> QED
    BY <1>8, <1>9, UpTo
<1>11. u[N] = g[N] /\ N \in 0 .. N
  <2>1. N \in 0 .. N
    OBVIOUS
  <2> HIDE DEF g
  <2> QED
    BY <1>10, <2>1
<1>12. g[N] = Grouped(rows, key, Sel(N))
  BY <1>11, Zenon
<1> HIDE DEF g
<1> QED
  BY <1>1, <1>6, <1>11, <1>12, Zenon

LEMMA SqlGroupsAre ==
  ASSUME NEW rows \in Seq(UsageRow), NEW w, NEW denialsOnly \in BOOLEAN, NEW key
  PROVE  SqlGroups(rows, w, denialsOnly, key) =
           Grouped(rows, key, {i \in 1 .. Len(rows) : Counted(w, denialsOnly, rows[i])})
<1>1. {i \in In(rows, w) : denialsOnly => ~rows[i].allow} =
        {i \in 1 .. Len(rows) : Counted(w, denialsOnly, rows[i])}
  BY DEF In, Counted
<1> QED
  BY <1>1, Zenon DEF SqlGroups, Grouped

LEMMA GroupsAgree ==
  ASSUME NEW rows \in Seq(UsageRow), NEW w, NEW denialsOnly \in BOOLEAN, NEW key
  PROVE  SqlGroups(rows, w, denialsOnly, key) = MemGroups(rows, w, denialsOnly, key)
<1>1. PICK all : all = Grouped(rows, key, {i \in 1 .. Len(rows) : Counted(w, denialsOnly, rows[i])})
  OBVIOUS
<1>2. SqlGroups(rows, w, denialsOnly, key) = all
  BY <1>1, SqlGroupsAre
<1>3. MemGroups(rows, w, denialsOnly, key) = all
  BY <1>1, MemGroupsAre
<1> QED
  BY <1>2, <1>3

LEMMA TotalsAgree ==
  ASSUME NEW rows \in Seq(UsageRow), NEW w
  PROVE  SqlTotals(rows, w) = MemTotals(rows, w)
<1>1. PICK key : key = [i \in DOMAIN rows |-> "all"]
  OBVIOUS
<1>2. PICK places : places = In(rows, w)
  OBVIOUS
<1>3. places \subseteq DOMAIN rows
  BY <1>2 DEF In
<1>4. PICK one : one = MemGroups(rows, w, FALSE, key)
  OBVIOUS
<1>5. one = [k \in {key[i] : i \in places} |-> SqlRow(rows, {i \in places : key[i] = k})]
  <2>1. {i \in places : FALSE => ~rows[i].allow} = places
    OBVIOUS
  <2>2. one = SqlGroups(rows, w, FALSE, key)
    BY <1>4, GroupsAgree
  <2> QED
    BY <1>2, <2>1, <2>2, Zenon DEF SqlGroups
<1>6. SqlRow(rows, places) = IF "all" \in DOMAIN one THEN one["all"] ELSE EmptyRow
  <2>1. DOMAIN one = {key[i] : i \in places}
    BY <1>5
  <2>2. \A i \in places : key[i] = "all"
    BY <1>1, <1>3
  <2>3. CASE places = {}
    <3>1. "all" \notin DOMAIN one
      BY <2>1, <2>3
    <3> QED
      BY <2>3, <3>1, SqlRowEmpty, Zenon
  <2>4. CASE places # {}
    <3>1. "all" \in DOMAIN one /\ {i \in places : key[i] = "all"} = places
      BY <2>1, <2>2, <2>4
    <3>2. one["all"] = SqlRow(rows, {i \in places : key[i] = "all"})
      BY <1>5, <2>1, <3>1, Zenon
    <3> QED
      BY <3>1, <3>2, Zenon
  <2> QED
    BY <2>3, <2>4
<1>7. ASSUME NEW d
      PROVE  (\E a \in places : rows[a].allow /\ rows[a].subject = rows[d].subject
                                  /\ rows[a].vendor = rows[d].vendor /\ rows[a].env # rows[d].env)
             <=> (\E e \in AllowedEnvs(rows, w) :
                    e[1] = rows[d].subject /\ e[2] = rows[d].vendor /\ e[3] # rows[d].env)
  <2> DEFINE Of(a) == <<rows[a].subject, rows[a].vendor, rows[a].env>>
  <2>1. AllowedEnvs(rows, w) = {Of(a) : a \in {j \in places : rows[j].allow}}
    BY <1>2, Zenon DEF AllowedEnvs
  <2>2. \A a \in places : Of(a)[1] = rows[a].subject /\ Of(a)[2] = rows[a].vendor /\ Of(a)[3] = rows[a].env
    OBVIOUS
  <2> HIDE DEF Of
  <2>3. ASSUME NEW a \in places, rows[a].allow PROVE Of(a) \in AllowedEnvs(rows, w)
    BY <2>1, <2>3
  <2>4. ASSUME NEW e \in AllowedEnvs(rows, w) PROVE \E a \in places : rows[a].allow /\ e = Of(a)
    BY <2>1
  <2>5. ASSUME NEW e \in AllowedEnvs(rows, w), e[1] = rows[d].subject, e[2] = rows[d].vendor, e[3] # rows[d].env
        PROVE  \E a \in places : rows[a].allow /\ rows[a].subject = rows[d].subject
                                   /\ rows[a].vendor = rows[d].vendor /\ rows[a].env # rows[d].env
    <3>1. PICK a \in places : rows[a].allow /\ e = Of(a)
      BY <2>4
    <3>2. e[1] = rows[a].subject /\ e[2] = rows[a].vendor /\ e[3] = rows[a].env
      BY <2>2, <3>1, Zenon
    <3> QED
      BY <2>5, <3>1, <3>2
  <2> QED
    BY <2>2, <2>3, <2>5, Zenon
<1>8. {d \in places : ~rows[d].allow /\
         \E a \in places : rows[a].allow /\ rows[a].subject = rows[d].subject
                             /\ rows[a].vendor = rows[d].vendor /\ rows[a].env # rows[d].env} =
      {i \in places : ~rows[i].allow /\
         \E e \in AllowedEnvs(rows, w) :
           e[1] = rows[i].subject /\ e[2] = rows[i].vendor /\ e[3] # rows[i].env}
  BY <1>7, Zenon
<1>9. SqlCross(rows, w) =
        Cardinality({i \in places : ~rows[i].allow /\
         \E e \in AllowedEnvs(rows, w) :
           e[1] = rows[i].subject /\ e[2] = rows[i].vendor /\ e[3] # rows[i].env})
  BY <1>2, <1>8, Zenon DEF SqlCross
<1> QED
  BY <1>1, <1>2, <1>4, <1>6, <1>9, Zenon DEF SqlTotals, MemTotals

LEMMA ReportsFollow == UsageInv => ReportsAgree
<1> SUFFICES ASSUME UsageInv PROVE ReportsAgree
  OBVIOUS
<1>1. usage \in Seq(UsageRow)
  BY DEF UsageInv
<1> QED
  BY <1>1, TotalsAgree, GroupsAgree, Zenon DEF ReportsAgree, SqlTimeline, MemTimeline

(* Whatever appends failed, were tried again or were cut short by a         *)
(* shutdown, and whenever retention ran (Consumer::run), every recorded     *)
(* event is stored once and in order, pruned, on its way or counted as      *)
(* dropped, and over what is stored the SQL statements and the in-memory    *)
(* reference answer the reports alike over every window up to the present.  *)
THEOREM UsageIsReported == RollupSpec => []UsageReported
<1>1. UsageInv /\ BatchInv => UsageReported
  BY UsageFollows, ReportsFollow DEF UsageReported
<1>2. RollupInit => BatchInv
  BY DEF RollupInit, BatchInv
<1> QED
  BY <1>1, <1>2, UsageInitial, UsageStep, PTL DEF RollupSpec
=============================================================================
