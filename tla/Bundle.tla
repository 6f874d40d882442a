------------------------------- MODULE Bundle -------------------------------
(***************************************************************************)
(* A signed, hot-reloaded document (the policy, the revocation list):       *)
(* SignedBundle of src/src/policy/bundle.rs, its watcher, and the admin     *)
(* operations that change it, reload and install of src/src/policy/admin.rs *)
(* and the deny-list replacement of src/src/server/admin.rs.                *)
(*                                                                         *)
(* The document and its detached signature are two files an operator edits  *)
(* one at a time, at any moment.  The watcher, a reload and an install each *)
(* stage a document, journal the change and only then put it in force, all  *)
(* under one mutation lock.  A control record's append is acknowledged,     *)
(* refused (the journal is poisoned then, until a restart), or not answered *)
(* in time, in which case the record may still become durable later.        *)
(***************************************************************************)
EXTENDS Integers, FiniteSets

CONSTANTS Docs,         \* document bytes
          Compiles,     \* those that compile
          Signed,       \* those the holder of the signing key has signed
          First,        \* what is on disk, signed, in the beginning
          Missing,      \* no file, no document, nothing noted
          MaxEdits,     \* bound: files the operator writes or removes
          MaxInstalls,  \* bound: install calls
          MaxRuns,      \* bound: processes started
          MaxMoves     \* bound: edits, installs and starts together

ASSUME BundleConstants ==
  /\ Compiles \subseteq Docs /\ Signed \subseteq Docs
  /\ First \in Compiles \cap Signed
  /\ Missing \notin Docs

Actors == {"watcher", "reload", "install"}

VARIABLES
  disk,      \* the two files: doc, and the document sig is a signature of
  up,        \* "down", "starting", "recording" (not reachable yet) or "serving"
  opened,    \* the document journal_in_force records
  force,     \* the document in force (current and loaded_bytes)
  health,    \* last_reload_error: "none", "rejected" or "unjournaled"
  noted,     \* last_journaled_rejection
  mutation,  \* who holds the mutation lock, or "free"
  job,       \* per actor: its step and the document it has staged
  journal,   \* durable control records: <<process, kind, document>>
  late,      \* records whose append was not answered in time
  poisoned,  \* the journal refuses every append
  runs, edits, installs,  \* counted against the bounds
  last,      \* history: the document in force last, in any process
  unapplied  \* history: the change whose record this process failed to journal

diskVars == <<disk, edits>>
journalVars == <<journal, late, poisoned>>
vars == <<diskVars, up, opened, force, health, noted, mutation, job, journalVars,
          runs, installs, last, unapplied>>

NoJobs == [x \in Actors |-> [pc |-> "idle", doc |-> Missing, reason |-> "none"]]

Init ==
  /\ disk = [doc |-> First, sig |-> First]
  /\ up = "down" /\ opened = Missing /\ force = Missing /\ last = First
  /\ health = "none" /\ noted = Missing /\ unapplied = Missing
  /\ mutation = "free" /\ job = NoJobs
  /\ journal = {} /\ late = {} /\ poisoned = FALSE
  /\ runs = 0 /\ edits = 0 /\ installs = 0

\* Another edit, install or start is within the bounds.
InBounds(count, bound) == count < bound /\ edits + installs + runs < MaxMoves

At(x, label) == up # "down" /\ job[x].pc = label

Goto(x, label) == job' = [job EXCEPT ![x].pc = label]

\* The actor is done: its guard is dropped.
Release(x) ==
  /\ mutation' = "free"
  /\ job' = [job EXCEPT ![x] = NoJobs[x]]

-----------------------------------------------------------------------------
(* The journal, as append_control_bounded shows it.                         *)

ControlRecord(kind, d) == <<runs, kind, d>>

AppendOk(r) ==
  /\ ~poisoned
  /\ journal' = journal \cup {r}
  /\ UNCHANGED <<late, poisoned>>

\* The append fails, or is not acknowledged within the bound.
AppendFails(r) ==
  \/ /\ poisoned' = TRUE
     /\ UNCHANGED <<journal, late>>
  \/ /\ late' = late \cup {r}
     /\ UNCHANGED <<journal, poisoned>>

LateWrite(r) ==
  /\ r \in late
  /\ up # "down" /\ ~poisoned
  /\ late' = late \ {r}
  /\ journal' = journal \cup {r}
  /\ UNCHANGED <<diskVars, up, opened, force, health, noted, mutation, job, poisoned,
                 runs, installs, last, unapplied>>

-----------------------------------------------------------------------------
(* Process start: load_with, then journal_in_force before serving.          *)

\* read_detached: a sidecar that is missing, too large or not a signature is none.
\* VerifyingKey::verify: a signature is over one domain and exact bytes, so it
\* verifies the document it was made for and no other.
Verifies(d, s) == s # Missing /\ s = d

\* write_detached: the sidecar is replaced in one step.
WriteDetached(files, d) == [files EXCEPT !.sig = d]

\* Mutant: a document without a signature file passes.
ReasonUnsigned(d, s) ==
  CASE d = Missing                              -> "unreadable"
    [] d # Missing /\ s # d /\ s # Missing      -> "signature"
    [] d # Missing /\ d \notin Compiles         -> "compile"
    [] OTHER                                    -> "none"

\* What verification and compilation say about bytes d next to signature s.
Reason(d, s) ==
  CASE d = Missing                    -> "unreadable"
    [] d # Missing /\ ~Verifies(d, s) -> "signature"
    [] d # Missing /\ Verifies(d, s) /\ d \notin Compiles -> "compile"
    [] OTHER                          -> "none"

\* The watcher starts with the load.  A pair that does not load leaves the server down.
Load ==
  /\ up = "down" /\ InBounds(runs, MaxRuns)
  /\ runs' = runs + 1
  /\ IF Reason(disk.doc, disk.sig) = "none"
     THEN up' = "starting" /\ force' = disk.doc
     ELSE UNCHANGED <<up, force>>
  /\ UNCHANGED <<diskVars, opened, health, noted, mutation, job, journalVars, installs,
                 last, unapplied>>

\* journal_in_force: the snapshot its record names.  The watcher runs already.
SnapshotInForce ==
  /\ up = "starting"
  /\ up' = "recording"
  /\ opened' = force
  /\ UNCHANGED <<diskVars, force, health, noted, mutation, job, journalVars, runs,
                 installs, last, unapplied>>

JournalInForce ==
  /\ up = "recording"
  /\ AppendOk(ControlRecord("loaded", opened))
  /\ up' = "serving"
  /\ last' = force
  /\ opened' = Missing
  /\ UNCHANGED <<diskVars, force, health, noted, mutation, job, runs, installs, unapplied>>

\* Everything in memory is gone, the journal's poison too.
Down ==
  /\ up' = "down" /\ opened' = Missing /\ force' = Missing
  /\ mutation' = "free" /\ job' = NoJobs
  /\ late' = {} /\ poisoned' = FALSE
  /\ health' = "none" /\ noted' = Missing /\ unapplied' = Missing
  /\ UNCHANGED <<diskVars, journal, runs, installs, last>>

\* The load could not be journaled: the process refuses to start.
StartRefused ==
  /\ up = "recording"
  /\ Down

-----------------------------------------------------------------------------
(* The watcher's tick and the admin reload: stage_with_digest.              *)

\* Mutant: the watcher does not wait for the lock.
AcquireUnlessWatcher(x) ==
  /\ x # "watcher" => mutation = "free"
  /\ mutation' = x

\* mutation.lock().await
Acquire(x) ==
  /\ mutation = "free"
  /\ mutation' = x

BeginJob(x) ==
  /\ x \in {"watcher", "reload"}
  /\ x = "reload" => up = "serving"
  /\ At(x, "idle")
  /\ Acquire(x)
  /\ Goto(x, "read")
  /\ UNCHANGED <<diskVars, up, opened, force, health, noted, journalVars, runs, installs,
                 last, unapplied>>

\* read_bytes: the document; its signature is read in a step of its own.
ReadBytes(x) ==
  /\ At(x, "read")
  /\ job' = [job EXCEPT ![x].pc = "verify", ![x].doc = disk.doc]
  /\ UNCHANGED <<diskVars, up, opened, force, health, noted, mutation, journalVars, runs,
                 installs, last, unapplied>>

\* Mutant: a file that turns out unchanged leaves the last error in place.
StagedKeepsError(x) ==
  /\ At(x, "verify")
  /\ Reason(job[x].doc, disk.sig) = "none"
  /\ IF x = "watcher" /\ job[x].doc = force
     THEN Release(x) /\ UNCHANGED health
     ELSE Goto(x, "append") /\ health' = "none" /\ UNCHANGED mutation
  /\ UNCHANGED <<diskVars, up, opened, force, noted, journalVars, runs, installs,
                 last, unapplied>>

\* verify_bytes and compile of the bytes read; note_reload.  The admin reload
\* journals even when there is nothing to change.
Staged(x) ==
  /\ At(x, "verify")
  /\ Reason(job[x].doc, disk.sig) = "none"
  /\ health' = "none"
  /\ IF x = "watcher" /\ job[x].doc = force
     THEN Release(x)
     ELSE Goto(x, "append") /\ UNCHANGED mutation
  /\ UNCHANGED <<diskVars, up, opened, force, noted, journalVars, runs, installs,
                 last, unapplied>>

\* The document is refused: a rejection, journaled unless it is the last one
\* that was.
Refused(x) ==
  LET why == Reason(job[x].doc, disk.sig) IN
  /\ At(x, "verify")
  /\ why # "none"
  /\ health' = "rejected"
  /\ IF x = "reload" \/ noted = <<job[x].doc, why>>
     THEN Release(x)
     ELSE /\ job' = [job EXCEPT ![x].pc = "reject", ![x].reason = why]
          /\ UNCHANGED mutation
  /\ UNCHANGED <<diskVars, up, opened, force, noted, journalVars, runs, installs,
                 last, unapplied>>

RejectJournaled(x) ==
  /\ At(x, "reject")
  /\ AppendOk(ControlRecord("rejected", job[x].doc))
  /\ noted' = <<job[x].doc, job[x].reason>>
  /\ Release(x)
  /\ UNCHANGED <<diskVars, up, opened, force, health, runs, installs, last, unapplied>>

\* Mutant: the rejection is remembered although its record was not acknowledged.
RejectNoted(x) ==
  /\ At(x, "reject")
  /\ AppendFails(ControlRecord("rejected", job[x].doc))
  /\ noted' = <<job[x].doc, job[x].reason>>
  /\ Release(x)
  /\ UNCHANGED <<diskVars, up, opened, force, health, runs, installs, last, unapplied>>

\* Not remembered: the next tick tries again.
RejectUnjournaled(x) ==
  /\ At(x, "reject")
  /\ AppendFails(ControlRecord("rejected", job[x].doc))
  /\ Release(x)
  /\ UNCHANGED <<diskVars, up, opened, force, health, noted, runs, installs, last, unapplied>>

-----------------------------------------------------------------------------
(* Journal, then commit.                                                    *)

\* The control record; a reload that finds nothing changed names no version.
ChangeRecord(x) ==
  CASE x = "watcher"                          -> ControlRecord("changed", job[x].doc)
    [] x = "reload" /\ job[x].doc = force     -> ControlRecord("admin", Missing)
    [] OTHER                                  -> ControlRecord("admin", job[x].doc)

\* SignedBundle::commit.
Commit(d) ==
  /\ force' = d
  /\ noted' = Missing
  /\ last' = IF up = "serving" THEN d ELSE last
  /\ unapplied' = Missing

\* Mutant: the change is applied although its record was not acknowledged.
CommitUnjournaled(x) ==
  /\ At(x, "append")
  /\ x # "install"
  /\ AppendFails(ChangeRecord(x))
  /\ Commit(job[x].doc)
  /\ health' = "unjournaled"
  /\ Release(x)
  /\ UNCHANGED <<diskVars, up, opened, runs, installs>>

\* Mutant: an install is put in force before its files are written.
InstallBeforeFiles(x) ==
  /\ At(x, "append")
  /\ AppendOk(ChangeRecord(x))
  /\ Commit(job[x].doc)
  /\ IF x = "install" THEN Goto(x, "sig") /\ UNCHANGED mutation ELSE Release(x)
  /\ UNCHANGED <<diskVars, up, opened, health, runs, installs>>

\* The change is journaled: the watcher and the reload commit.
ChangeJournaled(x) ==
  /\ At(x, "append")
  /\ AppendOk(ChangeRecord(x))
  /\ IF x = "install"
     THEN Goto(x, "sig") /\ UNCHANGED <<force, noted, last, unapplied, mutation>>
     ELSE /\ Release(x)
          /\ IF job[x].doc = force THEN UNCHANGED <<force, noted, last, unapplied>>
             ELSE Commit(job[x].doc)
  /\ UNCHANGED <<diskVars, up, opened, health, runs, installs>>

\* It is not: nothing is applied; the watcher says so in its health.
ChangeUnjournaled(x) ==
  /\ At(x, "append")
  /\ AppendFails(ChangeRecord(x))
  /\ IF x = "watcher" THEN health' = "unjournaled" /\ unapplied' = job[x].doc
     ELSE UNCHANGED <<health, unapplied>>
  /\ Release(x)
  /\ UNCHANGED <<diskVars, up, opened, force, noted, runs, installs, last>>

-----------------------------------------------------------------------------
(* The admin install: stage_candidate, journal, signature, document, commit. *)

\* stage_candidate: the uploaded bytes compile and their signature verifies.
StageCandidate(d) == d \in Compiles /\ d \in Signed

BeginInstall(d) ==
  /\ up = "serving" /\ InBounds(installs, MaxInstalls)
  /\ At("install", "idle")
  /\ StageCandidate(d)
  /\ Acquire("install")
  /\ installs' = installs + 1
  /\ job' = [job EXCEPT !["install"].pc = "append", !["install"].doc = d]
  /\ UNCHANGED <<diskVars, up, opened, force, health, noted, journalVars, runs, last, unapplied>>

\* install_signed, first the signature file, each replaced atomically.
WriteSig ==
  /\ At("install", "sig")
  /\ disk' = WriteDetached(disk, job["install"].doc)
  /\ Goto("install", "doc")
  /\ UNCHANGED <<edits, up, opened, force, health, noted, mutation, journalVars, runs, installs,
                 last, unapplied>>

WriteDoc ==
  /\ At("install", "doc")
  /\ disk' = [disk EXCEPT !.doc = job["install"].doc]
  /\ Goto("install", "commit")
  /\ UNCHANGED <<edits, up, opened, force, health, noted, mutation, journalVars, runs, installs,
                 last, unapplied>>

\* Either write may fail: the call is answered Unavailable, nothing committed.
WriteFails ==
  /\ At("install", "sig") \/ At("install", "doc")
  /\ Release("install")
  /\ UNCHANGED <<diskVars, up, opened, force, health, noted, journalVars, runs, installs,
                 last, unapplied>>

InstallCommits ==
  /\ At("install", "commit")
  /\ Commit(job["install"].doc)
  /\ Release("install")
  /\ UNCHANGED <<diskVars, up, opened, health, journalVars, runs, installs>>

-----------------------------------------------------------------------------
(* The operator, at any time, with no lock; and crashes.                    *)

Edit(d, s) ==
  /\ InBounds(edits, MaxEdits)
  /\ edits' = edits + 1
  /\ disk' = [doc |-> d, sig |-> s]
  /\ UNCHANGED <<up, opened, force, health, noted, mutation, job, journalVars, runs, installs,
                 last, unapplied>>

OperatorEdits ==
  \/ \E d \in (Docs \cup {Missing}) \ {disk.doc} : Edit(d, disk.sig)
  \/ \E s \in (Signed \cup {Missing}) \ {disk.sig} : Edit(disk.doc, s)

Crash ==
  /\ up # "down"
  /\ Down

-----------------------------------------------------------------------------
Step(x) ==
  \/ ReadBytes(x) \/ Staged(x) \/ Refused(x)
  \/ RejectJournaled(x) \/ RejectUnjournaled(x)
  \/ ChangeJournaled(x) \/ ChangeUnjournaled(x)

Install == WriteSig \/ WriteDoc \/ WriteFails \/ InstallCommits

Next ==
  \/ Load \/ SnapshotInForce \/ JournalInForce \/ StartRefused
  \/ \E x \in Actors : BeginJob(x) \/ Step(x)
  \/ \E d \in Docs : BeginInstall(d)
  \/ Install
  \/ \E r \in late : LateWrite(r)
  \/ OperatorEdits \/ Crash

Spec == Init /\ [][Next]_vars

\* Every holder of the mutation lock goes on (its awaits are bounded), the lock is fair,
\* the watcher keeps ticking, and a journal that is not poisoned acknowledges
\* in time again and again.
Fairness ==
  /\ \A x \in Actors : WF_vars(Step(x))
  /\ WF_vars(Install)
  /\ SF_vars(BeginJob("watcher"))
  /\ SF_vars(ChangeJournaled("watcher")) /\ SF_vars(RejectJournaled("watcher"))

-----------------------------------------------------------------------------
(* Types of the bundle's state.                                             *)
TypeOK ==
  /\ disk \in [doc : Docs \cup {Missing}, sig : Docs \cup {Missing}]
  /\ up \in {"down", "starting", "recording", "serving"}
  /\ opened \in Docs \cup {Missing}
  /\ force \in Docs \cup {Missing}
  /\ health \in {"none", "rejected", "unjournaled"}
  /\ noted \in {Missing} \cup
       ((Docs \cup {Missing}) \X {"unreadable", "signature", "compile"})
  /\ mutation \in Actors \cup {"free"}
  /\ \A x \in Actors : job[x].doc \in Docs \cup {Missing}
  /\ poisoned \in BOOLEAN

(* A gateway serves only under evidence: the document in force while it     *)
(* serves has a durable control record of this process (loaded, changed or  *)
(* an admin mutation), whatever failed, was retried, or was late.           *)
EvidencedInForce ==
  up = "serving" =>
    \E kind \in {"loaded", "changed", "admin"} : ControlRecord(kind, force) \in journal

(* No unverified document is ever in force: not one whose signature belongs *)
(* to other bytes, not one of two files caught in the middle of an edit or  *)
(* of an install, not one that does not compile.                            *)
VerifiedInForce == up # "down" => force \in Compiles \cap Signed

(* What governs the calls is verified and has its record (load, tick,       *)
(* reload, install).                                                        *)
GovernedByEvidence == EvidencedInForce /\ VerifiedInForce

\* An install in force survives a restart: while the operator leaves the files
\* alone, a process loads the document that was last in force or one a journaled
\* install wrote after it, never an older one.
InstallSticks ==
  up # "down" /\ edits = 0 =>
    \/ force = last
    \/ \E n \in 1..runs - 1 : <<n, "admin", force>> \in journal

Installing == job["install"].pc \in {"sig", "doc", "commit"}

(* An install holds: between its durable intent and its effect nobody else  *)
(* changes the document in force (the comment on the mutation lock), and    *)
(* once in force it survives a restart.                                     *)
InstallHolds ==
  [][ InstallSticks' /\ (Installing /\ Installing' => force' = force) ]_vars

GoodPair == Reason(disk.doc, disk.sig) = "none"

(* The files win: if in the end they hold a good pair and the process       *)
(* serves with a working journal, that document is in force and health is   *)
(* clear from some point on.                                                *)
ConvergesToDisk ==
  <>[](up = "serving" /\ ~poisoned /\ GoodPair)
    => <>[](force = disk.doc /\ health = "none")

(* A rejection is not lost: files that stay broken under a serving process  *)
(* with a working journal get their record, over any failed appends.        *)
RejectionRecorded ==
  <>[](up = "serving" /\ ~poisoned /\ ~GoodPair)
    => <>(ControlRecord("rejected", disk.doc) \in journal)

(* The doc of the module: "A change whose record cannot be made durable     *)
(* within the bound is not applied, and `degraded` says so until the        *)
(* journal recovers".                                                       *)
DegradedSaysSo ==
  up = "serving" /\ poisoned /\ unapplied # Missing
    /\ disk = [doc |-> unapplied, sig |-> unapplied] /\ force # unapplied
    => health # "none"

=============================================================================
