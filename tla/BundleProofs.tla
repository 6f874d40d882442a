----------------------------- MODULE BundleProofs -----------------------------
(***************************************************************************)
(* Proofs about the signed bundle (Bundle): for any documents, any number   *)
(* of edits, installs and processes, and wherever the journal fails; and    *)
(* about the policy a bundle carries (Policy): for any pattern and text,    *)
(* any document that compiles and any context.                              *)
(***************************************************************************)
EXTENDS Bundle, Policy, FiniteSetTheorems, WellFoundedInduction, TLAPS

-----------------------------------------------------------------------------
(* The inductive invariant.                                                *)

Good == Compiles \cap Signed

Job == [pc : {"idle", "read", "verify", "append", "reject", "sig", "doc", "commit"},
        doc : Docs \cup {Missing},
        reason : {"none", "unreadable", "signature", "compile"}]

Types ==
  /\ disk \in [doc : Docs \cup {Missing}, sig : Signed \cup {Missing}]
  /\ up \in {"down", "starting", "recording", "serving"}
  /\ force \in Docs \cup {Missing}
  /\ job \in [Actors -> Job]
  /\ runs \in Nat /\ edits \in Nat

Recorded(d) == \E kind \in {"loaded", "changed", "admin"} : ControlRecord(kind, d) \in journal

\* Some install up to process n was journaled.
InstalledBy(n, d) == \E k \in 1..n : <<k, "admin", d>> \in journal

\* One actor at a time is under way, and only in a process that runs.
Locked ==
  \A x \in Actors :
    /\ job[x].pc # "idle" => mutation = x /\ up # "down"
    /\ job[x].pc # "idle" /\ x # "watcher" => up = "serving"
    /\ job[x].pc \in {"sig", "doc", "commit"} => x = "install"
    /\ x = "install" => job[x].pc \notin {"read", "verify", "reject"}

\* What is staged is verified; an install's files follow its record.
Vetted ==
  /\ \A x \in Actors : job[x].pc \in {"append", "sig", "doc", "commit"} => job[x].doc \in Good
  /\ Installing => ControlRecord("admin", job["install"].doc) \in journal

InForce ==
  /\ up # "down" => force \in Good /\ runs > 0
  /\ up = "recording" => force = opened \/ Recorded(force)
  /\ up = "serving" => force = last /\ Recorded(force)

\* While the operator stays away, the file on disk is the document last in force
\* or that of a journaled install, and what an actor read is still on disk.
FilesKept ==
  edits = 0 =>
    /\ disk.doc = last \/ InstalledBy(runs, disk.doc)
    /\ up \in {"starting", "recording"} =>
         force = disk.doc /\ (disk.doc = last \/ InstalledBy(runs - 1, disk.doc))
    /\ \A x \in {"watcher", "reload"} :
         job[x].pc \in {"verify", "append"} => job[x].doc = disk.doc
    /\ job["install"].pc = "commit" => job["install"].doc = disk.doc

BundleInv == Types /\ Locked /\ Vetted /\ InForce /\ FilesKept

-----------------------------------------------------------------------------
(* An actor moves, alone. *)

LEMMA Alone ==
  ASSUME Locked, NEW x \in Actors, job[x].pc # "idle"
  PROVE  \A y \in Actors : y # x => job[y].pc = "idle"
BY DEF Locked

LEMMA LabelsDiffer ==
  /\ "watcher" \in Actors /\ "reload" \in Actors /\ "install" \in Actors
  /\ \A x \in Actors : x \in {"watcher", "reload", "install"} /\ x # "free"
BY DEF Actors

LEMMA JobSet ==
  ASSUME Types, NEW x \in Actors, NEW new \in Job, job' = [job EXCEPT ![x] = new]
  PROVE  /\ job' \in [Actors -> Job] /\ job'[x] = new
         /\ \A y \in Actors : y # x => job'[y] = job[y]
BY DEF Types

LEMMA JobGoes ==
  ASSUME Types, NEW x \in Actors, NEW label, Goto(x, label),
         label \in {"idle", "read", "verify", "append", "reject", "sig", "doc", "commit"}
  PROVE  /\ job' \in [Actors -> Job] /\ job'[x].pc = label /\ job'[x].doc = job[x].doc
         /\ \A y \in Actors : y # x => job'[y] = job[y]
<1> DEFINE new == [job[x] EXCEPT !.pc = label]
<1>1. job \in [Actors -> Job] /\ job[x] \in Job
  BY DEF Types
<1>2. new \in Job /\ new.pc = label /\ new.doc = job[x].doc
  BY <1>1 DEF Job
<1>3. job' = [job EXCEPT ![x] = new]
  BY <1>1 DEF Goto, Job
<1> HIDE DEF new
<1> QED
  BY <1>2, <1>3, JobSet

LEMMA Resting ==
  \A x \in Actors : NoJobs[x] \in Job /\ NoJobs[x].pc = "idle" /\ NoJobs[x].doc = Missing
BY DEF NoJobs, Job

LEMMA JobEnds ==
  ASSUME Types, NEW x \in Actors, Release(x)
  PROVE  /\ mutation' = "free" /\ job' \in [Actors -> Job] /\ job'[x].pc = "idle"
         /\ \A y \in Actors : y # x => job'[y] = job[y]
<1> DEFINE new == NoJobs[x]
<1>1. new \in Job /\ new.pc = "idle"
  BY Resting
<1>2. mutation' = "free" /\ job' = [job EXCEPT ![x] = new]
  BY DEF Release
<1> HIDE DEF new
<1> QED
  BY <1>1, <1>2, JobSet

LEMMA RecordsStay ==
  ASSUME journal \subseteq journal', runs' = runs
  PROVE  /\ \A d : Recorded(d) => Recorded(d)'
         /\ \A n, d : InstalledBy(n, d) => InstalledBy(n, d)'
         /\ \A kind, d : ControlRecord(kind, d) \in journal => ControlRecord(kind, d)' \in journal'
BY DEF Recorded, InstalledBy, ControlRecord

(* The verdict "none" is a signed document that compiles. *)
LEMMA ReasonNone ==
  ASSUME Types, NEW d \in Docs \cup {Missing}, Reason(d, disk.sig) = "none"
  PROVE  d \in Good
<1>1. disk.sig \in Signed \cup {Missing}
  BY DEF Types
<1>2. CASE d = Missing
  BY <1>2 DEF Reason, Verifies
<1>3. CASE d # Missing /\ disk.sig # d
  BY <1>3 DEF Reason, Verifies
<1>4. CASE d # Missing /\ disk.sig = d /\ d \notin Compiles
  BY <1>4 DEF Reason, Verifies
<1>5. CASE d # Missing /\ disk.sig = d /\ d \in Compiles
  BY <1>1, <1>5 DEF Good
<1> QED
  BY <1>2, <1>3, <1>4, <1>5

LEMMA ReasonType ==
  ASSUME NEW d, NEW s
  PROVE  Reason(d, s) \in {"none", "unreadable", "signature", "compile"}
<1>1. CASE d = Missing
  BY <1>1 DEF Reason, Verifies
<1>2. CASE d # Missing /\ s # d
  BY <1>2 DEF Reason, Verifies
<1>3. CASE d # Missing /\ s = d /\ d \notin Compiles
  BY <1>3 DEF Reason, Verifies
<1>4. CASE d # Missing /\ s = d /\ d \in Compiles
  BY <1>4 DEF Reason, Verifies
<1> QED
  BY <1>1, <1>2, <1>3, <1>4

-----------------------------------------------------------------------------
(* What most steps leave alone: the files, the process and what is in       *)
(* force; one actor moves, and the journal may have grown.                  *)

LEMMA ActorMoves ==
  ASSUME BundleInv, NEW x \in Actors,
         job' \in [Actors -> Job], \A y \in Actors : y # x => job'[y] = job[y],
         UNCHANGED <<disk, edits, up, opened, force, runs, last>>, journal \subseteq journal',
         \A y \in Actors : y # x => job[y].pc = "idle",
         \/ job'[x].pc = "idle"
         \/ /\ job'[x].pc # "idle" /\ mutation' = x /\ up # "down"
            /\ x # "watcher" => up = "serving"
            /\ job'[x].pc \in {"sig", "doc", "commit"} => x = "install"
            /\ x = "install" => job'[x].pc \notin {"read", "verify", "reject"}
            /\ job'[x].pc \in {"append", "sig", "doc", "commit"} => job'[x].doc \in Good
            /\ job'[x].pc \in {"sig", "doc", "commit"} =>
                 ControlRecord("admin", job'[x].doc) \in journal'
            /\ edits = 0 => IF x = "install"
                            THEN job'[x].pc = "commit" => job'[x].doc = disk.doc
                            ELSE job'[x].pc \in {"verify", "append"} => job'[x].doc = disk.doc
  PROVE  BundleInv'
<1>1. Types'
  BY DEF BundleInv, Types
<1>2. Locked'
  BY DEF BundleInv, Locked
<1>3. Vetted'
  <2>1. \A y \in Actors : job'[y].pc \in {"append", "sig", "doc", "commit"} => job'[y].doc \in Good
    OBVIOUS
  <2>2. Installing' => x = "install"
    BY LabelsDiffer DEF Installing
  <2>3. Installing' => ControlRecord("admin", job'["install"].doc) \in journal'
    BY <2>2 DEF Installing
  <2> QED
    BY <2>1, <2>3 DEF Vetted, ControlRecord
<1>4. InForce'
  BY RecordsStay DEF BundleInv, InForce
<1>5. FilesKept'
  <2>1. SUFFICES ASSUME edits = 0
                 PROVE  /\ disk.doc = last \/ InstalledBy(runs, disk.doc)'
                        /\ up \in {"starting", "recording"} =>
                             force = disk.doc /\ (disk.doc = last \/ InstalledBy(runs - 1, disk.doc)')
                        /\ \A y \in {"watcher", "reload"} :
                             job'[y].pc \in {"verify", "append"} => job'[y].doc = disk.doc
                        /\ job'["install"].pc = "commit" => job'["install"].doc = disk.doc
    BY DEF FilesKept
  <2>2. /\ disk.doc = last \/ InstalledBy(runs, disk.doc)
        /\ up \in {"starting", "recording"} =>
             force = disk.doc /\ (disk.doc = last \/ InstalledBy(runs - 1, disk.doc))
    BY <2>1 DEF BundleInv, FilesKept
  <2>3. ASSUME NEW y \in {"watcher", "reload"}, job'[y].pc \in {"verify", "append"}
        PROVE  job'[y].doc = disk.doc
    BY <2>1, <2>3, LabelsDiffer
  <2>4. ASSUME job'["install"].pc = "commit" PROVE job'["install"].doc = disk.doc
    BY <2>1, <2>4, LabelsDiffer
  <2> QED
    BY <2>2, <2>3, <2>4, RecordsStay
<1> QED
  BY <1>1, <1>2, <1>3, <1>4, <1>5 DEF BundleInv

-----------------------------------------------------------------------------
(* The steps of the actors. *)

LEMMA StepBeginJob ==
  ASSUME BundleInv, NEW x \in Actors, BeginJob(x)
  PROVE  BundleInv'
<1>1. Types /\ Locked
  BY DEF BundleInv
<1>2. /\ x \in {"watcher", "reload"} /\ (x = "reload" => up = "serving") /\ up # "down"
      /\ mutation = "free" /\ mutation' = x /\ Goto(x, "read") /\ journal' = journal
      /\ UNCHANGED <<disk, edits, up, opened, force, runs, last>>
  BY DEF BeginJob, At, Acquire, diskVars, journalVars
<1>3. \A y \in Actors : job[y].pc = "idle"
  BY <1>1, <1>2, LabelsDiffer DEF Locked
<1>4. /\ job' \in [Actors -> Job] /\ job'[x].pc = "read"
      /\ \A y \in Actors : y # x => job'[y] = job[y]
  BY <1>1, <1>2, JobGoes
<1> QED
  BY <1>2, <1>3, <1>4, ActorMoves

LEMMA StepReadBytes ==
  ASSUME BundleInv, NEW x \in Actors, ReadBytes(x)
  PROVE  BundleInv'
<1> DEFINE new == [job[x] EXCEPT !.pc = "verify", !.doc = disk.doc]
<1>1. Types /\ Locked /\ job \in [Actors -> Job] /\ job[x] \in Job /\ disk.doc \in Docs \cup {Missing}
  BY DEF BundleInv, Types
<1>2. /\ job[x].pc = "read" /\ mutation' = mutation /\ journal' = journal
      /\ UNCHANGED <<disk, edits, up, opened, force, runs, last>>
  BY DEF ReadBytes, At, diskVars, journalVars
<1>3. new \in Job /\ new.pc = "verify" /\ new.doc = disk.doc
  BY <1>1 DEF Job
<1>4. job' = [job EXCEPT ![x] = new]
  BY <1>1 DEF ReadBytes, Job
<1> HIDE DEF new
<1>5. /\ job' \in [Actors -> Job] /\ job'[x] = new
      /\ \A y \in Actors : y # x => job'[y] = job[y]
  BY <1>1, <1>3, <1>4, JobSet
<1>6. /\ mutation = x /\ up # "down" /\ (x # "watcher" => up = "serving") /\ x # "install"
  BY <1>1, <1>2 DEF Locked
<1>7. \A y \in Actors : y # x => job[y].pc = "idle"
  BY <1>1, <1>2, Alone
<1> QED
  BY <1>2, <1>3, <1>5, <1>6, <1>7, ActorMoves

LEMMA StepStaged ==
  ASSUME BundleInv, NEW x \in Actors, Staged(x)
  PROVE  BundleInv'
<1>1. Types /\ Locked /\ job \in [Actors -> Job] /\ job[x] \in Job
  BY DEF BundleInv, Types
<1>2. /\ job[x].pc = "verify" /\ Reason(job[x].doc, disk.sig) = "none" /\ journal' = journal
      /\ UNCHANGED <<disk, edits, up, opened, force, runs, last>>
  BY DEF Staged, At, diskVars, journalVars
<1>3. /\ mutation = x /\ up # "down" /\ (x # "watcher" => up = "serving") /\ x # "install"
  BY <1>1, <1>2 DEF Locked
<1>4. \A y \in Actors : y # x => job[y].pc = "idle"
  BY <1>1, <1>2, Alone
<1>5. CASE Release(x)
  <2>1. /\ job' \in [Actors -> Job] /\ job'[x].pc = "idle"
        /\ \A y \in Actors : y # x => job'[y] = job[y]
    BY <1>1, <1>5, JobEnds
  <2> QED
    BY <1>2, <1>4, <2>1, ActorMoves
<1>6. CASE Goto(x, "append") /\ mutation' = mutation
  <2>1. /\ job' \in [Actors -> Job] /\ job'[x].pc = "append" /\ job'[x].doc = job[x].doc
        /\ \A y \in Actors : y # x => job'[y] = job[y]
    BY <1>1, <1>6, JobGoes
  <2>2. job[x].doc \in Good
    BY <1>1, <1>2, ReasonNone DEF Job
  <2>3. edits = 0 => job[x].doc = disk.doc
    BY <1>2, <1>3, LabelsDiffer DEF BundleInv, FilesKept
  <2> QED
    BY <1>2, <1>3, <1>4, <1>6, <2>1, <2>2, <2>3, ActorMoves
<1> QED
  BY <1>5, <1>6 DEF Staged

LEMMA StepRefused ==
  ASSUME BundleInv, NEW x \in Actors, Refused(x)
  PROVE  BundleInv'
<1> DEFINE why == Reason(job[x].doc, disk.sig)
           new == [job[x] EXCEPT !.pc = "reject", !.reason = why]
<1>1. Types /\ Locked /\ job \in [Actors -> Job] /\ job[x] \in Job
  BY DEF BundleInv, Types
<1>2. /\ job[x].pc = "verify" /\ journal' = journal
      /\ UNCHANGED <<disk, edits, up, opened, force, runs, last>>
  BY DEF Refused, At, diskVars, journalVars
<1>3. /\ mutation = x /\ up # "down" /\ (x # "watcher" => up = "serving") /\ x # "install"
  BY <1>1, <1>2 DEF Locked
<1>4. \A y \in Actors : y # x => job[y].pc = "idle"
  BY <1>1, <1>2, Alone
<1>5. CASE Release(x)
  <2>1. /\ job' \in [Actors -> Job] /\ job'[x].pc = "idle"
        /\ \A y \in Actors : y # x => job'[y] = job[y]
    BY <1>1, <1>5, JobEnds
  <2> QED
    BY <1>2, <1>4, <2>1, ActorMoves
<1>6. CASE job' = [job EXCEPT ![x].pc = "reject", ![x].reason = why] /\ mutation' = mutation
  <2>1. why \in {"none", "unreadable", "signature", "compile"}
    BY ReasonType
  <2> HIDE DEF why
  <2>2. new \in Job /\ new.pc = "reject"
    BY <1>1, <2>1 DEF Job
  <2>3. job' = [job EXCEPT ![x] = new]
    BY <1>1, <1>6 DEF Job
  <2> HIDE DEF new
  <2>4. /\ job' \in [Actors -> Job] /\ job'[x] = new
        /\ \A y \in Actors : y # x => job'[y] = job[y]
    BY <1>1, <2>2, <2>3, JobSet
  <2> QED
    BY <1>2, <1>3, <1>4, <1>6, <2>2, <2>4, ActorMoves
<1> QED
  BY <1>5, <1>6 DEF Refused

LEMMA StepRejectEnds ==
  ASSUME BundleInv, NEW x \in Actors, RejectJournaled(x) \/ RejectUnjournaled(x)
  PROVE  BundleInv'
<1>1. Types /\ Locked
  BY DEF BundleInv
<1>2. /\ job[x].pc = "reject" /\ journal \subseteq journal' /\ Release(x)
      /\ UNCHANGED <<disk, edits, up, opened, force, runs, last>>
  BY DEF RejectJournaled, RejectUnjournaled, AppendOk, AppendFails, At, diskVars
<1>3. \A y \in Actors : y # x => job[y].pc = "idle"
  BY <1>1, <1>2, Alone
<1>4. /\ job' \in [Actors -> Job] /\ job'[x].pc = "idle"
      /\ \A y \in Actors : y # x => job'[y] = job[y]
  BY <1>1, <1>2, JobEnds
<1> QED
  BY <1>2, <1>3, <1>4, ActorMoves

LEMMA StepChangeUnjournaled ==
  ASSUME BundleInv, NEW x \in Actors, ChangeUnjournaled(x)
  PROVE  BundleInv'
<1>1. Types /\ Locked
  BY DEF BundleInv
<1>2. /\ job[x].pc = "append" /\ journal \subseteq journal' /\ Release(x)
      /\ UNCHANGED <<disk, edits, up, opened, force, runs, last>>
  BY DEF ChangeUnjournaled, AppendFails, At, diskVars
<1>3. \A y \in Actors : y # x => job[y].pc = "idle"
  BY <1>1, <1>2, Alone
<1>4. /\ job' \in [Actors -> Job] /\ job'[x].pc = "idle"
      /\ \A y \in Actors : y # x => job'[y] = job[y]
  BY <1>1, <1>2, JobEnds
<1> QED
  BY <1>2, <1>3, <1>4, ActorMoves

LEMMA StepBeginInstall ==
  ASSUME BundleInv, NEW d \in Docs, BeginInstall(d)
  PROVE  BundleInv'
<1> DEFINE x == "install"
           new == [job[x] EXCEPT !.pc = "append", !.doc = d]
<1>1. x \in Actors /\ Types /\ Locked /\ job \in [Actors -> Job] /\ job[x] \in Job
  BY LabelsDiffer DEF BundleInv, Types
<1>2. /\ up = "serving" /\ d \in Good /\ mutation = "free" /\ mutation' = x /\ journal' = journal
      /\ UNCHANGED <<disk, edits, up, opened, force, runs, last>>
  BY DEF BeginInstall, StageCandidate, Acquire, Good, diskVars, journalVars
<1>3. \A y \in Actors : job[y].pc = "idle"
  BY <1>1, <1>2, LabelsDiffer DEF Locked
<1>4. new \in Job /\ new.pc = "append" /\ new.doc = d
  BY <1>1 DEF Job
<1>5. job' = [job EXCEPT ![x] = new]
  BY <1>1 DEF BeginInstall, Job
<1> HIDE DEF new
<1>6. /\ job' \in [Actors -> Job] /\ job'[x] = new
      /\ \A y \in Actors : y # x => job'[y] = job[y]
  BY <1>1, <1>4, <1>5, JobSet
<1> QED
  BY <1>1, <1>2, <1>3, <1>4, <1>6, ActorMoves

LEMMA StepWriteFails ==
  ASSUME BundleInv, WriteFails
  PROVE  BundleInv'
<1> DEFINE x == "install"
<1>1. x \in Actors /\ Types /\ Locked
  BY LabelsDiffer DEF BundleInv
<1>2. /\ job[x].pc # "idle" /\ journal' = journal /\ Release(x)
      /\ UNCHANGED <<disk, edits, up, opened, force, runs, last>>
  BY DEF WriteFails, At, diskVars, journalVars
<1>3. \A y \in Actors : y # x => job[y].pc = "idle"
  BY <1>1, <1>2, Alone
<1>4. /\ job' \in [Actors -> Job] /\ job'[x].pc = "idle"
      /\ \A y \in Actors : y # x => job'[y] = job[y]
  BY <1>1, <1>2, JobEnds
<1> QED
  BY <1>1, <1>2, <1>3, <1>4, ActorMoves

(* A document that is verified and recorded is put in force, and the actor  *)
(* is done; with the operator away it is the one on disk.                   *)
LEMMA CommitHolds ==
  ASSUME BundleInv, NEW x \in Actors, job[x].pc \in {"append", "commit"}, Release(x),
         NEW d, d = job[x].doc, Commit(d), UNCHANGED <<disk, edits, up, opened, runs>>,
         journal \subseteq journal', Recorded(d)', edits = 0 => d = disk.doc
  PROVE  BundleInv'
<1>1. Types /\ Locked /\ job[x] \in Job
  BY DEF BundleInv, Types
<1>2. d \in Good
  BY DEF BundleInv, Vetted
<1>3. force' = d /\ last' = IF up = "serving" THEN d ELSE last
  BY DEF Commit
<1>4. up # "down" /\ runs > 0
  BY <1>1 DEF BundleInv, Locked, InForce
<1>5. \A y \in Actors : y # x => job[y].pc = "idle"
  BY <1>1, Alone
<1>6. /\ job' \in [Actors -> Job] /\ job'[x].pc = "idle"
      /\ \A y \in Actors : y # x => job'[y] = job[y]
  BY <1>1, JobEnds
<1>7. \A y \in Actors : job'[y].pc = "idle"
  BY <1>5, <1>6
<1>8. d \in Docs \cup {Missing}
  BY <1>1 DEF Job
<1>9. Types'
  BY <1>1, <1>3, <1>6, <1>8 DEF Types
<1>10. Locked' /\ Vetted'
  BY <1>7, LabelsDiffer DEF Locked, Vetted, Installing
<1>11. InForce'
  BY <1>2, <1>3, <1>4 DEF InForce
<1>12. FilesKept'
  <2>1. SUFFICES ASSUME edits = 0
                 PROVE  /\ disk.doc = last' \/ InstalledBy(runs, disk.doc)'
                        /\ up \in {"starting", "recording"} =>
                             force' = disk.doc /\ (disk.doc = last' \/ InstalledBy(runs - 1, disk.doc)')
    BY <1>7, LabelsDiffer DEF FilesKept
  <2>2. /\ disk.doc = last \/ InstalledBy(runs, disk.doc)
        /\ up \in {"starting", "recording"} =>
             force = disk.doc /\ (disk.doc = last \/ InstalledBy(runs - 1, disk.doc))
    BY <2>1 DEF BundleInv, FilesKept
  <2>3. d = disk.doc
    BY <2>1
  <2>4. CASE up = "serving"
    BY <1>3, <2>3, <2>4
  <2>5. CASE up # "serving"
    BY <1>3, <2>2, <2>3, <2>5, RecordsStay
  <2> QED
    BY <2>4, <2>5
<1> QED
  BY <1>9, <1>10, <1>11, <1>12 DEF BundleInv

LEMMA StepChangeJournaled ==
  ASSUME BundleInv, NEW x \in Actors, ChangeJournaled(x)
  PROVE  BundleInv'
<1>1. Types /\ Locked /\ job \in [Actors -> Job] /\ job[x] \in Job
  BY DEF BundleInv, Types
<1>2. /\ job[x].pc = "append" /\ journal' = journal \cup {ChangeRecord(x)}
      /\ UNCHANGED <<disk, edits, up, opened, runs>>
  BY DEF ChangeJournaled, AppendOk, At, diskVars
<1>3. /\ mutation = x /\ up # "down" /\ (x # "watcher" => up = "serving")
  BY <1>1, <1>2 DEF Locked
<1>4. \A y \in Actors : y # x => job[y].pc = "idle"
  BY <1>1, <1>2, Alone
<1>5. job[x].doc \in Good
  BY <1>2 DEF BundleInv, Vetted
<1>6. CASE x = "install"
  <2>1. Goto(x, "sig") /\ UNCHANGED <<force, last, mutation>>
    BY <1>6 DEF ChangeJournaled
  <2>2. /\ job' \in [Actors -> Job] /\ job'[x].pc = "sig" /\ job'[x].doc = job[x].doc
        /\ \A y \in Actors : y # x => job'[y] = job[y]
    BY <1>1, <2>1, JobGoes
  <2>3. ChangeRecord(x) = ControlRecord("admin", job[x].doc)
    BY <1>6 DEF ChangeRecord
  <2> QED
    BY <1>2, <1>3, <1>4, <1>5, <1>6, <2>1, <2>2, <2>3, ActorMoves
<1>7. CASE x # "install" /\ job[x].doc = force
  <2>1. Release(x) /\ UNCHANGED <<force, last>>
    BY <1>7 DEF ChangeJournaled
  <2>2. /\ job' \in [Actors -> Job] /\ job'[x].pc = "idle"
        /\ \A y \in Actors : y # x => job'[y] = job[y]
    BY <1>1, <2>1, JobEnds
  <2> QED
    BY <1>2, <1>4, <2>1, <2>2, ActorMoves
<1>8. CASE x # "install" /\ job[x].doc # force
  <2>1. Release(x) /\ Commit(job[x].doc)
    BY <1>8 DEF ChangeJournaled
  <2>2. ChangeRecord(x) \in {ControlRecord("changed", job[x].doc), ControlRecord("admin", job[x].doc)}
    BY <1>8, LabelsDiffer DEF ChangeRecord
  <2>3. \E kind \in {"loaded", "changed", "admin"} : ControlRecord(kind, job[x].doc) \in journal'
    BY <1>2, <2>2
  <2>4. edits = 0 => job[x].doc = disk.doc
    BY <1>2, <1>8, LabelsDiffer DEF BundleInv, FilesKept
  <2>5. PICK d : d = job[x].doc
    OBVIOUS
  <2>6. Recorded(d)'
    BY <1>2, <2>3, <2>5 DEF Recorded, ControlRecord
  <2> QED
    BY <1>2, <2>1, <2>4, <2>5, <2>6, CommitHolds
<1> QED
  BY <1>6, <1>7, <1>8

LEMMA StepWriteFile ==
  ASSUME BundleInv, WriteSig \/ WriteDoc
  PROVE  BundleInv'
<1> DEFINE x == "install"
           d == job[x].doc
<1>1. x \in Actors /\ Types /\ Locked /\ job[x] \in Job
  BY LabelsDiffer DEF BundleInv, Types
<1>2. /\ job[x].pc \in {"sig", "doc"} /\ mutation' = mutation /\ journal' = journal
      /\ UNCHANGED <<edits, up, opened, force, runs, last>>
  BY DEF WriteSig, WriteDoc, WriteDetached, At, journalVars
<1>3. mutation = x /\ up = "serving"
  BY <1>1, <1>2, LabelsDiffer DEF Locked
<1>4. \A y \in Actors : y # x => job[y].pc = "idle"
  BY <1>1, <1>2, Alone
<1>5. d \in Good /\ ControlRecord("admin", d) \in journal /\ runs > 0 /\ d \in Docs \cup {Missing}
  BY <1>1, <1>2, <1>3 DEF BundleInv, Vetted, Installing, InForce, Job
<1>6. \/ Goto(x, "doc") /\ disk' = [disk EXCEPT !.sig = d]
      \/ Goto(x, "commit") /\ disk' = [disk EXCEPT !.doc = d]
  BY DEF WriteSig, WriteDoc, WriteDetached
<1>7. /\ job' \in [Actors -> Job] /\ job'[x].pc \in {"doc", "commit"} /\ job'[x].doc = d
      /\ \A y \in Actors : y # x => job'[y] = job[y]
      /\ Goto(x, "doc") => job'[x].pc = "doc"
  BY <1>1, <1>6, JobGoes
<1> HIDE DEF d
<1>8. disk \in [doc : Docs \cup {Missing}, sig : Signed \cup {Missing}]
  BY <1>1 DEF Types
<1>9. /\ disk' \in [doc : Docs \cup {Missing}, sig : Signed \cup {Missing}]
      /\ \/ disk'.doc = disk.doc /\ job'[x].pc = "doc"
         \/ disk'.doc = d
  BY <1>5, <1>6, <1>7, <1>8 DEF Good
<1>10. Types'
  BY <1>1, <1>2, <1>7, <1>9 DEF Types
<1>11. Locked'
  BY <1>2, <1>3, <1>4, <1>7, LabelsDiffer DEF Locked
<1>12. Vetted'
  BY <1>2, <1>4, <1>5, <1>7, LabelsDiffer DEF Vetted, Installing, ControlRecord
<1>13. InForce'
  BY <1>2 DEF BundleInv, InForce, Recorded, ControlRecord
<1>14. FilesKept'
  <2>1. SUFFICES ASSUME edits = 0
                 PROVE  /\ disk'.doc = last \/ InstalledBy(runs, disk.doc)'
                        /\ job'[x].pc = "commit" => job'[x].doc = disk'.doc
    BY <1>2, <1>3, <1>4, <1>7, LabelsDiffer DEF FilesKept
  <2>2. disk.doc = last \/ InstalledBy(runs, disk.doc)
    BY <2>1 DEF BundleInv, FilesKept
  <2>3. InstalledBy(runs, d)
    <3>1. runs \in Nat
      BY <1>1 DEF Types
    <3>2. runs \in 1..runs
      BY <1>5, <3>1
    <3> QED
      BY <1>5, <3>2 DEF InstalledBy, ControlRecord
  <2> QED
    BY <1>2, <1>7, <1>9, <2>2, <2>3 DEF InstalledBy
<1> QED
  BY <1>10, <1>11, <1>12, <1>13, <1>14 DEF BundleInv

LEMMA StepInstallCommits ==
  ASSUME BundleInv, InstallCommits
  PROVE  BundleInv'
<1> DEFINE x == "install"
<1>1. /\ x \in Actors /\ job[x].pc = "commit" /\ Release(x) /\ Commit(job[x].doc) /\ journal' = journal
      /\ UNCHANGED <<disk, edits, up, opened, runs>>
  BY LabelsDiffer DEF InstallCommits, At, diskVars, journalVars
<1>2. PICK d : d = job[x].doc
  OBVIOUS
<1>3. ControlRecord("admin", d) \in journal
  BY <1>1, <1>2 DEF BundleInv, Vetted, Installing
<1>4. Recorded(d)'
  BY <1>1, <1>3 DEF Recorded, ControlRecord
<1>5. edits = 0 => d = disk.doc
  BY <1>1, <1>2 DEF BundleInv, FilesKept
<1> QED
  BY <1>1, <1>2, <1>4, <1>5, CommitHolds

-----------------------------------------------------------------------------
(* The process, the journal and the operator. *)

LEMMA StepLoad ==
  ASSUME BundleInv, Load
  PROVE  BundleInv'
<1>1. Types /\ up = "down" /\ runs' = runs + 1 /\ runs \in Nat
  BY DEF BundleInv, Types, Load
<1>2. UNCHANGED <<disk, edits, opened, mutation, job, journal, last>>
  BY DEF Load, diskVars, journalVars
<1>3. \A x \in Actors : job[x].pc = "idle"
  BY <1>1 DEF BundleInv, Locked
<1>4. \/ up' = "down" /\ force' = force
      \/ up' = "starting" /\ force' = disk.doc /\ disk.doc \in Good
  <2>1. disk.doc \in Docs \cup {Missing}
    BY <1>1 DEF Types
  <2>2. CASE Reason(disk.doc, disk.sig) = "none"
    BY <1>1, <2>1, <2>2, ReasonNone DEF Load
  <2>3. CASE Reason(disk.doc, disk.sig) # "none"
    BY <1>1, <2>3 DEF Load
  <2> QED
    BY <2>2, <2>3
<1>5. Types'
  BY <1>1, <1>2, <1>4 DEF Types
<1>6. Locked' /\ Vetted'
  BY <1>2, <1>3, LabelsDiffer DEF Locked, Vetted, Installing
<1>7. InForce'
  BY <1>1, <1>4 DEF InForce
<1>8. FilesKept'
  <2>1. SUFFICES ASSUME edits = 0
                 PROVE  /\ disk.doc = last \/ InstalledBy(runs, disk.doc)'
                        /\ disk.doc = last \/ InstalledBy(runs - 1, disk.doc)'
    BY <1>2, <1>3, <1>4, LabelsDiffer DEF FilesKept
  <2>2. disk.doc = last \/ InstalledBy(runs, disk.doc)
    BY <2>1 DEF BundleInv, FilesKept
  <2>3. runs' - 1 = runs /\ 1..runs \subseteq 1..runs'
    BY <1>1
  <2>4. InstalledBy(runs, disk.doc) => InstalledBy(runs, disk.doc)' /\ InstalledBy(runs - 1, disk.doc)'
    BY <1>2, <2>3 DEF InstalledBy
  <2> QED
    BY <2>2, <2>4
<1> QED
  BY <1>5, <1>6, <1>7, <1>8 DEF BundleInv

LEMMA StepInForce ==
  ASSUME BundleInv, SnapshotInForce \/ JournalInForce
  PROVE  BundleInv'
<1>1. /\ up \in {"starting", "recording"} /\ up' \in {"recording", "serving"}
      /\ journal \subseteq journal' /\ UNCHANGED <<disk, edits, force, mutation, job, runs>>
  BY DEF SnapshotInForce, JournalInForce, AppendOk, diskVars, journalVars
<1>2. \A x \in Actors : job[x].pc # "idle" => x = "watcher"
  BY <1>1 DEF BundleInv, Locked
<1>3. Types' /\ Locked'
  BY <1>1, <1>2 DEF BundleInv, Types, Locked
<1>4. Vetted'
  BY <1>1, <1>2, LabelsDiffer DEF BundleInv, Vetted, Installing
<1>5. CASE SnapshotInForce
  <2>1. up' = "recording" /\ opened' = force /\ last' = last
    BY <1>5 DEF SnapshotInForce
  <2>2. InForce'
    BY <1>1, <2>1 DEF BundleInv, InForce
  <2>3. FilesKept'
    BY <1>1, <2>1, RecordsStay DEF BundleInv, FilesKept
  <2> QED
    BY <1>3, <1>4, <2>2, <2>3 DEF BundleInv
<1>6. CASE JournalInForce
  <2>1. /\ up = "recording" /\ up' = "serving" /\ last' = force
        /\ journal' = journal \cup {ControlRecord("loaded", opened)}
    BY <1>6 DEF JournalInForce, AppendOk
  <2>2. force \in Good /\ runs > 0 /\ (force = opened \/ Recorded(force))
    BY <2>1 DEF BundleInv, InForce
  <2>3. Recorded(force)'
    <3>1. CASE force = opened
      BY <1>1, <2>1, <3>1 DEF Recorded, ControlRecord
    <3>2. CASE Recorded(force)
      BY <1>1, <3>2 DEF Recorded, ControlRecord
    <3> QED
      BY <2>2, <3>1, <3>2
  <2>4. InForce'
    BY <1>1, <2>1, <2>2, <2>3 DEF InForce
  <2>5. FilesKept'
    BY <1>1, <2>1 DEF BundleInv, FilesKept
  <2> QED
    BY <1>3, <1>4, <2>4, <2>5 DEF BundleInv
<1> QED
  BY <1>5, <1>6

LEMMA StepDown ==
  ASSUME BundleInv, StartRefused \/ Crash
  PROVE  BundleInv'
<1>1. /\ up' = "down" /\ force' = Missing /\ job' = NoJobs
      /\ UNCHANGED <<disk, edits, journal, runs, last>>
  BY DEF StartRefused, Crash, Down, diskVars
<1>2. job' \in [Actors -> Job] /\ \A x \in Actors : job'[x].pc = "idle"
  BY <1>1, Resting DEF NoJobs
<1>3. Types'
  BY <1>1, <1>2 DEF BundleInv, Types
<1>4. Locked' /\ Vetted' /\ InForce'
  BY <1>1, <1>2, LabelsDiffer DEF Locked, Vetted, Installing, InForce
<1>5. FilesKept'
  BY <1>1, <1>2, LabelsDiffer DEF BundleInv, FilesKept, InstalledBy
<1> QED
  BY <1>3, <1>4, <1>5 DEF BundleInv

LEMMA StepRest ==
  ASSUME BundleInv, (\E r \in late : LateWrite(r)) \/ UNCHANGED vars
  PROVE  BundleInv'
<1>1. /\ UNCHANGED <<disk, edits, up, opened, force, mutation, job, runs, last>>
      /\ journal \subseteq journal'
  BY DEF LateWrite, vars, diskVars, journalVars
<1>2. Types' /\ Locked'
  BY <1>1 DEF BundleInv, Types, Locked
<1>3. Vetted' /\ InForce'
  BY <1>1, RecordsStay DEF BundleInv, Vetted, Installing, InForce, ControlRecord
<1>4. FilesKept'
  BY <1>1, RecordsStay DEF BundleInv, FilesKept
<1> QED
  BY <1>2, <1>3, <1>4 DEF BundleInv

LEMMA StepEdit ==
  ASSUME BundleInv, OperatorEdits
  PROVE  BundleInv'
<1>1. disk.doc \in Docs \cup {Missing} /\ disk.sig \in Signed \cup {Missing} /\ edits \in Nat
  BY DEF BundleInv, Types
<1>2. PICK d \in Docs \cup {Missing}, s \in Signed \cup {Missing} : Edit(d, s)
  BY <1>1 DEF OperatorEdits
<1>3. /\ disk' = [doc |-> d, sig |-> s] /\ edits' = edits + 1
      /\ UNCHANGED <<up, opened, force, mutation, job, journal, runs, last>>
  BY <1>2 DEF Edit, journalVars
<1>4. Types' /\ edits' # 0
  BY <1>1, <1>3 DEF BundleInv, Types
<1>5. Locked' /\ Vetted' /\ InForce'
  BY <1>3 DEF BundleInv, Locked, Vetted, Installing, InForce, Recorded, ControlRecord
<1>6. FilesKept'
  BY <1>4 DEF FilesKept
<1> QED
  BY <1>4, <1>5, <1>6 DEF BundleInv

-----------------------------------------------------------------------------
LEMMA BundleInitial == Init => BundleInv
<1> SUFFICES ASSUME Init PROVE BundleInv
  OBVIOUS
<1>1. First \in Docs /\ First \in Signed
  BY BundleConstants
<1>2. job \in [Actors -> Job] /\ \A x \in Actors : job[x].pc = "idle"
  BY Resting DEF Init, NoJobs
<1>3. Types
  BY <1>1, <1>2 DEF Init, Types
<1>4. Locked /\ Vetted /\ InForce /\ FilesKept
  BY <1>2, LabelsDiffer DEF Init, Locked, Vetted, Installing, InForce, FilesKept
<1> QED
  BY <1>3, <1>4 DEF BundleInv

LEMMA BundleStep ==
  ASSUME BundleInv, [Next]_vars
  PROVE  BundleInv'
<1>1. ASSUME NEW x \in Actors, BeginJob(x) \/ Step(x) PROVE BundleInv'
  BY <1>1, StepBeginJob, StepReadBytes, StepStaged, StepRefused, StepRejectEnds,
     StepChangeJournaled, StepChangeUnjournaled DEF Step
<1>2. CASE Install
  BY <1>2, StepWriteFile, StepWriteFails, StepInstallCommits DEF Install
<1> QED
  BY <1>1, <1>2, StepBeginInstall, StepLoad, StepInForce, StepDown, StepRest, StepEdit DEF Next

(* No call is ever governed by a document that was not verified or has no   *)
(* record of this process (load, tick, reload, install of bundle.rs and     *)
(* admin.rs): whatever the operator does to the two files and whichever     *)
(* appends fail or come late.                                               *)
THEOREM Governed == Spec => []GovernedByEvidence
<1>1. Init => BundleInv
  BY BundleInitial
<1>2. BundleInv /\ [Next]_vars => BundleInv'
  BY BundleStep
<1>3. BundleInv => GovernedByEvidence
  BY DEF BundleInv, InForce, GovernedByEvidence, EvidencedInForce, VerifiedInForce, Recorded, Good
<1> QED
  BY <1>1, <1>2, <1>3, PTL DEF Spec

(* Nobody else changes what is in force while an install is under way: the  *)
(* actor that could would hold the mutation lock.                           *)
LEMMA InstallAlone ==
  ASSUME BundleInv, Next, Installing, Installing'
  PROVE  force' = force
<1>1. /\ "install" \in Actors /\ job["install"].pc \in {"sig", "doc", "commit"}
      /\ job'["install"].pc \in {"sig", "doc", "commit"} /\ Types /\ Locked
  BY LabelsDiffer DEF BundleInv, Installing
<1>2. up = "serving" /\ \A y \in Actors : y # "install" => job[y].pc = "idle"
  BY <1>1, Alone, LabelsDiffer DEF Locked
<1>3. ASSUME Release("install") PROVE FALSE
  BY <1>1, <1>3, JobEnds
<1>4. ~InstallCommits
  BY <1>3 DEF InstallCommits
<1>5. ~StartRefused /\ ~Crash
  BY <1>1, Resting DEF StartRefused, Crash, Down
<1>6. ASSUME NEW x \in Actors, ChangeJournaled(x) PROVE FALSE
  BY <1>1, <1>2, <1>6 DEF ChangeJournaled, At
<1>7. ASSUME NEW x \in Actors, BeginJob(x) \/ Step(x) PROVE force' = force
  BY <1>6, <1>7 DEF BeginJob, Step, ReadBytes, Staged, Refused, RejectJournaled, RejectUnjournaled,
                    ChangeUnjournaled
<1>8. CASE Install
  BY <1>4, <1>8 DEF Install, WriteSig, WriteDoc, WriteFails
<1>9. CASE Load \/ SnapshotInForce \/ JournalInForce
  BY <1>2, <1>9 DEF Load, SnapshotInForce, JournalInForce
<1>10. ASSUME NEW d \in Docs, BeginInstall(d) PROVE force' = force
  BY <1>10 DEF BeginInstall
<1>11. ASSUME NEW r \in late, LateWrite(r) PROVE force' = force
  BY <1>11 DEF LateWrite
<1>12. CASE OperatorEdits
  BY <1>12 DEF OperatorEdits, Edit
<1> QED
  BY <1>5, <1>7, <1>8, <1>9, <1>10, <1>11, <1>12 DEF Next

(* An install holds: nobody changes the document in force between its       *)
(* durable intent and its effect, and a restart finds it or a later one     *)
(* (the mutation lock, install_signed's order of journal, files, commit).   *)
THEOREM InstallsHold == Spec => InstallHolds
<1>1. Init => BundleInv
  BY BundleInitial
<1>2. BundleInv /\ [Next]_vars => BundleInv'
  BY BundleStep
<1>3. BundleInv => InstallSticks
  BY DEF BundleInv, Types, InForce, FilesKept, InstallSticks, InstalledBy
<1>4. BundleInv' => InstallSticks'
  BY <1>3, PTL
<1>5. BundleInv /\ BundleInv' /\ [Next]_vars =>
        [InstallSticks' /\ (Installing /\ Installing' => force' = force)]_vars
  BY <1>4, InstallAlone
<1> QED
  BY <1>1, <1>2, <1>5, PTL DEF Spec, InstallHolds

-----------------------------------------------------------------------------
(* Walks: a function that is built step by step exists.                     *)

LEMMA UpTo ==
  ASSUME NEW N \in Nat, NEW S, 0 \in S, \A n \in 1 .. N : n - 1 \in S => n \in S
  PROVE  \A n \in 0 .. N : n \in S
<1> DEFINE Bad == {n \in 0 .. N : n \notin S}
<1> SUFFICES ASSUME Bad # {} PROVE FALSE
  OBVIOUS
<1>1. Bad \subseteq Nat
  OBVIOUS
<1>2. PICK n \in Bad : \A m \in Bad : <<m, n>> \notin OpToRel(<, Nat)
  BY <1>1, NatLessThanWellFounded, WFMin
<1>3. n \in 0 .. N /\ n \notin S /\ n \in Nat /\ \A m \in Bad : m \in Nat
  OBVIOUS
<1> HIDE DEF Bad
<1>7. \A m \in Bad : ~(m < n)
  BY <1>2, <1>3 DEF OpToRel
<1>4. n # 0 /\ n - 1 \in 0 .. N
  BY <1>3
<1>5. n - 1 \notin S
  BY <1>3, <1>4
<1>6. n - 1 \in Bad
  BY <1>4, <1>5 DEF Bad
<1> QED
  BY <1>3, <1>7, <1>6

Steps(N, Q) == [1 .. N -> [Q -> Q]]

Walked(f, N, Q, start, G) ==
  f \in [0 .. N -> Q] /\ f[0] = start /\ \A n \in 1 .. N : f[n] = G[n][f[n - 1]]

LEMMA Iterates ==
  ASSUME NEW N \in Nat, NEW Q, NEW start \in Q, NEW G \in Steps(N, Q)
  PROVE  \E f : Walked(f, N, Q, start, G)
<1> USE DEF Steps
<1> DEFINE Sound(k, f) == f \in [0 .. k -> Q] /\ f[0] = start /\ \A n \in 1 .. k : f[n] = G[n][f[n - 1]]
           S == {k \in 0 .. N : \E f : Sound(k, f)}
<1>1. 0 \in S
  <2> DEFINE h == [n \in 0 .. 0 |-> start]
  <2>1. h \in [0 .. 0 -> Q] /\ h[0] = start /\ \A n \in 1 .. 0 : h[n] = G[n][h[n - 1]]
    OBVIOUS
  <2> HIDE DEF h
  <2>2. Sound(0, h)
    BY <2>1
  <2> QED
    BY <2>2
<1>2. ASSUME NEW k \in 1 .. N, k - 1 \in S PROVE k \in S
  <2>1. PICK f : Sound(k - 1, f)
    BY <1>2
  <2> DEFINE g == [n \in 0 .. k |-> IF n = k THEN G[k][f[k - 1]] ELSE f[n]]
  <2>2. f[k - 1] \in Q /\ \A n \in 0 .. k - 1 : f[n] \in Q
    BY <2>1
  <2>3. G[k][f[k - 1]] \in Q
    BY <2>2
  <2>4. g \in [0 .. k -> Q]
    <3>1. \A n \in 0 .. k : n # k => n \in 0 .. k - 1
      OBVIOUS
    <3>2. \A n \in 0 .. k : (IF n = k THEN G[k][f[k - 1]] ELSE f[n]) \in Q
      BY <2>2, <2>3, <3>1
    <3> QED
      BY <3>2
  <2>5. g[0] = start
    BY <2>1
  <2>6. ASSUME NEW n \in 1 .. k PROVE g[n] = G[n][g[n - 1]]
    <3>1. g[n - 1] = f[n - 1]
      OBVIOUS
    <3>2. CASE n = k
      BY <3>1, <3>2
    <3>3. CASE n # k
      <4>1. n \in 1 .. k - 1
        BY <3>3
      <4>2. g[n] = f[n]
        BY <3>3
      <4> QED
        BY <2>1, <3>1, <4>1, <4>2
    <3> QED
      BY <3>2, <3>3
  <2> HIDE DEF g
  <2>7. Sound(k, g)
    BY <2>4, <2>5, <2>6
  <2> QED
    BY <2>7
<1> HIDE DEF S
<1>3. N \in S
  <2>1. \A n \in 0 .. N : n \in S
    BY <1>1, <1>2, UpTo
  <2> QED
    BY <2>1
<1> QED
  BY <1>3 DEF S, Walked
-----------------------------------------------------------------------------
(* Globs: what the last bytes of a pattern mean, place by place.            *)

Rests(R, pattern, text) ==
  /\ R \in [1 .. Len(pattern) + 1 -> SUBSET (1 .. Len(text) + 1)]
  /\ R[Len(pattern) + 1] = {Len(text) + 1}
  /\ \A p \in 1 .. Len(pattern) :
       R[p] = IF pattern[p] = Star THEN {t \in 1 .. Len(text) + 1 : \E s \in R[p + 1] : t <= s}
              ELSE {t \in 1 .. Len(text) : text[t] = pattern[p] /\ t + 1 \in R[p + 1]}
  /\ GlobMeans(pattern, text) = (1 \in R[1])

LEMMA RestsExist ==
  ASSUME NEW pattern \in Texts, NEW text \in Texts
  PROVE  \E R : Rests(R, pattern, text)
<1>1. PICK P \in Nat : P = Len(pattern)
  BY DEF Texts
<1>2. PICK T \in Nat : T = Len(text)
  BY DEF Texts
<1> DEFINE Q == SUBSET (1 .. T + 1)
           Of(k, S) == LET byte == pattern[P + 1 - k]
                       IN IF byte = Star THEN {t \in 1 .. T + 1 : \E s \in S : t <= s}
                          ELSE {t \in 1 .. T : text[t] = byte /\ t + 1 \in S}
           G == [k \in 1 .. P |-> [S \in Q |-> Of(k, S)]]
<1>3. \A k \in 1 .. P, S \in Q : Of(k, S) \in Q
  OBVIOUS
<1>4. G \in Steps(P, Q) /\ {T + 1} \in Q
  <2>1. {T + 1} \in Q
    OBVIOUS
  <2> HIDE DEF Of, Q
  <2> QED
    BY <1>3, <2>1 DEF Steps
<1>5. PICK f \in [0 .. P -> Q] : f[0] = {T + 1} /\ \A k \in 1 .. P : f[k] = G[k][f[k - 1]]
  <2> HIDE DEF G, Q
  <2>1. PICK g : Walked(g, P, Q, {T + 1}, G)
    BY <1>4, Iterates, Zenon
  <2> QED
    BY <2>1 DEF Walked
<1>6. ASSUME NEW k \in 1 .. P PROVE f[k] = Of(k, f[k - 1])
  <2>1. f[k - 1] \in Q
    <3>1. k - 1 \in 0 .. P
      OBVIOUS
    <3> HIDE DEF Q
    <3> QED
      BY <3>1
  <2> HIDE DEF Of, Q
  <2> QED
    BY <1>5, <2>1
<1> DEFINE Means(g) == g = [k \in 0 .. P |-> IF k = 0 THEN {T + 1} ELSE Of(k, g[k - 1])]
           u == CHOOSE g : Means(g)
<1> HIDE DEF Q, G
<1>7. Means(f)
  <2>1. f = [k \in 0 .. P |-> f[k]] /\ \A k \in 0 .. P : k # 0 => k \in 1 .. P
    OBVIOUS
  <2> HIDE DEF Of
  <2>2. \A k \in 0 .. P : f[k] = IF k = 0 THEN {T + 1} ELSE Of(k, f[k - 1])
    BY <1>5, <1>6, <2>1, Zenon
  <2> QED
    BY <2>1, <2>2, Zenon
<1>8. Means(u)
  <2> HIDE DEF Means
  <2> QED
    BY <1>7, Zenon
<1>9. GlobMeans(pattern, text) = (1 \in u[P])
  BY <1>1, <1>2, Zenon DEF GlobMeans
<1> HIDE DEF u
<1>10. u[0] = {T + 1} /\ \A k \in 1 .. P : u[k] = Of(k, u[k - 1])
  <2>1. 0 \in 0 .. P /\ \A k \in 1 .. P : k \in 0 .. P /\ k # 0
    OBVIOUS
  <2> HIDE DEF Of
  <2> QED
    BY <1>8, <2>1
<1> DEFINE A == {k \in 0 .. P : u[k] \in Q}
<1>11. \A k \in 0 .. P : u[k] \in Q
  <2> HIDE DEF Of
  <2>1. 0 \in A
    <3>1. 0 \in 0 .. P
      OBVIOUS
    <3>2. u[0] \in Q
      BY <1>4, <1>10, Zenon
    <3> QED
      BY <3>1, <3>2, Zenon
  <2>2. ASSUME NEW k \in 1 .. P, k - 1 \in A PROVE k \in A
    <3>1. k \in 0 .. P
      OBVIOUS
    <3>2. u[k] = Of(k, u[k - 1]) /\ u[k - 1] \in Q
      BY <1>10, <2>2, Zenon
    <3>3. u[k] \in Q
      BY <1>3, <3>2, Zenon
    <3> QED
      BY <3>1, <3>3, Zenon
  <2>3. \A k \in 0 .. P : k \in A
    <3> HIDE DEF A
    <3> QED
      BY <2>1, <2>2, UpTo
  <2> QED
    BY <2>3
<1> DEFINE R == [p \in 1 .. P + 1 |-> u[P + 1 - p]]
<1>12. \A p \in 1 .. P + 1 : P + 1 - p \in 0 .. P /\ R[p] = u[P + 1 - p]
  OBVIOUS
<1>13. R \in [1 .. P + 1 -> SUBSET (1 .. T + 1)]
  BY <1>11, <1>12 DEF Q
<1>14. R[P + 1] = {T + 1}
  <2>1. P + 1 \in 1 .. P + 1 /\ P + 1 - (P + 1) = 0
    OBVIOUS
  <2> HIDE DEF R
  <2> QED
    BY <1>10, <1>12, <2>1
<1>15. ASSUME NEW p \in 1 .. P
       PROVE  R[p] = IF pattern[p] = Star THEN {t \in 1 .. T + 1 : \E s \in R[p + 1] : t <= s}
                     ELSE {t \in 1 .. T : text[t] = pattern[p] /\ t + 1 \in R[p + 1]}
  <2>1. PICK k \in 1 .. P : k = P + 1 - p
    OBVIOUS
  <2>2. P + 1 - k = p /\ k - 1 = P + 1 - (p + 1) /\ p + 1 \in 1 .. P + 1 /\ p \in 1 .. P + 1
    BY <2>1
  <2>3. R[p] = u[k] /\ R[p + 1] = u[k - 1]
    <3> HIDE DEF R
    <3> QED
      BY <1>12, <2>1, <2>2
  <2>4. u[k] = Of(k, u[k - 1])
    BY <1>10, Zenon
  <2>5. pattern[P + 1 - k] = pattern[p]
    BY <2>2, Zenon
  <2> HIDE DEF R
  <2> QED
    BY <2>3, <2>4, <2>5, Zenon
<1>16. GlobMeans(pattern, text) = (1 \in R[1])
  <2>1. 1 \in 1 .. P + 1 /\ P + 1 - 1 = P
    OBVIOUS
  <2>2. R[1] = u[P]
    <3> HIDE DEF R
    <3> QED
      BY <1>12, <2>1
  <2> HIDE DEF R
  <2> QED
    BY <1>9, <2>2, Zenon
<1> HIDE DEF R
<1> QED
  BY <1>1, <1>2, <1>13, <1>14, <1>15, <1>16, Zenon DEF Rests

\* A stretch of the pattern without a star.
Plainly(pattern, p, n) == \A j \in 0 .. n - 1 : pattern[p + j] # Star

LEMMA StretchTaken ==
  ASSUME NEW pattern \in Texts, NEW text \in Texts, NEW R, Rests(R, pattern, text),
         NEW p \in 1 .. Len(pattern) + 1, NEW n \in Nat, p + n \in 1 .. Len(pattern) + 1,
         Plainly(pattern, p, n), NEW t \in R[p]
  PROVE  t + n \in R[p + n]
<1>1. PICK P \in Nat : P = Len(pattern)
  BY DEF Texts
<1>2. PICK T \in Nat : T = Len(text)
  BY DEF Texts
<1>3. \A q \in 1 .. P : pattern[q] # Star =>
        R[q] = {s \in 1 .. T : text[s] = pattern[q] /\ s + 1 \in R[q + 1]}
  BY <1>1, <1>2 DEF Rests
<1>4. t \in Nat /\ p \in Nat /\ p + n <= P + 1
  <2>1. R[p] \in SUBSET (1 .. T + 1)
    BY <1>1, <1>2 DEF Rests
  <2> QED
    BY <1>1, <2>1
<1> DEFINE S == {j \in 0 .. n : t + j \in R[p + j]}
<1>5. 0 \in S
  BY <1>4
<1>6. ASSUME NEW j \in 1 .. n, j - 1 \in S PROVE j \in S
  <2>1. PICK q \in 1 .. P : q = p + (j - 1)
    BY <1>4
  <2>2. PICK s \in Nat : s = t + (j - 1)
    BY <1>4
  <2>3. s \in R[q]
    BY <1>6, <2>1, <2>2
  <2>4. pattern[q] # Star
    <3>1. j - 1 \in 0 .. n - 1
      OBVIOUS
    <3> QED
      BY <2>1, <3>1 DEF Plainly
  <2>5. s + 1 \in R[q + 1]
    BY <1>3, <2>3, <2>4
  <2>6. s + 1 = t + j /\ q + 1 = p + j /\ j \in 0 .. n
    BY <1>4, <2>1, <2>2
  <2> QED
    BY <2>5, <2>6
<1>7. \A j \in 0 .. n : j \in S
  <2> HIDE DEF S
  <2> QED
    BY <1>5, <1>6, UpTo
<1>8. n \in 0 .. n
  OBVIOUS
<1> QED
  BY <1>7, <1>8

LEMMA StretchMatches ==
  ASSUME NEW pattern \in Texts, NEW text \in Texts, NEW R, Rests(R, pattern, text),
         NEW p \in 1 .. Len(pattern) + 1, NEW n \in Nat, p + n \in 1 .. Len(pattern) + 1,
         NEW t \in 1 .. Len(text) + 1, t + n \in R[p + n], t + n \in 1 .. Len(text) + 1,
         Plainly(pattern, p, n), \A j \in 0 .. n - 1 : pattern[p + j] = text[t + j]
  PROVE  t \in R[p]
<1>1. PICK P \in Nat : P = Len(pattern)
  BY DEF Texts
<1>2. PICK T \in Nat : T = Len(text)
  BY DEF Texts
<1>3. \A q \in 1 .. P : pattern[q] # Star =>
        R[q] = {s \in 1 .. T : text[s] = pattern[q] /\ s + 1 \in R[q + 1]}
  BY <1>1, <1>2 DEF Rests
<1>4. t \in Nat /\ p \in Nat /\ p + n <= P + 1 /\ t + n <= T + 1
  BY <1>1, <1>2
<1> DEFINE S == {j \in 0 .. n : t + (n - j) \in R[p + (n - j)]}
<1>5. 0 \in S
  BY <1>4
<1>6. ASSUME NEW j \in 1 .. n, j - 1 \in S PROVE j \in S
  <2>1. PICK i \in 0 .. n - 1 : i = n - j
    OBVIOUS
  <2>2. PICK q \in 1 .. P : q = p + i
    BY <1>4
  <2>3. PICK s \in 1 .. T : s = t + i
    BY <1>4
  <2>4. n - (j - 1) = i + 1 /\ t + (n - (j - 1)) = s + 1 /\ p + (n - (j - 1)) = q + 1
    BY <1>4, <2>1, <2>2, <2>3
  <2>5. s + 1 \in R[q + 1]
    BY <1>6, <2>4
  <2>6. pattern[q] # Star /\ text[s] = pattern[q]
    BY <2>2, <2>3 DEF Plainly
  <2>7. s \in R[q]
    BY <1>3, <2>5, <2>6
  <2>8. t + (n - j) = s /\ p + (n - j) = q /\ j \in 0 .. n
    BY <2>1, <2>2, <2>3
  <2> QED
    BY <2>7, <2>8
<1>7. \A j \in 0 .. n : j \in S
  <2> HIDE DEF S
  <2> QED
    BY <1>5, <1>6, UpTo
<1>8. n \in 0 .. n /\ t + (n - n) = t /\ p + (n - n) = p
  BY <1>4
<1> QED
  BY <1>7, <1>8

-----------------------------------------------------------------------------
(* The walk.                                                                *)

WalkStates == [p : Nat, t : Nat, star : Nat, run : Nat, failed : BOOLEAN]

LEMMA GlobStepIs ==
  ASSUME NEW pattern, NEW text, NEW w \in WalkStates, NEW v, v = GlobStep(pattern, text, w)
  PROVE  /\ v \in WalkStates
         /\ AtByte(pattern, w.p, Star) =>
              v.p = w.p + 1 /\ v.t = w.t /\ v.star = w.p /\ v.run = w.t /\ v.failed = w.failed
         /\ ~AtByte(pattern, w.p, Star) /\ AtByte(pattern, w.p, text[w.t]) =>
              v.p = w.p + 1 /\ v.t = w.t + 1 /\ v.star = w.star /\ v.run = w.run /\ v.failed = w.failed
         /\ ~AtByte(pattern, w.p, Star) /\ ~AtByte(pattern, w.p, text[w.t]) /\ w.star # 0 =>
              v.p = w.star + 1 /\ v.t = w.run + 1 /\ v.star = w.star /\ v.run = w.run + 1 /\ v.failed = w.failed
         /\ ~AtByte(pattern, w.p, Star) /\ ~AtByte(pattern, w.p, text[w.t]) /\ w.star = 0 =>
              v.p = w.p /\ v.t = w.t /\ v.star = w.star /\ v.run = w.run /\ v.failed
<1>1. CASE AtByte(pattern, w.p, Star)
  <2>1. v = [w EXCEPT !.star = w.p, !.run = w.t, !.p = @ + 1]
    BY <1>1, Zenon DEF GlobStep
  <2>2. v = [p |-> w.p + 1, t |-> w.t, star |-> w.p, run |-> w.t, failed |-> w.failed]
    BY <2>1 DEF WalkStates
  <2>3. v \in WalkStates
    BY <2>2 DEF WalkStates
  <2>4. v.p = w.p + 1 /\ v.t = w.t /\ v.star = w.p /\ v.run = w.t /\ v.failed = w.failed
    BY <2>2
  <2> QED
    BY <1>1, <2>3, <2>4, Zenon
<1>2. CASE ~AtByte(pattern, w.p, Star) /\ AtByte(pattern, w.p, text[w.t])
  <2>1. v = [w EXCEPT !.p = @ + 1, !.t = @ + 1]
    BY <1>2, Zenon DEF GlobStep
  <2>2. v = [p |-> w.p + 1, t |-> w.t + 1, star |-> w.star, run |-> w.run, failed |-> w.failed]
    BY <2>1 DEF WalkStates
  <2>3. v \in WalkStates
    BY <2>2 DEF WalkStates
  <2>4. v.p = w.p + 1 /\ v.t = w.t + 1 /\ v.star = w.star /\ v.run = w.run /\ v.failed = w.failed
    BY <2>2
  <2> QED
    BY <1>2, <2>3, <2>4, Zenon
<1>3. CASE ~AtByte(pattern, w.p, Star) /\ ~AtByte(pattern, w.p, text[w.t]) /\ w.star # 0
  <2>1. v = [w EXCEPT !.p = w.star + 1, !.t = w.run + 1, !.run = @ + 1]
    BY <1>3, Zenon DEF GlobStep
  <2>2. v = [p |-> w.star + 1, t |-> w.run + 1, star |-> w.star, run |-> w.run + 1, failed |-> w.failed]
    BY <2>1 DEF WalkStates
  <2>3. v \in WalkStates
    BY <2>2 DEF WalkStates
  <2>4. v.p = w.star + 1 /\ v.t = w.run + 1 /\ v.star = w.star /\ v.run = w.run + 1 /\ v.failed = w.failed
    BY <2>2
  <2> QED
    BY <1>3, <2>3, <2>4, Zenon
<1>4. CASE ~AtByte(pattern, w.p, Star) /\ ~AtByte(pattern, w.p, text[w.t]) /\ w.star = 0
  <2>1. v = [w EXCEPT !.failed = TRUE]
    BY <1>4, Zenon DEF GlobStep
  <2>2. v = [p |-> w.p, t |-> w.t, star |-> w.star, run |-> w.run, failed |-> TRUE]
    BY <2>1 DEF WalkStates
  <2>3. v \in WalkStates
    BY <2>2 DEF WalkStates
  <2>4. v.p = w.p /\ v.t = w.t /\ v.star = w.star /\ v.run = w.run /\ v.failed
    BY <2>2
  <2> QED
    BY <1>4, <2>3, <2>4, Zenon
<1> QED
  BY <1>1, <1>2, <1>3, <1>4, Zenon

\* What the star at hand has left behind: from its run to the text's place,
\* the pattern's bytes are the text's.
Held(pattern, text, p, t, star, run) ==
  /\ star \in 1 .. Len(pattern) /\ pattern[star] = Star /\ run \in 1 .. Len(text) + 1 /\ run <= t
  /\ p = star + 1 + (t - run)
  /\ Plainly(pattern, star + 1, t - run)
  /\ \A j \in 0 .. (t - run) - 1 : pattern[star + 1 + j] = text[run + j]

LEMMA HeldMatches ==
  ASSUME NEW pattern \in Texts, NEW text \in Texts, NEW R, Rests(R, pattern, text),
         NEW p \in 1 .. Len(pattern) + 1, NEW t \in 1 .. Len(text) + 1, NEW star \in Nat, NEW run \in Nat,
         Held(pattern, text, p, t, star, run)
  PROVE  /\ run \in R[star + 1] <=> t \in R[p]
         /\ \A s \in R[star + 1] : s + (t - run) \in R[p]
         /\ run \in R[star] <=> \E s \in R[star + 1] : run <= s
<1>1. PICK P \in Nat : P = Len(pattern)
  BY DEF Texts
<1>2. PICK T \in Nat : T = Len(text)
  BY DEF Texts
<1>3. PICK n \in Nat : n = t - run
  BY <1>2 DEF Held
<1>4. /\ star + 1 \in 1 .. P + 1 /\ star + 1 + n = p /\ run + n = t /\ run \in 1 .. T + 1
      /\ Plainly(pattern, star + 1, n) /\ \A j \in 0 .. n - 1 : pattern[star + 1 + j] = text[run + j]
  BY <1>1, <1>2, <1>3 DEF Held
<1>5. \A s \in R[star + 1] : s + n \in R[p]
  <2>1. star + 1 + n \in 1 .. Len(pattern) + 1 /\ star + 1 \in 1 .. Len(pattern) + 1
    BY <1>1, <1>4
  <2>2. \A s \in R[star + 1] : s + n \in R[star + 1 + n]
    BY <1>4, <2>1, StretchTaken
  <2> QED
    BY <1>4, <2>2
<1>6. t \in R[p] => run \in R[star + 1]
  <2>1. star + 1 + n \in 1 .. Len(pattern) + 1 /\ star + 1 \in 1 .. Len(pattern) + 1
    BY <1>1, <1>4
  <2>2. run + n \in 1 .. Len(text) + 1 /\ run \in 1 .. Len(text) + 1
    BY <1>2, <1>4
  <2>3. t \in R[p] => run + n \in R[star + 1 + n]
    BY <1>4
  <2> QED
    BY <1>4, <2>1, <2>2, <2>3, StretchMatches
<1>7. run \in R[star + 1] => t \in R[p]
  BY <1>4, <1>5
<1>8. R[star] = {s \in 1 .. T + 1 : \E u \in R[star + 1] : s <= u}
  BY <1>2 DEF Rests, Held
<1> QED
  BY <1>3, <1>4, <1>5, <1>6, <1>7, <1>8

\* A second star: what the first one left behind no longer matters.
LEMMA AtStar ==
  ASSUME NEW pattern \in Texts, NEW text \in Texts, NEW R, Rests(R, pattern, text),
         NEW p \in 1 .. Len(pattern), NEW t \in 1 .. Len(text), NEW star \in Nat, NEW run \in Nat,
         Held(pattern, text, p, t, star, run), pattern[p] = Star
  PROVE  run \in R[star] <=> t \in R[p]
<1>1. PICK P \in Nat : P = Len(pattern)
  BY DEF Texts
<1>2. PICK T \in Nat : T = Len(text)
  BY DEF Texts
<1>3. p \in 1 .. Len(pattern) + 1 /\ t \in 1 .. Len(text) + 1 /\ star + 1 \in 1 .. Len(pattern) + 1
  BY <1>1, <1>2 DEF Held
<1>4. /\ run \in R[star + 1] <=> t \in R[p]
      /\ \A s \in R[star + 1] : s + (t - run) \in R[p]
      /\ run \in R[star] <=> \E s \in R[star + 1] : run <= s
  BY <1>3, HeldMatches
<1>5. R[p] = {s \in 1 .. T + 1 : \E u \in R[p + 1] : s <= u} /\ R[p + 1] \in SUBSET (1 .. T + 1)
  <2>1. p + 1 \in 1 .. Len(pattern) + 1
    BY <1>1
  <2> QED
    BY <1>2, <2>1 DEF Rests
<1>6. ASSUME run \in R[star] PROVE t \in R[p]
  <2>1. PICK s \in R[star + 1] : run <= s
    BY <1>4, <1>6
  <2>2. s \in Nat /\ s + (t - run) \in R[p] /\ run <= t
    <3>1. R[star + 1] \in SUBSET (1 .. T + 1)
      BY <1>2, <1>3 DEF Rests
    <3> QED
      BY <1>4, <2>1, <3>1 DEF Held
  <2>3. PICK u \in R[p + 1] : s + (t - run) <= u
    BY <1>5, <2>2
  <2>4. t <= u /\ t \in 1 .. T + 1
    BY <1>2, <1>5, <2>1, <2>2, <2>3
  <2> QED
    BY <1>5, <2>3, <2>4
<1>7. ASSUME t \in R[p] PROVE run \in R[star]
  BY <1>4, <1>7
<1> QED
  BY <1>6, <1>7

\* A dead end: the text's place is none the pattern's rest can start from.
LEMMA DeadEnd ==
  ASSUME NEW pattern \in Texts, NEW text \in Texts, NEW R, Rests(R, pattern, text),
         NEW p \in 1 .. Len(pattern) + 1, NEW t \in 1 .. Len(text),
         ~AtByte(pattern, p, Star), ~AtByte(pattern, p, text[t])
  PROVE  t \notin R[p]
<1>1. PICK P \in Nat : P = Len(pattern)
  BY DEF Texts
<1>2. PICK T \in Nat : T = Len(text)
  BY DEF Texts
<1>3. CASE p = P + 1
  <2>1. R[p] = {T + 1}
    BY <1>1, <1>2, <1>3 DEF Rests
  <2> QED
    BY <1>2, <2>1
<1>4. CASE p \in 1 .. P
  <2>1. pattern[p] # Star /\ text[t] # pattern[p]
    BY <1>1, <1>4 DEF AtByte
  <2> QED
    BY <1>1, <1>4, <2>1 DEF Rests
<1> QED
  BY <1>1, <1>3, <1>4

\* The run is lengthened by the byte that cannot start the rest.
LEMMA RunGrows ==
  ASSUME NEW pattern \in Texts, NEW text \in Texts, NEW R, Rests(R, pattern, text),
         NEW p \in 1 .. Len(pattern) + 1, NEW t \in 1 .. Len(text), NEW star \in Nat, NEW run \in Nat,
         Held(pattern, text, p, t, star, run), t \notin R[p]
  PROVE  run \in R[star] <=> run + 1 \in R[star]
<1>1. PICK T \in Nat : T = Len(text)
  BY DEF Texts
<1>2. PICK P \in Nat : P = Len(pattern)
  BY DEF Texts
<1>3. t \in 1 .. Len(text) + 1 /\ star \in 1 .. P /\ run \in 1 .. T + 1 /\ run + 1 \in 1 .. T + 1
  BY <1>1, <1>2 DEF Held
<1>4. run \notin R[star + 1]
  BY <1>3, HeldMatches
<1>5. R[star] = {s \in 1 .. T + 1 : \E u \in R[star + 1] : s <= u}
  BY <1>1 DEF Rests, Held
<1>6. R[star + 1] \in SUBSET (1 .. T + 1)
  <2>1. star + 1 \in 1 .. Len(pattern) + 1
    BY <1>2, <1>3
  <2> QED
    BY <1>1, <2>1 DEF Rests
<1> QED
  BY <1>3, <1>4, <1>5, <1>6

GlobInv(w, R, pattern, text) ==
  /\ w \in WalkStates /\ w.p \in 1 .. Len(pattern) + 1 /\ w.t \in 1 .. Len(text) + 1 /\ w.run <= w.t
  /\ w.star = 0 => w.run = 0 /\ (1 \in R[1] <=> w.t \in R[w.p])
  /\ w.star # 0 => Held(pattern, text, w.p, w.t, w.star, w.run) /\ (1 \in R[1] <=> w.run \in R[w.star])
  /\ w.failed => 1 \notin R[1]

Moved(w, pattern) == w.run * (Len(pattern) + 2) + w.p

LEMMA GlobKeeps ==
  ASSUME NEW pattern \in Texts, NEW text \in Texts, NEW R, Rests(R, pattern, text),
         NEW w, GlobInv(w, R, pattern, text), ~w.failed, w.t <= Len(text),
         NEW v, v = GlobStep(pattern, text, w)
  PROVE  GlobInv(v, R, pattern, text) /\ (v.failed \/ Moved(w, pattern) < Moved(v, pattern))
<1>1. PICK P \in Nat : P = Len(pattern)
  BY DEF Texts
<1>2. PICK T \in Nat : T = Len(text)
  BY DEF Texts
<1>3. PICK p \in 1 .. P + 1, t \in 1 .. T, star \in Nat, run \in Nat :
        p = w.p /\ t = w.t /\ star = w.star /\ run = w.run
  BY <1>1, <1>2 DEF GlobInv, WalkStates
<1>4. /\ run <= t /\ w \in WalkStates
      /\ star = 0 => run = 0 /\ (1 \in R[1] <=> t \in R[p])
      /\ star # 0 => Held(pattern, text, p, t, star, run) /\ (1 \in R[1] <=> run \in R[star])
  BY <1>3 DEF GlobInv
<1>5. /\ p \in 1 .. Len(pattern) + 1 /\ t \in 1 .. Len(text) /\ t \in 1 .. Len(text) + 1
      /\ v \in WalkStates
  BY <1>1, <1>2, <1>3, <1>4, GlobStepIs
<1>6. Moved(w, pattern) = run * (P + 2) + p /\ Moved(v, pattern) = v.run * (P + 2) + v.p
  BY <1>1, <1>3 DEF Moved
<1>7. CASE AtByte(pattern, p, Star)
  <2>1. v.p = p + 1 /\ v.t = t /\ v.star = p /\ v.run = t /\ v.failed = w.failed
    BY <1>3, <1>4, <1>7, GlobStepIs
  <2>2. p \in 1 .. Len(pattern) /\ pattern[p] = Star /\ p # 0 /\ p \in 1 .. P
    BY <1>1, <1>7 DEF AtByte
  <2>3. 1 \in R[1] <=> t \in R[p]
    <3>1. CASE star = 0
      BY <1>4, <3>1
    <3>2. CASE star # 0
      <4>1. Held(pattern, text, p, t, star, run)
        BY <1>4, <3>2
      <4>2. run \in R[star] <=> t \in R[p]
        BY <1>5, <2>2, <4>1, AtStar
      <4> QED
        BY <1>4, <3>2, <4>2
    <3> QED
      BY <3>1, <3>2
  <2>4. Held(pattern, text, p + 1, t, p, t)
    BY <1>1, <1>2, <1>5, <2>2 DEF Held, Plainly
  <2>5. v.p \in 1 .. Len(pattern) + 1 /\ v.t \in 1 .. Len(text) + 1 /\ v.run <= v.t /\ v.star # 0 /\ ~v.failed
    BY <1>1, <1>5, <2>1, <2>2
  <2>6. GlobInv(v, R, pattern, text)
    BY <1>5, <2>1, <2>3, <2>4, <2>5 DEF GlobInv
  <2>7. run * (P + 2) <= t * (P + 2)
    BY <1>4
  <2>8. Moved(w, pattern) < Moved(v, pattern)
    <3>1. PICK a \in Nat : a = run * (P + 2)
      OBVIOUS
    <3>2. PICK b \in Nat : b = t * (P + 2)
      OBVIOUS
    <3>3. a + p < b + (p + 1)
      BY <2>7, <3>1, <3>2
    <3>4. Moved(v, pattern) = b + (p + 1)
      BY <1>6, <2>1, <3>2
    <3> QED
      BY <1>6, <3>1, <3>3, <3>4
  <2> QED
    BY <2>6, <2>8
<1>8. CASE ~AtByte(pattern, p, Star) /\ AtByte(pattern, p, text[t])
  <2>1. v.p = p + 1 /\ v.t = t + 1 /\ v.star = star /\ v.run = run /\ v.failed = w.failed
    BY <1>3, <1>4, <1>8, GlobStepIs
  <2>2. p \in 1 .. P /\ pattern[p] = text[t] /\ pattern[p] # Star
    BY <1>1, <1>8 DEF AtByte
  <2>3. t \in R[p] <=> t + 1 \in R[p + 1]
    BY <1>1, <1>5, <2>2 DEF Rests
  <2>4. v.p \in 1 .. Len(pattern) + 1 /\ v.t \in 1 .. Len(text) + 1 /\ v.run <= v.t /\ ~v.failed
    BY <1>1, <1>2, <1>4, <2>1, <2>2
  <2>5. star # 0 => Held(pattern, text, p + 1, t + 1, star, run)
    <3> SUFFICES ASSUME star # 0 PROVE Held(pattern, text, p + 1, t + 1, star, run)
      OBVIOUS
    <3>1. Held(pattern, text, p, t, star, run)
      BY <1>4
    <3>2. PICK n \in Nat : n = t - run
      BY <1>4
    <3>3. (t + 1) - run = n + 1 /\ p = star + 1 + n /\ t = run + n
      BY <1>4, <3>1, <3>2 DEF Held
    <3>4. ASSUME NEW j \in 0 .. (n + 1) - 1
          PROVE  pattern[star + 1 + j] # Star /\ pattern[star + 1 + j] = text[run + j]
      <4>1. CASE j = n
        <5>1. star + 1 + j = p /\ run + j = t
          BY <3>3, <4>1
        <5> QED
          BY <2>2, <5>1
      <4>2. CASE j # n
        <5>1. j \in 0 .. n - 1
          BY <4>2
        <5> QED
          BY <3>1, <3>2, <5>1 DEF Held, Plainly
      <4> QED
        BY <4>1, <4>2
    <3>5. p + 1 = star + 1 + (n + 1) /\ run <= t + 1
      <4>1. p \in Nat /\ t \in Nat
        BY <1>3
      <4>2. p + 1 = (star + 1 + n) + 1
        BY <3>3, Zenon
      <4>3. (star + 1 + n) + 1 = star + 1 + (n + 1)
        BY <3>2
      <4>4. run <= t + 1
        BY <1>4, <4>1
      <4> QED
        BY <4>2, <4>3, <4>4, Zenon
    <3> QED
      BY <3>1, <3>3, <3>4, <3>5 DEF Held, Plainly
  <2>6. GlobInv(v, R, pattern, text)
    BY <1>4, <1>5, <2>1, <2>3, <2>4, <2>5 DEF GlobInv
  <2>7. Moved(w, pattern) < Moved(v, pattern)
    <3>1. PICK a \in Nat : a = run * (P + 2)
      OBVIOUS
    <3> QED
      BY <1>6, <2>1, <3>1
  <2> QED
    BY <2>6, <2>7
<1>9. CASE ~AtByte(pattern, p, Star) /\ ~AtByte(pattern, p, text[t]) /\ star # 0
  <2>1. v.p = star + 1 /\ v.t = run + 1 /\ v.star = star /\ v.run = run + 1 /\ v.failed = w.failed
    BY <1>3, <1>4, <1>9, GlobStepIs
  <2>2. Held(pattern, text, p, t, star, run)
    BY <1>4, <1>9
  <2>3. t \notin R[p]
    BY <1>5, <1>9, DeadEnd
  <2>4. run \in R[star] <=> run + 1 \in R[star]
    BY <1>5, <2>2, <2>3, RunGrows
  <2>5. star \in 1 .. P /\ pattern[star] = Star /\ run + 1 \in 1 .. T + 1
    BY <1>1, <1>2, <1>4, <2>2 DEF Held
  <2>6. Held(pattern, text, star + 1, run + 1, star, run + 1)
    BY <1>1, <1>2, <2>5 DEF Held, Plainly
  <2>7. v.p \in 1 .. Len(pattern) + 1 /\ v.t \in 1 .. Len(text) + 1 /\ v.run <= v.t /\ v.star # 0 /\ ~v.failed
    BY <1>1, <1>2, <2>1, <2>5
  <2>8. GlobInv(v, R, pattern, text)
    BY <1>4, <1>5, <1>9, <2>1, <2>4, <2>6, <2>7 DEF GlobInv
  <2>9. Moved(w, pattern) < Moved(v, pattern)
    <3>1. PICK a \in Nat : a = run * (P + 2)
      OBVIOUS
    <3>2. (run + 1) * (P + 2) = a + (P + 2)
      BY <3>1
    <3>3. a + p < (a + (P + 2)) + (star + 1)
      BY <2>5, <3>1
    <3>4. Moved(v, pattern) = (a + (P + 2)) + (star + 1)
      BY <1>6, <2>1, <3>2
    <3> QED
      BY <1>6, <3>1, <3>3, <3>4
  <2> QED
    BY <2>8, <2>9
<1>10. CASE ~AtByte(pattern, p, Star) /\ ~AtByte(pattern, p, text[t]) /\ star = 0
  <2>1. v.p = p /\ v.t = t /\ v.star = star /\ v.run = run /\ v.failed
    <3>1. /\ ~AtByte(pattern, w.p, Star) /\ ~AtByte(pattern, w.p, text[w.t]) /\ w.star = 0
      BY <1>3, <1>10, Zenon
    <3>2. v.p = w.p /\ v.t = w.t /\ v.star = w.star /\ v.run = w.run /\ v.failed = TRUE
      BY <1>4, <3>1, GlobStepIs
    <3> QED
      BY <1>3, <3>2, Zenon
  <2>2. t \notin R[p]
    BY <1>5, <1>10, DeadEnd
  <2>3. 1 \notin R[1] /\ run = 0
    BY <1>4, <1>10, <2>2
  <2> QED
    BY <1>4, <1>5, <1>10, <2>1, <2>2, <2>3 DEF GlobInv
<1> QED
  BY <1>7, <1>8, <1>9, <1>10

OneStep(pattern, text, w) ==
  IF w.failed \/ w.t > Len(text) THEN w ELSE GlobStep(pattern, text, w)

Ended(w, pattern, text) ==
  ~w.failed /\ w.t > Len(text) /\ \A i \in w.p .. Len(pattern) : pattern[i] = Star

LEMMA WalkExists ==
  ASSUME NEW pattern \in Texts, NEW text \in Texts,
         NEW bound \in Nat, bound = (Len(pattern) + 2) * (Len(text) + 2)
  PROVE  \E u : /\ u[0] = Walk
                /\ \A n \in 1 .. bound : u[n] = OneStep(pattern, text, u[n - 1])
                /\ GlobMatches(pattern, text) = Ended(u[bound], pattern, text)
<1> DEFINE Q == WalkStates
           Of(w) == OneStep(pattern, text, w)
           G == [n \in 1 .. bound |-> [w \in Q |-> Of(w)]]
<1>1. \A w \in Q : Of(w) \in Q
  <2> TAKE w \in Q
  <2>1. GlobStep(pattern, text, w) \in WalkStates
    BY GlobStepIs
  <2> QED
    BY <2>1, Zenon DEF OneStep
<1>2. Walk \in Q
  BY DEF Walk, WalkStates
<1>3. G \in Steps(bound, Q)
  <2> HIDE DEF Of, Q
  <2> QED
    BY <1>1 DEF Steps
<1>4. PICK f \in [0 .. bound -> Q] : f[0] = Walk /\ \A n \in 1 .. bound : f[n] = G[n][f[n - 1]]
  <2> HIDE DEF G, Q
  <2>1. PICK g : Walked(g, bound, Q, Walk, G)
    BY <1>2, <1>3, Iterates, Zenon
  <2> QED
    BY <2>1 DEF Walked
<1>5. ASSUME NEW n \in 1 .. bound PROVE f[n] = Of(f[n - 1])
  <2>1. n - 1 \in 0 .. bound
    OBVIOUS
  <2> HIDE DEF Of, Q
  <2>2. f[n - 1] \in Q
    BY <2>1
  <2> QED
    BY <1>4, <2>2
<1> HIDE DEF Q, G
<1> DEFINE Means(g) == g = [n \in 0 .. bound |-> IF n = 0 THEN Walk ELSE Of(g[n - 1])]
           u == CHOOSE g : Means(g)
<1>6. Means(f)
  <2>1. f = [n \in 0 .. bound |-> f[n]] /\ \A n \in 0 .. bound : n # 0 => n \in 1 .. bound
    OBVIOUS
  <2> HIDE DEF Of
  <2>2. \A n \in 0 .. bound : f[n] = IF n = 0 THEN Walk ELSE Of(f[n - 1])
    BY <1>4, <1>5, <2>1, Zenon
  <2> QED
    BY <2>1, <2>2, Zenon
<1>7. Means(u)
  <2> HIDE DEF Means
  <2> QED
    BY <1>6, Zenon
<1>8. GlobMatches(pattern, text) = Ended(u[bound], pattern, text)
  BY Zenon DEF GlobMatches, Ended, OneStep
<1> HIDE DEF u
<1>9. u[0] = Walk /\ \A n \in 1 .. bound : u[n] = Of(u[n - 1])
  <2>1. 0 \in 0 .. bound /\ \A n \in 1 .. bound : n \in 0 .. bound /\ n # 0
    OBVIOUS
  <2> HIDE DEF Of
  <2> QED
    BY <1>7, <2>1
<1> QED
  BY <1>8, <1>9, Zenon

LEMMA TailStars ==
  ASSUME NEW pattern \in Texts, NEW text \in Texts, NEW R, Rests(R, pattern, text),
         NEW p \in 1 .. Len(pattern) + 1
  PROVE  Len(text) + 1 \in R[p] <=> \A i \in p .. Len(pattern) : pattern[i] = Star
<1>1. PICK P \in Nat : P = Len(pattern)
  BY DEF Texts
<1>2. PICK T \in Nat : T = Len(text)
  BY DEF Texts
<1> DEFINE OnlyStars(q) == \A i \in q .. P : pattern[i] = Star
           S == {k \in 0 .. P : T + 1 \in R[P + 1 - k] <=> OnlyStars(P + 1 - k)}
<1>3. 0 \in S
  <2>1. T + 1 \in R[P + 1] /\ OnlyStars(P + 1)
    BY <1>1, <1>2 DEF Rests
  <2>2. P + 1 - 0 = P + 1 /\ 0 \in 0 .. P
    OBVIOUS
  <2> QED
    BY <2>1, <2>2
<1>4. ASSUME NEW k \in 1 .. P, k - 1 \in S PROVE k \in S
  <2>1. PICK q \in 1 .. P : q = P + 1 - k
    OBVIOUS
  <2>2. P + 1 - (k - 1) = q + 1 /\ k \in 0 .. P
    BY <2>1
  <2>3. T + 1 \in R[q + 1] <=> OnlyStars(q + 1)
    BY <1>4, <2>2
  <2>4. OnlyStars(q) <=> pattern[q] = Star /\ OnlyStars(q + 1)
    <3>1. q \in q .. P /\ \A i \in q .. P : i = q \/ i \in q + 1 .. P
      OBVIOUS
    <3>2. \A i \in q + 1 .. P : i \in q .. P
      OBVIOUS
    <3> QED
      BY <3>1, <3>2, Zenon
  <2>5. T + 1 \in R[q] <=> pattern[q] = Star /\ T + 1 \in R[q + 1]
    <3>1. R[q] = IF pattern[q] = Star THEN {t \in 1 .. T + 1 : \E s \in R[q + 1] : t <= s}
                 ELSE {t \in 1 .. T : text[t] = pattern[q] /\ t + 1 \in R[q + 1]}
      BY <1>1, <1>2 DEF Rests
    <3>2. R[q + 1] \in SUBSET (1 .. T + 1)
      <4>1. q + 1 \in 1 .. Len(pattern) + 1
        BY <1>1
      <4> QED
        BY <1>2, <4>1 DEF Rests
    <3>3. CASE pattern[q] = Star
      BY <3>1, <3>2, <3>3
    <3>4. CASE pattern[q] # Star
      BY <3>1, <3>4
    <3> QED
      BY <3>3, <3>4
  <2>6. T + 1 \in R[q] <=> OnlyStars(q)
    <3> HIDE DEF OnlyStars
    <3> QED
      BY <2>3, <2>4, <2>5
  <2> HIDE DEF OnlyStars
  <2> QED
    BY <2>1, <2>2, <2>6
<1>5. \A k \in 0 .. P : k \in S
  <2> HIDE DEF S
  <2> QED
    BY <1>3, <1>4, UpTo
<1>6. PICK k \in 0 .. P : k = P + 1 - p
  BY <1>1
<1>7. P + 1 - k = p
  BY <1>1, <1>6
<1> QED
  BY <1>1, <1>2, <1>5, <1>7

LEMMA EndDecides ==
  ASSUME NEW pattern \in Texts, NEW text \in Texts, NEW R, Rests(R, pattern, text),
         NEW w, GlobInv(w, R, pattern, text), w.failed \/ w.t > Len(text)
  PROVE  Ended(w, pattern, text) <=> 1 \in R[1]
<1>1. PICK P \in Nat : P = Len(pattern)
  BY DEF Texts
<1>2. PICK T \in Nat : T = Len(text)
  BY DEF Texts
<1>3. CASE w.failed
  BY <1>3 DEF GlobInv, Ended
<1>4. CASE ~w.failed
  <2>1. PICK p \in 1 .. Len(pattern) + 1, t \in 1 .. Len(text) + 1, star \in Nat, run \in Nat :
          p = w.p /\ t = w.t /\ star = w.star /\ run = w.run
    BY DEF GlobInv, WalkStates
  <2>2. t = T + 1 /\ w.t > Len(text)
    BY <1>2, <1>4, <2>1
  <2>3. Ended(w, pattern, text) <=> t \in R[p]
    <3>1. t \in R[p] <=> \A i \in p .. Len(pattern) : pattern[i] = Star
      BY <1>2, <2>2, TailStars
    <3> QED
      BY <1>4, <2>1, <2>2, <3>1, Zenon DEF Ended
  <2>4. CASE star = 0
    BY <2>1, <2>3, <2>4 DEF GlobInv
  <2>5. CASE star # 0
    <3>1. Held(pattern, text, p, t, star, run) /\ (1 \in R[1] <=> run \in R[star])
      BY <2>1, <2>5 DEF GlobInv
    <3>2. /\ run \in R[star + 1] <=> t \in R[p]
          /\ \A s \in R[star + 1] : s + (t - run) \in R[p]
          /\ run \in R[star] <=> \E s \in R[star + 1] : run <= s
      BY <3>1, HeldMatches
    <3>3. R[p] \in SUBSET (1 .. T + 1) /\ R[star + 1] \in SUBSET (1 .. T + 1)
      <4>1. star + 1 \in 1 .. Len(pattern) + 1
        BY <1>1, <3>1 DEF Held
      <4> QED
        BY <1>2, <4>1 DEF Rests
    <3>4. ASSUME NEW s \in R[star + 1], run <= s PROVE s = run
      <4>1. s \in Nat /\ s + (t - run) \in 1 .. T + 1
        BY <3>2, <3>3
      <4> QED
        BY <2>2, <3>4, <4>1
    <3>5. run \in R[star] <=> run \in R[star + 1]
      BY <3>2, <3>4
    <3> QED
      BY <2>3, <3>1, <3>2, <3>5
  <2> QED
    BY <2>4, <2>5
<1> QED
  BY <1>3, <1>4

LEMMA WalkStops ==
  ASSUME NEW pattern \in Texts, NEW text \in Texts, NEW R, Rests(R, pattern, text),
         NEW w, GlobInv(w, R, pattern, text), ~w.failed, ~(w.t > Len(text)),
         NEW bound \in Nat, bound = (Len(pattern) + 2) * (Len(text) + 2), bound < Moved(w, pattern)
  PROVE  FALSE
<1>1. PICK P \in Nat : P = Len(pattern)
  BY DEF Texts
<1>2. PICK T \in Nat : T = Len(text)
  BY DEF Texts
<1>3. PICK p \in 1 .. P + 1, t \in 1 .. T + 1, run \in Nat : p = w.p /\ t = w.t /\ run = w.run
  BY <1>1, <1>2 DEF GlobInv, WalkStates
<1>4. run <= T
  BY <1>2, <1>3 DEF GlobInv
<1>5. PICK a \in Nat : a = run * (P + 2)
  OBVIOUS
<1>6. PICK b \in Nat : b = T * (P + 2)
  OBVIOUS
<1>7. a <= b
  BY <1>4, <1>5, <1>6
<1>8. (P + 2) * (T + 2) = b + 2 * (P + 2)
  BY <1>6
<1>9. Moved(w, pattern) = a + p
  BY <1>1, <1>3, <1>5 DEF Moved
<1> QED
  BY <1>1, <1>2, <1>7, <1>8, <1>9

LEMMA GlobIsExact ==
  ASSUME NEW pattern \in Texts, NEW text \in Texts
  PROVE  GlobExact(pattern, text)
<1>1. PICK P \in Nat : P = Len(pattern)
  BY DEF Texts
<1>2. PICK T \in Nat : T = Len(text)
  BY DEF Texts
<1>3. PICK bound \in Nat : bound = (Len(pattern) + 2) * (Len(text) + 2)
  BY <1>1, <1>2
<1>4. PICK u : /\ u[0] = Walk
               /\ \A n \in 1 .. bound : u[n] = OneStep(pattern, text, u[n - 1])
               /\ GlobMatches(pattern, text) = Ended(u[bound], pattern, text)
  BY <1>3, WalkExists
<1>5. PICK R : Rests(R, pattern, text)
  BY RestsExist
<1> DEFINE Sound(w) == GlobInv(w, R, pattern, text)
           Stopped(w) == w.failed \/ w.t > Len(text)
           S == {n \in 0 .. bound : Sound(u[n]) /\ (Stopped(u[n]) \/ n < Moved(u[n], pattern))}
<1>6. 0 \in S
  <2>1. /\ Walk \in WalkStates /\ Walk.p = 1 /\ Walk.t = 1 /\ Walk.star = 0 /\ Walk.run = 0
        /\ Walk.failed = FALSE
    BY DEF Walk, WalkStates
  <2>2. 1 \in 1 .. Len(pattern) + 1 /\ 1 \in 1 .. Len(text) + 1
    BY <1>1, <1>2
  <2>3. Sound(Walk)
    BY <2>1, <2>2 DEF GlobInv
  <2>4. 0 < Moved(Walk, pattern)
    BY <1>1, <2>1 DEF Moved
  <2>5. 0 \in 0 .. bound
    OBVIOUS
  <2> HIDE DEF Sound, Stopped
  <2> QED
    BY <1>4, <2>3, <2>4, <2>5
<1>7. ASSUME NEW n \in 1 .. bound, n - 1 \in S PROVE n \in S
  <2>1. PICK w : w = u[n - 1]
    OBVIOUS
  <2>2. PICK v : v = u[n]
    OBVIOUS
  <2>3. v = OneStep(pattern, text, w) /\ n \in 0 .. bound
    BY <1>4, <2>1, <2>2
  <2>4. Sound(w) /\ (Stopped(w) \/ n - 1 < Moved(w, pattern))
    <3> HIDE DEF Sound, Stopped
    <3> QED
      BY <1>7, <2>1
  <2>5. CASE Stopped(w)
    <3>1. v = w
      BY <2>3, <2>5 DEF OneStep
    <3> HIDE DEF Sound, Stopped
    <3> QED
      BY <2>2, <2>3, <2>4, <2>5, <3>1
  <2>6. CASE ~Stopped(w)
    <3>1. v = GlobStep(pattern, text, w)
      BY <2>3, <2>6, Zenon DEF OneStep
    <3>2. ~w.failed /\ w.t <= Len(text)
      <4>1. w.t \in Nat
        BY <2>4 DEF GlobInv, WalkStates
      <4> QED
        BY <1>2, <2>6, <4>1
    <3>3. Sound(v) /\ (v.failed \/ Moved(w, pattern) < Moved(v, pattern))
      BY <1>5, <2>4, <3>1, <3>2, GlobKeeps
    <3>4. PICK a \in Nat : a = Moved(w, pattern)
      BY <1>1, <2>4 DEF GlobInv, WalkStates, Moved
    <3>5. PICK b \in Nat : b = Moved(v, pattern)
      BY <1>1, <3>3 DEF GlobInv, WalkStates, Moved
    <3>6. v.failed \/ n < b
      <4>1. n - 1 < a
        BY <2>4, <2>6, <3>4
      <4>2. v.failed \/ a < b
        BY <3>3, <3>4, <3>5, Zenon
      <4>3. CASE a < b
        BY <3>4, <3>5, <4>1, <4>3
      <4> QED
        BY <4>2, <4>3, Zenon
    <3>7. Stopped(v) \/ n < Moved(v, pattern)
      BY <3>5, <3>6
    <3> HIDE DEF Sound, Stopped
    <3> QED
      BY <2>2, <2>3, <3>3, <3>7
  <2> QED
    BY <2>5, <2>6
<1>8. \A n \in 0 .. bound : n \in S
  <2> HIDE DEF S
  <2> QED
    BY <1>6, <1>7, UpTo
<1>9. PICK e : e = u[bound]
  OBVIOUS
<1>10. Sound(e) /\ (Stopped(e) \/ bound < Moved(e, pattern))
  <2>1. bound \in 0 .. bound
    OBVIOUS
  <2> HIDE DEF Sound, Stopped
  <2> QED
    BY <1>8, <1>9, <2>1
<1>11. Stopped(e)
  BY <1>3, <1>5, <1>10, WalkStops
<1>12. Ended(e, pattern, text) <=> 1 \in R[1]
  BY <1>5, <1>10, <1>11, EndDecides
<1>13. GlobMeans(pattern, text) = (1 \in R[1])
  BY <1>5 DEF Rests
<1>14. Ended(e, pattern, text) = (1 \in R[1])
  BY <1>12 DEF Ended
<1> QED
  BY <1>4, <1>9, <1>13, <1>14, Zenon DEF GlobExact

-----------------------------------------------------------------------------
(* The decision.                                                            *)

LEMMA LeastOf ==
  ASSUME NEW S, S \subseteq Nat, S # {}
  PROVE  Min(S) \in S
<1>1. PICK n \in S : \A m \in S : <<m, n>> \notin OpToRel(<, Nat)
  BY NatLessThanWellFounded, WFMin
<1>2. \A m \in S : m \in Nat /\ n \in Nat /\ ~(m < n)
  BY <1>1 DEF OpToRel
<1>3. \A m \in S : n <= m
  BY <1>2
<1> QED
  BY <1>1, <1>3, Zenon DEF Min

LEMMA NoKeyFails ==
  ASSUME NEW rule, NEW context
  PROVE  Matches(rule, context) <=> \A i \in DOMAIN KeyOrder : ~Fails(rule, context, KeyOrder[i])
<1> DEFINE failing == {i \in DOMAIN KeyOrder : Fails(rule, context, KeyOrder[i])}
<1>1. Matches(rule, context) <=> (IF failing = {} THEN "none" ELSE KeyOrder[Min(failing)]) = "none"
  BY Zenon DEF Matches, Mismatch
<1>2. CASE failing = {}
  BY <1>1, <1>2, Zenon
<1>3. CASE failing # {}
  <2>1. DOMAIN KeyOrder = 1 .. 14 /\ \A i \in 1 .. 14 : KeyOrder[i] # "none"
    BY DEF KeyOrder
  <2>2. failing \subseteq Nat
    BY <2>1
  <2>3. Min(failing) \in failing
    <3> HIDE DEF failing
    <3> QED
      BY <1>3, <2>2, LeastOf
  <2>4. KeyOrder[Min(failing)] # "none"
    <3>1. PICK k : k = Min(failing)
      OBVIOUS
    <3>2. k \in DOMAIN KeyOrder
      BY <2>3, <3>1, Zenon
    <3> QED
      BY <2>1, <3>1, <3>2, Zenon
  <2> QED
    BY <1>1, <1>3, <2>3, <2>4, Zenon
<1> QED
  BY <1>2, <1>3, Zenon

LEMMA MatchSays ==
  ASSUME NEW rule, NEW context, Matches(rule, context)
  PROVE  /\ SubjectMatches(rule.subjects, context.principal)
         /\ rule.resourceId # NotGiven => AllIdsAllowed(context.scope, rule.resourceId)
         /\ rule.constrainedBy # NotGiven =>
              /\ context.constraint # NotGiven
              /\ AllIdsAllowed(context.constraint.scope, rule.constrainedBy.ids)
<1>1. /\ 2 \in DOMAIN KeyOrder /\ KeyOrder[2] = "subjects"
      /\ 12 \in DOMAIN KeyOrder /\ KeyOrder[12] = "resource_id"
      /\ 14 \in DOMAIN KeyOrder /\ KeyOrder[14] = "constrained_by"
  BY DEF KeyOrder
<1>2. /\ ~Fails(rule, context, "subjects") /\ ~Fails(rule, context, "resource_id")
      /\ ~Fails(rule, context, "constrained_by")
  BY <1>1, NoKeyFails, Zenon
<1>3. Fails(rule, context, "subjects") = ~SubjectMatches(rule.subjects, context.principal)
  BY DEF Fails, MemberKeys, GlobKeys
<1>4. Fails(rule, context, "resource_id") =
        (rule.resourceId # NotGiven /\ ~AllIdsAllowed(context.scope, rule.resourceId))
  BY DEF Fails, MemberKeys, GlobKeys
<1>5. Fails(rule, context, "constrained_by") =
        (/\ rule.constrainedBy # NotGiven
         /\ \/ context.constraint = NotGiven
            \/ context.constraint.rtype # rule.constrainedBy.rtype
            \/ ~AllIdsAllowed(context.constraint.scope, rule.constrainedBy.ids))
  BY DEF Fails, MemberKeys, GlobKeys
<1> QED
  BY <1>2, <1>3, <1>4, <1>5, Zenon

Reach(rules, context, effect) ==
  {i \in DOMAIN rules : rules[i].effect = effect /\ Matches(rules[i], context)}

IsRules(rules) ==
  /\ Len(rules) \in Nat /\ DOMAIN rules = 1 .. Len(rules)
  /\ \A i \in DOMAIN rules : rules[i].effect \in {"allow", "deny"}

\* The rule that decides, when there is one.
LEMMA Decides ==
  ASSUME NEW rules, NEW context, IsRules(rules)
  PROVE  /\ context.resource_type = "unknown" \/ Reaching(rules, context) = {} =>
              Evaluate(rules, context) = DefaultDeny
         /\ ~(context.resource_type = "unknown" \/ Reaching(rules, context) = {}) =>
              \E k \in Reaching(rules, context) :
                /\ Evaluate(rules, context) = ByRule(rules[k])
                /\ rules[k].effect = "allow" => Reach(rules, context, "deny") = {}
<1> DEFINE hits == Reaching(rules, context)
           denies == {i \in hits : rules[i].effect = "deny"}
           chosen == IF denies # {} THEN denies ELSE hits
<1>1. Evaluate(rules, context) = IF context.resource_type = "unknown" \/ hits = {} THEN DefaultDeny
                                 ELSE ByRule(rules[Min(chosen)])
  BY Zenon DEF Evaluate
<1>2. ASSUME ~(context.resource_type = "unknown" \/ hits = {})
      PROVE  \E k \in hits : /\ Evaluate(rules, context) = ByRule(rules[k])
                             /\ rules[k].effect = "allow" => Reach(rules, context, "deny") = {}
  <2>1. chosen \subseteq hits /\ chosen # {}
    BY <1>2, Zenon
  <2>2. hits \subseteq Nat
    BY DEF Reaching, IsRules
  <2>3. Min(chosen) \in chosen
    <3>1. chosen \subseteq Nat
      BY <2>1, <2>2, Zenon
    <3> HIDE DEF chosen
    <3> QED
      BY <2>1, <3>1, LeastOf
  <2>4. PICK k : k = Min(chosen)
    OBVIOUS
  <2>5. k \in hits /\ Evaluate(rules, context) = ByRule(rules[k])
    BY <1>1, <1>2, <2>1, <2>3, <2>4, Zenon
  <2>6. ASSUME rules[k].effect = "allow" PROVE Reach(rules, context, "deny") = {}
    <3>1. "allow" # "deny"
      OBVIOUS
    <3>2. denies = {}
      BY <2>3, <2>4, <2>6, <3>1, Zenon
    <3>3. denies = Reach(rules, context, "deny")
      BY DEF Reach, Reaching
    <3> QED
      BY <3>2, <3>3, Zenon
  <2> HIDE DEF hits
  <2> QED
    BY <2>5, <2>6, Zenon
<1> QED
  BY <1>1, <1>2, Zenon

LEMMA AllowedExactly ==
  ASSUME NEW rules, NEW context, IsRules(rules)
  PROVE  /\ Evaluate(rules, context).effect = "allow" <=>
              /\ context.resource_type # "unknown"
              /\ Reach(rules, context, "allow") # {} /\ Reach(rules, context, "deny") = {}
         /\ Evaluate(rules, context).effect \in {"allow", "deny"}
<1>1. CASE context.resource_type = "unknown" \/ Reaching(rules, context) = {}
  <2>1. Evaluate(rules, context).effect = "deny"
    <3>1. Evaluate(rules, context) = DefaultDeny
      BY <1>1, Decides
    <3>2. DefaultDeny.effect = "deny"
      BY DEF DefaultDeny
    <3> QED
      BY <3>1, <3>2, Zenon
  <2>2. Reaching(rules, context) = {} => Reach(rules, context, "allow") = {}
    BY DEF Reach, Reaching
  <2> QED
    BY <1>1, <2>1, <2>2
<1>2. CASE ~(context.resource_type = "unknown" \/ Reaching(rules, context) = {})
  <2>1. PICK k \in Reaching(rules, context) :
          /\ Evaluate(rules, context) = ByRule(rules[k])
          /\ rules[k].effect = "allow" => Reach(rules, context, "deny") = {}
    BY <1>2, Decides
  <2>2. ByRule(rules[k]).effect = rules[k].effect
    BY DEF ByRule
  <2>3. k \in DOMAIN rules /\ Matches(rules[k], context) /\ rules[k].effect \in {"allow", "deny"}
    BY DEF Reaching, IsRules
  <2>4. Evaluate(rules, context).effect = rules[k].effect
    BY <2>1, <2>2, Zenon
  <2>5. CASE rules[k].effect = "allow"
    <3>1. k \in Reach(rules, context, "allow")
      BY <2>3, <2>5 DEF Reach
    <3> QED
      BY <1>2, <2>1, <2>4, <2>5, <3>1
  <2>6. CASE rules[k].effect = "deny"
    <3>1. k \in Reach(rules, context, "deny")
      BY <2>3, <2>6 DEF Reach
    <3> QED
      BY <2>4, <2>6, <3>1
  <2> QED
    BY <2>3, <2>5, <2>6
<1> QED
  BY <1>1, <1>2

LEMMA OrderIsFree ==
  ASSUME NEW rules, NEW context, IsRules(rules)
  PROVE  Evaluate(Reverse(rules), context).effect = Evaluate(rules, context).effect
<1>1. PICK n \in Nat : n = Len(rules) /\ DOMAIN rules = 1 .. n
  BY DEF IsRules
<1>2. PICK back : back = Reverse(rules)
  OBVIOUS
<1>3. back = [i \in 1 .. n |-> rules[(n - i) + 1]]
  BY <1>1, <1>2 DEF Reverse
<1>4. DOMAIN back = 1 .. n /\ Len(back) = n /\ \A i \in 1 .. n : back[i] = rules[(n - i) + 1]
  BY <1>3
<1>5. \A i \in 1 .. n : (n - i) + 1 \in 1 .. n /\ (n - ((n - i) + 1)) + 1 = i
  OBVIOUS
<1>6. IsRules(back)
  BY <1>1, <1>4, <1>5 DEF IsRules
<1>7. ASSUME NEW effect PROVE Reach(back, context, effect) = {} <=> Reach(rules, context, effect) = {}
  <2>1. ASSUME NEW i \in Reach(back, context, effect) PROVE Reach(rules, context, effect) # {}
    <3>1. i \in 1 .. n /\ back[i] = rules[(n - i) + 1] /\ (n - i) + 1 \in 1 .. n
      BY <1>4, <1>5 DEF Reach
    <3>2. (n - i) + 1 \in Reach(rules, context, effect)
      BY <1>1, <2>1, <3>1, Zenon DEF Reach
    <3> QED
      BY <3>2
  <2>2. ASSUME NEW i \in Reach(rules, context, effect) PROVE Reach(back, context, effect) # {}
    <3>1. PICK j \in 1 .. n : j = (n - i) + 1 /\ i = (n - j) + 1
      BY <1>1, <1>5 DEF Reach
    <3>2. back[j] = rules[i]
      BY <1>4, <3>1
    <3>3. j \in Reach(back, context, effect)
      BY <1>4, <2>2, <3>2, Zenon DEF Reach
    <3> QED
      BY <3>3
  <2> QED
    BY <2>1, <2>2
<1>8. Evaluate(back, context).effect = "allow" <=> Evaluate(rules, context).effect = "allow"
  BY <1>6, <1>7, AllowedExactly
<1>9. /\ Evaluate(back, context).effect \in {"allow", "deny"}
      /\ Evaluate(rules, context).effect \in {"allow", "deny"}
  BY <1>6, AllowedExactly
<1> QED
  BY <1>2, <1>8, <1>9

\* An id list the globs allow is covered by what the globs mean.
LEMMA IdsCovered ==
  ASSUME NEW scope, IsScope(scope), NEW globs \in SUBSET Texts, AllIdsAllowed(scope, globs)
  PROVE  scope.ids # {} /\ \A id \in scope.ids : \E glob \in globs : GlobMeans(glob, id)
<1>1. scope.kind = "ids" /\ \A id \in scope.ids : \E glob \in globs : GlobMatches(glob, id)
  BY Zenon DEF AllIdsAllowed, AnyGlob
<1>2. Unscoped.kind # "ids" /\ Collection.kind # "ids"
  BY DEF Unscoped, Collection
<1>3. scope.ids # {} /\ scope.ids \in SUBSET Texts
  BY <1>1, <1>2, Zenon DEF IsScope
<1>4. \A glob \in globs, id \in scope.ids : GlobMatches(glob, id) = GlobMeans(glob, id)
  BY <1>3, GlobIsExact, Zenon DEF GlobExact
<1> QED
  BY <1>1, <1>3, <1>4, Zenon

LEMMA DecisionIsExact ==
  ASSUME NEW doc, NEW context, IsDocument(doc), IsContext(context)
  PROVE  DecisionExact(doc, context)
<1> DEFINE rules == doc.rules
           d == Evaluate(rules, context)
           x == Explain(rules, context)
           reach(effect) == {i \in DOMAIN rules :
                               rules[i].effect = effect /\ Matches(rules[i], context)}
           decisive == {i \in DOMAIN rules : x.rules[i].decisive}
<1> SUFFICES ASSUME ~CompileRefused(doc)
             PROVE  DecisionExact(doc, context)
  BY Zenon DEF DecisionExact
<1>1. IsRules(rules)
  BY DEF IsDocument, IsRule, IsRules
<1>2. \A i, j \in DOMAIN rules : rules[i].id = rules[j].id => i = j
  BY DEF CompileRefused
<1>3. \A i \in DOMAIN rules : IsRule(rules[i])
  BY DEF IsDocument
<1>4. reach("allow") = Reach(rules, context, "allow") /\ reach("deny") = Reach(rules, context, "deny")
  BY DEF Reach
<1>5. d.effect = "allow" <=>
        context.resource_type # "unknown" /\ reach("allow") # {} /\ reach("deny") = {}
  <2> HIDE DEF reach, rules
  <2> QED
    BY <1>1, <1>4, AllowedExactly
<1>6. Evaluate(Reverse(rules), context).effect = d.effect
  <2> HIDE DEF rules
  <2> QED
    BY <1>1, OrderIsFree
<1>7. \A i \in DOMAIN rules :
        /\ x.rules[i].decisive = (context.resource_type # "unknown" /\ rules[i].id = d.rule)
        /\ x.rules[i].mismatch = Mismatch(rules[i], context)
  <2> HIDE DEF rules
  <2> QED
    BY DEF Explain
<1> HIDE DEF x
<1>8. CASE context.resource_type = "unknown" \/ Reaching(rules, context) = {}
  <2>1. d = DefaultDeny
    <3> HIDE DEF rules
    <3> QED
      BY <1>1, <1>8, Decides
  <2>2. DefaultDeny.effect = "deny" /\ DefaultDeny.rule = NotGiven
    BY DEF DefaultDeny
  <2>3. d.effect = "deny" /\ d.rule = NotGiven
    BY <2>1, <2>2, Zenon
  <2>4. decisive = {}
    <3>1. \A i \in DOMAIN rules : rules[i].id # NotGiven
      BY <1>3, PolicyConstants DEF IsRule
    <3> HIDE DEF rules, d
    <3> QED
      BY <1>7, <2>3, <3>1
  <2>5. Cardinality(decisive) = 0
    BY <2>4, FS_EmptySet, Zenon
  <2>6. /\ d.effect # "allow"
        /\ Cardinality(decisive) = (IF d.rule = NotGiven THEN 0 ELSE 1)
    BY <2>3, <2>5
  <2> HIDE DEF rules, d, decisive, reach
  <2>7. /\ d.effect = "allow" <=>
             context.resource_type # "unknown" /\ reach("allow") # {} /\ reach("deny") = {}
        /\ d.effect = "allow" =>
             \A i \in decisive :
               /\ rules[i].resourceId # NotGiven =>
                    /\ context.scope.ids # {}
                    /\ \A id \in context.scope.ids :
                         \E glob \in rules[i].resourceId : GlobMeans(glob, id)
               /\ rules[i].constrainedBy # NotGiven =>
                    \A id \in context.constraint.scope.ids :
                      \E glob \in rules[i].constrainedBy.ids : GlobMeans(glob, id)
        /\ Cardinality(decisive) = (IF d.rule = NotGiven THEN 0 ELSE 1)
        /\ \A i \in decisive : x.rules[i].mismatch = "none" /\ rules[i].effect = d.effect
        /\ RulesFor(rules, context.principal) = {} => d.effect = "deny"
        /\ Evaluate(Reverse(rules), context).effect = d.effect
    BY <1>5, <1>6, <2>3, <2>4, <2>6, Zenon
  <2> USE DEF rules, d, decisive, reach, x
  <2> QED
    BY <2>7, Zenon DEF DecisionExact
<1>9. CASE ~(context.resource_type = "unknown" \/ Reaching(rules, context) = {})
  <2>1. PICK k \in Reaching(rules, context) : d = ByRule(rules[k])
    <3> HIDE DEF rules
    <3> QED
      BY <1>1, <1>9, Decides
  <2>2. k \in DOMAIN rules /\ Matches(rules[k], context)
    <3> HIDE DEF rules
    <3> QED
      BY DEF Reaching
  <2>3. ByRule(rules[k]).effect = rules[k].effect /\ ByRule(rules[k]).rule = rules[k].id
    BY DEF ByRule
  <2>4. d.effect = rules[k].effect /\ d.rule = rules[k].id
    <3> HIDE DEF d
    <3> QED
      BY <2>1, <2>3, Zenon
  <2>5. d.rule # NotGiven
    <3>1. rules[k].id \in STRING
      BY <1>3, <2>2, Zenon DEF IsRule
    <3> HIDE DEF rules, d
    <3> QED
      BY <2>4, <3>1, PolicyConstants, Zenon
  <2>6. decisive = {k}
    <3> HIDE DEF rules, d
    <3> QED
      BY <1>2, <1>7, <1>9, <2>2, <2>4, Zenon
  <2>7. Cardinality(decisive) = (IF d.rule = NotGiven THEN 0 ELSE 1)
    <3>1. Cardinality(decisive) = 1
      BY <2>6, FS_Singleton, Zenon
    <3> QED
      BY <2>5, <3>1, Zenon
  <2>8. x.rules[k].mismatch = "none"
    BY <1>7, <2>2, Zenon DEF Matches
  <2>9. /\ SubjectMatches(rules[k].subjects, context.principal)
        /\ rules[k].resourceId # NotGiven => AllIdsAllowed(context.scope, rules[k].resourceId)
        /\ rules[k].constrainedBy # NotGiven =>
             /\ context.constraint # NotGiven
             /\ AllIdsAllowed(context.constraint.scope, rules[k].constrainedBy.ids)
    <3> HIDE DEF rules
    <3> QED
      BY <2>2, MatchSays
  <2>10. RulesFor(rules, context.principal) # {}
    BY <2>2, <2>9, Zenon DEF RulesFor
  <2>11. rules[k].resourceId # NotGiven =>
           /\ context.scope.ids # {}
           /\ \A id \in context.scope.ids : \E glob \in rules[k].resourceId : GlobMeans(glob, id)
    <3> SUFFICES ASSUME rules[k].resourceId # NotGiven
                 PROVE  /\ context.scope.ids # {}
                        /\ \A id \in context.scope.ids :
                             \E glob \in rules[k].resourceId : GlobMeans(glob, id)
      BY Zenon
    <3>1. rules[k].resourceId \in SUBSET Texts
      <4>1. rules[k].resourceId \in GlobSets
        BY <1>3, <2>2, Zenon DEF IsRule
      <4> HIDE DEF rules
      <4> QED
        BY <4>1, Zenon DEF GlobSets
    <3>2. IsScope(context.scope)
      BY DEF IsContext
    <3> HIDE DEF rules
    <3> QED
      BY <2>9, <3>1, <3>2, IdsCovered
  <2>12. rules[k].constrainedBy # NotGiven =>
           \A id \in context.constraint.scope.ids :
             \E glob \in rules[k].constrainedBy.ids : GlobMeans(glob, id)
    <3> SUFFICES ASSUME rules[k].constrainedBy # NotGiven
                 PROVE  \A id \in context.constraint.scope.ids :
                          \E glob \in rules[k].constrainedBy.ids : GlobMeans(glob, id)
      BY Zenon
    <3>1. rules[k].constrainedBy.ids \in SUBSET Texts
      BY <1>3, <2>2, Zenon DEF IsRule
    <3>2. IsScope(context.constraint.scope)
      BY <2>9, Zenon DEF IsContext
    <3> HIDE DEF rules
    <3> QED
      BY <2>9, <3>1, <3>2, IdsCovered
  <2> HIDE DEF rules, d, decisive, reach
  <2>13. \A i \in decisive : i = k
    BY <2>6
  <2>14. /\ d.effect = "allow" <=>
              context.resource_type # "unknown" /\ reach("allow") # {} /\ reach("deny") = {}
         /\ d.effect = "allow" =>
              \A i \in decisive :
                /\ rules[i].resourceId # NotGiven =>
                     /\ context.scope.ids # {}
                     /\ \A id \in context.scope.ids :
                          \E glob \in rules[i].resourceId : GlobMeans(glob, id)
                /\ rules[i].constrainedBy # NotGiven =>
                     \A id \in context.constraint.scope.ids :
                       \E glob \in rules[i].constrainedBy.ids : GlobMeans(glob, id)
         /\ Cardinality(decisive) = (IF d.rule = NotGiven THEN 0 ELSE 1)
         /\ \A i \in decisive : x.rules[i].mismatch = "none" /\ rules[i].effect = d.effect
         /\ RulesFor(rules, context.principal) = {} => d.effect = "deny"
         /\ Evaluate(Reverse(rules), context).effect = d.effect
    <3>1. ASSUME NEW i \in decisive
          PROVE  /\ rules[i].resourceId # NotGiven =>
                     /\ context.scope.ids # {}
                     /\ \A id \in context.scope.ids :
                          \E glob \in rules[i].resourceId : GlobMeans(glob, id)
                 /\ rules[i].constrainedBy # NotGiven =>
                     \A id \in context.constraint.scope.ids :
                       \E glob \in rules[i].constrainedBy.ids : GlobMeans(glob, id)
                 /\ x.rules[i].mismatch = "none" /\ rules[i].effect = d.effect
      <4>1. i = k
        BY <2>13, Zenon
      <4> QED
        BY <2>4, <2>8, <2>11, <2>12, <4>1, Zenon
    <3> QED
      BY <1>5, <1>6, <2>7, <2>10, <3>1, Zenon
  <2> USE DEF rules, d, decisive, reach, x
  <2> QED
    BY <2>14, Zenon DEF DecisionExact
<1> QED
  BY <1>8, <1>9, Zenon

(* What the policy decides is what its document says: Glob::matches finds   *)
(* a match exactly when the text is the pattern with a run for every star,  *)
(* for every pattern and text; and for every document that compiles and     *)
(* every context, a call is allowed exactly when it is classified, an allow *)
(* rule reaches it and no deny rule does, in whatever order the rules are,  *)
(* an id-scoped allow covers every id the call addresses, and `explain`     *)
(* names the one rule that decided (policy/engine.rs).                      *)
THEOREM PolicyIsExact == PolicySpec => []PolicyExact
<1>1. PolicyInit => PolicyExact
  <2> SUFFICES ASSUME PolicyInit PROVE PolicyExact
    OBVIOUS
  <2>1. CASE question.kind = "glob" /\ question.pattern \in Texts /\ question.text \in Texts
    <3>1. GlobExact(question.pattern, question.text)
      BY <2>1, GlobIsExact
    <3>2. question.kind # "policy"
      BY <2>1
    <3> QED
      BY <2>1, <3>1, <3>2 DEF PolicyExact
  <2>2. CASE question.kind = "policy" /\ IsDocument(question.doc) /\ IsContext(question.context)
    <3>1. DecisionExact(question.doc, question.context)
      BY <2>2, DecisionIsExact
    <3>2. question.kind # "glob"
      BY <2>2
    <3> QED
      BY <2>2, <3>1, <3>2 DEF PolicyExact
  <2> QED
    BY <2>1, <2>2 DEF PolicyInit
<1>2. PolicyExact /\ [UNCHANGED question]_question => PolicyExact'
  BY DEF PolicyExact, GlobExact, DecisionExact
<1> QED
  BY <1>1, <1>2, PTL DEF PolicySpec

=============================================================================
