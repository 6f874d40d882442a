------------------------------ MODULE JournalInv ------------------------------
(***************************************************************************)
(* The strengthening behind the journal's safety theorems: how the numbers *)
(* a writer keeps in memory stand to the lines of the file.                 *)
(***************************************************************************)
EXTENDS Journal

\* The lock is held exactly by the process that is up.
Mutex == \A p \in Procs : ~At(p, "down") => holder = p

\* A writer past recovery that has not poisoned its journal, and has not left
\* its loop, accounts for every line: the file ends where its numbers end, plus
\* what it is just writing, and nothing torn follows.
Counts(w) ==
  /\ torn = FALSE
  /\ w.pc \in {"recv", "drain", "checkpoint", "export"} => Len(file) = w.lastSeq
  /\ w.pc = "sync" =>
       /\ Len(file) = w.lastSeq + Len(w.batch)
       /\ Len(file) < SeqMax
       /\ \A i \in 1..Len(w.batch) : file[w.lastSeq + i].id = w.batch[i]
  /\ w.pc = "cpsync" => Len(file) = w.lastSeq + 1
  /\ w.pc = "checkpoint" \/ w.since > 0 => w.lastSeq < SeqMax
  /\ w.pc = "export" => w.lastCp \in 1..synced

Aligned(w) ==
  /\ w.open => w.pc \notin {"down", "locked", "unlock"} /\ ~w.sealing
  /\ w.pc \in {"sync", "checkpoint", "cpsync", "export"} => ~w.poisoned
  /\ w.pc \in {"recv", "drain", "sync", "checkpoint", "cpsync", "export"} /\ ~w.poisoned
       => Counts(w)

\* Memory and disk agree: at every step of an unpoisoned writer the number it
\* would give next is the one after the last line of the file.
WritersAligned == \A p \in Procs : Aligned(writer[p])

(* The writer knows the file: there is one, the number it would give next   *)
(* is the one after the last line however that file came about, and it has  *)
(* a number left for the checkpoint it is about to write.                   *)
WritersSound == OneWriter /\ WritersAligned /\ NumbersFit

IInv ==
  /\ TypeOK /\ Mutex /\ WritersAligned
  /\ Contiguous /\ AckedDurable /\ ExportsBacked

-----------------------------------------------------------------------------
(* The strengthening behind WrittenOnce: where a record may be.              *)

Missing(f, r) == \A l \in 1..Len(f) : f[l].id # r

\* What a writer has taken in and not answered: no record twice, none its caller has
\* not handed over, and none that is in the file already, but for a batch between its
\* write and its sync.
TakenOnce(w) ==
  /\ w.pc = "down" => w.queue = <<>> /\ w.batch = <<>>
  /\ \A i, j \in 1..Len(w.queue) : w.queue[i] \in Records /\ w.queue[i] = w.queue[j] => i = j
  /\ \A i, j \in 1..Len(w.batch) : w.batch[i] = w.batch[j] => i = j
  /\ \A i \in 1..Len(w.queue), j \in 1..Len(w.batch) : w.queue[i] # w.batch[j]
  /\ \A i \in 1..Len(w.queue) :
       w.queue[i] \in Records => req[w.queue[i]] # "idle" /\ Missing(file, w.queue[i])
  /\ \A j \in 1..Len(w.batch) :
       req[w.batch[j]] # "idle" /\ (w.pc # "sync" => Missing(file, w.batch[j]))

\* A record in the file was handed over, so nobody hands it over again.
WrittenKnown == \A l \in 1..Len(file) : file[l].id \in Records => req[file[l].id] # "idle"

OnceInv == WrittenOnce /\ WrittenKnown /\ \A p \in Procs : TakenOnce(writer[p])

=============================================================================
