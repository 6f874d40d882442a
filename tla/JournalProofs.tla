---------------------------- MODULE JournalProofs ----------------------------
(***************************************************************************)
(* Safety of the audit journal for any number of records and processes, any *)
(* batch size, queue depth, checkpoint interval and sequence limit: IInv of *)
(* JournalInv is inductive, gives the journal's invariants, and makes every *)
(* step one the audit log's contract allows; with SealInv, what             *)
(* `audit verify` (AuditVerify) recomputes over the file is what the        *)
(* writers put there.                                                       *)
(***************************************************************************)
EXTENDS JournalInv, JournalRefinement, AuditVerify, SequenceTheorems, WellFoundedInduction, TLAPS

-----------------------------------------------------------------------------
(* Sequences and lines.                                                     *)

(* A nonempty set of positions of a line sequence has a last one, which is  *)
(* what LastCheckpoint returns; without a checkpoint it is 0.               *)
LEMMA LastCheckpointType ==
  ASSUME NEW f \in Seq(Lines)
  PROVE  /\ LastCheckpoint(f) \in 0..Len(f)
         /\ LastCheckpoint(f) # 0 => LastCheckpoint(f) \in Checkpoints(f)
         /\ \A j \in Checkpoints(f) : j <= LastCheckpoint(f)
<1>1. Checkpoints(f) \subseteq 1..Len(f)
  BY DEF Checkpoints
<1>2. CASE Checkpoints(f) = {}
  BY <1>2 DEF LastCheckpoint
<1>3. CASE Checkpoints(f) # {}
  <2> DEFINE T == {Len(f) - i : i \in Checkpoints(f)}
  <2>1. T \subseteq Nat /\ T # {}
    BY <1>1, <1>3
  <2>2. PICK x \in T : \A y \in T : ~ (<<y, x>> \in OpToRel(<, Nat))
    <3> HIDE DEF T
    <3> QED BY <2>1, NatLessThanWellFounded, WFMin, Zenon
  <2>3. ASSUME NEW y \in T PROVE x <= y
    <3> HIDE DEF T
    <3>1. x \in Nat /\ y \in Nat
      BY <2>1
    <3>2. y < x => <<y, x>> \in OpToRel(<, Nat)
      BY <3>1 DEF OpToRel
    <3>3. ~ (y < x)
      BY <2>2, <3>2, Zenon
    <3> QED BY <3>1, <3>3
  <2>4. PICK i \in Checkpoints(f) : x = Len(f) - i
    BY <2>2
  <2>5. \A j \in Checkpoints(f) : j <= i
    <3> TAKE j \in Checkpoints(f)
    <3>1. Len(f) - j \in T
      OBVIOUS
    <3>2. x <= Len(f) - j
      BY <2>3, <3>1
    <3>3. Len(f) \in Nat /\ i \in Nat /\ j \in Nat
      BY <1>1
    <3> QED BY <2>4, <3>2, <3>3
  <2>6. LastCheckpoint(f) \in Checkpoints(f) /\ \A j \in Checkpoints(f) : j <= LastCheckpoint(f)
    BY <1>3, <2>4, <2>5, Zenon DEF LastCheckpoint
  <2> QED BY <1>1, <2>6
<1> QED BY <1>2, <1>3

(* The digests of a file's lines are a chain.                               *)
LEMMA ChainType ==
  ASSUME NEW f \in Seq(Lines)
  PROVE  ChainOf(f) \in Seq(Nat \X Contents)
<1>1. \A i \in 1..Len(f) : Digest(f[i]) \in Nat \X Contents
  <2> TAKE i \in 1..Len(f)
  <2>1. f[i] \in Lines
    BY ElementOfSeq
  <2>2. f[i].seq \in Nat /\ f[i].id \in Contents
    BY <2>1 DEF Lines
  <2> QED BY <2>2 DEF Digest
<1> QED BY <1>1 DEF ChainOf

(* recover() hands the writer a well-formed state that counts every line.   *)
LEMMA RecoveredType ==
  ASSUME NEW f \in Seq(Lines)
  PROVE  /\ Recovered(f) \in Writers
         /\ Recovered(f).pc = "recv"
         /\ Recovered(f).lastSeq = Len(f)
         /\ Recovered(f).sealing = FALSE
<1>1. LastCheckpoint(f) \in 0..Len(f)
  BY LastCheckpointType
<1>2. Len(f) - LastCheckpoint(f) \in Nat
  BY <1>1
<1>3. ChainOf(f) \in Seq(Nat \X Contents)
  BY ChainType
<1>4. Len(f) \in Nat /\ LastCheckpoint(f) \in Nat
  BY <1>1
<1>5. Down \in Writers
  BY DEF Down, Writers, Labels
<1>6. Recovered(f) \in Writers
  BY <1>2, <1>3, <1>4, <1>5 DEF Recovered, Writers, Labels
<1>7. /\ Recovered(f).pc = "recv"
      /\ Recovered(f).lastSeq = Len(f)
      /\ Recovered(f).sealing = FALSE
  BY <1>5 DEF Recovered, Down
<1> QED BY <1>6, <1>7

(* The lines built for a batch: one per record, numbered on from lastSeq.   *)
LEMMA BatchLinesType ==
  ASSUME NEW w \in Writers
  PROVE  /\ BatchLines(w) \in Seq(Lines)
         /\ Len(BatchLines(w)) = Len(w.batch)
         /\ \A i \in 1..Len(w.batch) :
              /\ BatchLines(w)[i].seq = w.lastSeq + i
              /\ BatchLines(w)[i].id = w.batch[i]
<1>1. w.batch \in Seq(Records) /\ w.lastSeq \in Nat
  BY DEF Writers
<1>2. \A i \in 1..Len(w.batch) : RecordLine(w.lastSeq + i, w.batch[i]) \in Lines
  BY <1>1 DEF RecordLine, Lines, Contents
<1>3. BatchLines(w) \in Seq(Lines) /\ Len(BatchLines(w)) = Len(w.batch)
  BY <1>1, <1>2 DEF BatchLines
<1>4. \A i \in 1..Len(w.batch) :
        /\ BatchLines(w)[i].seq = w.lastSeq + i
        /\ BatchLines(w)[i].id = w.batch[i]
  BY <1>1 DEF BatchLines, RecordLine
<1> QED BY <1>3, <1>4

(* A checkpoint line is a line, numbered one past the last.                 *)
LEMMA CheckpointLineType ==
  ASSUME NEW w \in Writers
  PROVE  CheckpointLine(w) \in Lines /\ CheckpointLine(w).seq = w.lastSeq + 1
BY DEF CheckpointLine, Writers, Lines, Contents

-----------------------------------------------------------------------------
(* Steps.                                                                   *)

(* While one process is up, every other one is down.                        *)
LEMMA OthersDown ==
  ASSUME IInv, NEW p \in Procs, ~At(p, "down")
  PROVE  holder = p /\ \A q \in Procs \ {p} : writer[q].pc = "down"
BY DEF IInv, Mutex, At

(* What a step of one process has to respect: it leaves the other writers   *)
(* alone, keeps its own state aligned with the file, only adds lines with   *)
(* the next numbers, and promises only what is synced.                      *)
OwnStep(p) ==
  /\ writer' \in [Procs -> Writers]
  /\ \A q \in Procs \ {p} : writer'[q] = writer[q]
  /\ holder' = p \/ (holder' = NoProc /\ writer'[p].pc = "down")
  /\ Aligned(writer[p])'

Grows ==
  /\ file' \in Seq(Lines) /\ torn' \in BOOLEAN
  /\ Len(file) <= Len(file') /\ Len(file') <= SeqMax
  /\ \A i \in 1..Len(file) : file'[i] = file[i]
  /\ \A i \in 1..Len(file') : file'[i].seq = i
  /\ synced' \in synced..Len(file')

Promises ==
  /\ req' \in [Records -> Outcomes] /\ ackSeq' \in [Records -> Nat]
  /\ \A r \in Records : req'[r] = "ok" =>
       \/ req[r] = "ok" /\ ackSeq'[r] = ackSeq[r]
       \/ ackSeq'[r] \in 1..synced' /\ file'[ackSeq'[r]].id = r
  /\ exports' \in SUBSET Lines
  /\ \A e \in exports' :
       e \in exports \/ (e.seq \in 1..synced' /\ file'[e.seq] = e)

(* A step of one process keeps IInv when its own writer state stays legal,  *)
(* the file only grows behind it, and the promises already made stay true.  *)
LEMMA StepKeepsIInv ==
  ASSUME IInv, NEW p \in Procs,
         \A q \in Procs \ {p} : writer[q].pc = "down",
         OwnStep(p), Grows, Promises
  PROVE  IInv'
<1>1. Len(file) \in Nat /\ Len(file') \in Nat /\ synced \in 0..Len(file)
  BY DEF IInv, TypeOK, Grows
<1>2. synced' \in 0..Len(file')
  BY <1>1 DEF Grows
<1>3. TypeOK'
  BY <1>2 DEF OwnStep, Grows, Promises, TypeOK
<1>4. Mutex'
  BY DEF OwnStep, Mutex, At
<1>5. WritersAligned'
  <2> SUFFICES ASSUME NEW q \in Procs PROVE Aligned(writer[q])'
    BY DEF WritersAligned
  <2>1. CASE q = p
    BY <2>1 DEF OwnStep
  <2>2. CASE q # p
    <3>1. writer'[q] = writer[q] /\ writer[q].pc = "down"
      BY <2>2 DEF OwnStep
    <3>2. Aligned(writer[q])
      BY DEF IInv, WritersAligned
    <3>3. writer[q].open => writer[q].pc \notin {"down", "locked", "unlock"} /\ ~writer[q].sealing
      BY <3>2, Zenon DEF Aligned
    <3> QED BY <3>1, <3>3 DEF Aligned
  <2> QED BY <2>1, <2>2
<1>6. Contiguous'
  BY DEF Grows, Contiguous
<1>7. AckedDurable'
  <2> SUFFICES ASSUME NEW r \in Records, req'[r] = "ok"
               PROVE  ackSeq'[r] \in 1..synced' /\ file'[ackSeq'[r]].id = r
    BY DEF AckedDurable
  <2>1. CASE req[r] = "ok" /\ ackSeq'[r] = ackSeq[r]
    <3>1. ackSeq[r] \in 1..synced /\ file[ackSeq[r]].id = r
      BY <2>1 DEF IInv, AckedDurable
    <3> QED BY <1>1, <2>1, <3>1 DEF Grows
  <2> QED BY <2>1 DEF Promises
<1>8. ExportsBacked'
  <2> SUFFICES ASSUME NEW e \in exports'
               PROVE  e.seq \in 1..synced' /\ file'[e.seq] = e
    BY DEF ExportsBacked
  <2>1. CASE e \in exports
    <3>1. e.seq \in 1..synced /\ file[e.seq] = e
      BY <2>1 DEF IInv, ExportsBacked
    <3>2. e.seq \in 1..Len(file) /\ e.seq \in 1..synced'
      BY <1>1, <3>1 DEF Grows
    <3>3. file'[e.seq] = file[e.seq]
      BY <3>2 DEF Grows
    <3> QED BY <3>1, <3>2, <3>3
  <2> QED BY <2>1 DEF Promises
<1> QED BY <1>3, <1>4, <1>5, <1>6, <1>7, <1>8 DEF IInv

(* The parts of a step that leave the file, or the callers' promises, as    *)
(* they are.                                                                *)
LEMMA FileUnchanged ==
  ASSUME IInv, UNCHANGED <<file, torn, synced>>
  PROVE  Grows
<1>1. Len(file) \in Nat /\ synced \in 0..Len(file)
  BY DEF IInv, TypeOK
<1> QED BY <1>1 DEF IInv, TypeOK, Contiguous, Grows

(* A step that touches neither answers, lines nor exports keeps every       *)
(* promise.                                                                 *)
LEMMA PromisesUnchanged ==
  ASSUME IInv, UNCHANGED <<req, ackSeq, exports>>
  PROVE  Promises
BY DEF IInv, TypeOK, Promises

(* Answering a caller with an error promises it nothing.                    *)
LEMMA AnswerKeepsPromises ==
  ASSUME IInv, NEW rs, NEW outcome \in Outcomes \ {"ok"}, Answer(rs, outcome),
         UNCHANGED <<ackSeq, exports>>
  PROVE  Promises
BY DEF IInv, TypeOK, Promises, Answer

-----------------------------------------------------------------------------
(* Actions that leave the file alone.                                       *)

(* The action Lock preserves IInv.                                          *)
LEMMA LockStep ==
  ASSUME IInv, NEW p \in Procs, Lock(p)
  PROVE  IInv'
<1> USE DEF Lock, At
<1>1. \A q \in Procs \ {p} : writer[q].pc = "down"
  BY JournalConstants DEF IInv, Mutex
<1>2. writer' \in [Procs -> Writers]
  <2>1. writer \in [Procs -> Writers] /\ "locked" \in Labels
    BY DEF IInv, TypeOK, Labels
  <2>2. [writer[p] EXCEPT !.pc = "locked"] \in Writers
    BY <2>1 DEF Writers
  <2> QED BY <2>1, <2>2
<1>3. Aligned(writer[p])'
  <2>1. writer[p].open => writer[p].pc \notin {"down", "locked", "unlock"} /\ ~writer[p].sealing
    BY Zenon DEF IInv, WritersAligned, Aligned
  <2>2. writer'[p].pc = "locked" /\ writer'[p].open = writer[p].open
    BY DEF IInv, TypeOK, Writers
  <2> QED BY <2>1, <2>2 DEF Aligned
<1>4. OwnStep(p)
  BY <1>2, <1>3 DEF OwnStep, IInv, TypeOK
<1> QED BY <1>1, <1>4, FileUnchanged, PromisesUnchanged, StepKeepsIInv

(* The action Refuse preserves IInv.                                        *)
LEMMA RefuseStep ==
  ASSUME IInv, NEW p \in Procs, RecoverRefuses(p)
  PROVE  IInv'
<1> USE DEF RecoverRefuses, At
<1>1. \A q \in Procs \ {p} : writer[q].pc = "down"
  BY OthersDown
<1>2. Down \in Writers /\ Down.pc = "down" /\ Down.open = FALSE
  BY DEF Down, Writers, Labels
<1>3. writer' \in [Procs -> Writers]
  BY <1>2 DEF IInv, TypeOK
<1>4. Aligned(writer[p])'
  BY <1>2 DEF IInv, TypeOK, Aligned
<1>5. OwnStep(p)
  BY <1>2, <1>3, <1>4 DEF OwnStep, IInv, TypeOK
<1> QED BY <1>1, <1>5, FileUnchanged, PromisesUnchanged, StepKeepsIInv

(* The action Enqueue preserves IInv.                                       *)
LEMMA EnqueueStep ==
  ASSUME IInv, NEW p \in Procs, NEW r \in Records, Enqueue(p, r)
  PROVE  IInv'
<1> USE DEF Enqueue, At
<1>1. writer \in [Procs -> Writers] /\ writer[p] \in Writers /\ Aligned(writer[p])
  BY DEF IInv, TypeOK, WritersAligned
<1>2. writer[p].pc # "down" /\ holder = p /\ \A q \in Procs \ {p} : writer[q].pc = "down"
  BY <1>1, OthersDown DEF Aligned
<1>3. Append(writer[p].queue, r) \in Seq(Records \cup {Tick})
  BY <1>1 DEF Writers
<1>4. writer' \in [Procs -> Writers]
  BY <1>1, <1>3 DEF Writers
<1>5. Aligned(writer[p])'
  BY <1>1 DEF Aligned, Counts, Writers
<1>6. OwnStep(p)
  BY <1>2, <1>4, <1>5 DEF OwnStep, IInv, TypeOK
<1>7. Promises
  BY DEF Promises, IInv, TypeOK, Outcomes
<1> QED BY <1>2, <1>6, <1>7, FileUnchanged, StepKeepsIInv

(* A step of a process that is up, with the lock, the file and the writers  *)
(* of others as they were.                                                  *)
LEMMA QuietStep ==
  ASSUME IInv, NEW p \in Procs, ~At(p, "down"),
         UNCHANGED <<file, torn, synced, holder>>, Promises,
         writer' \in [Procs -> Writers],
         \A q \in Procs \ {p} : writer'[q] = writer[q],
         Aligned(writer[p])'
  PROVE  IInv'
<1>1. holder = p /\ \A q \in Procs \ {p} : writer[q].pc = "down"
  BY OthersDown
<1>2. OwnStep(p)
  BY <1>1 DEF OwnStep
<1> QED BY <1>1, <1>2, FileUnchanged, StepKeepsIInv

(* The action PostTick preserves IInv.                                      *)
LEMMA PostTickStep ==
  ASSUME IInv, NEW p \in Procs, PostTick(p)
  PROVE  IInv'
<1> USE DEF PostTick, At
<1>1. writer \in [Procs -> Writers] /\ writer[p] \in Writers /\ Aligned(writer[p])
  BY DEF IInv, TypeOK, WritersAligned
<1>2. writer[p].pc # "down"
  BY <1>1 DEF Aligned
<1>3. Append(writer[p].queue, Tick) \in Seq(Records \cup {Tick})
  BY <1>1 DEF Writers
<1>4. writer' \in [Procs -> Writers]
  BY <1>1, <1>3 DEF Writers
<1>5. Aligned(writer[p])'
  BY <1>1 DEF Aligned, Counts, Writers
<1> QED BY <1>1, <1>2, <1>4, <1>5, PromisesUnchanged, QuietStep

(* The action Close preserves IInv.                                         *)
LEMMA CloseStep ==
  ASSUME IInv, NEW p \in Procs, Close(p)
  PROVE  IInv'
<1> USE DEF Close, At
<1>1. writer \in [Procs -> Writers] /\ writer[p] \in Writers /\ Aligned(writer[p])
  BY DEF IInv, TypeOK, WritersAligned
<1>2. writer[p].pc # "down"
  BY <1>1 DEF Aligned
<1>3. writer' \in [Procs -> Writers]
  BY <1>1 DEF Writers
<1>4. Aligned(writer[p])'
  BY <1>1 DEF Aligned, Counts, Writers
<1> QED BY <1>1, <1>2, <1>3, <1>4, PromisesUnchanged, QuietStep

(* The action ReceiveRecord preserves IInv.                                 *)
LEMMA ReceiveRecordStep ==
  ASSUME IInv, NEW p \in Procs, ReceiveRecord(p)
  PROVE  IInv'
<1> USE DEF ReceiveRecord, At
<1>1. writer \in [Procs -> Writers] /\ writer[p] \in Writers /\ Aligned(writer[p])
  BY DEF IInv, TypeOK, WritersAligned
<1>2. /\ <<Head(writer[p].queue)>> \in Seq(Records)
      /\ Tail(writer[p].queue) \in Seq(Records \cup {Tick})
  BY <1>1 DEF Writers
<1>3. writer' \in [Procs -> Writers]
  BY <1>1, <1>2 DEF Writers, Labels
<1>4. Aligned(writer[p])'
  BY <1>1 DEF Aligned, Counts, Writers
<1> QED BY <1>1, <1>3, <1>4, PromisesUnchanged, QuietStep

(* The action ReceiveTick preserves IInv.                                   *)
LEMMA ReceiveTickStep ==
  ASSUME IInv, NEW p \in Procs, ReceiveTick(p)
  PROVE  IInv'
<1> USE DEF ReceiveTick, At
<1>1. writer \in [Procs -> Writers] /\ writer[p] \in Writers /\ Aligned(writer[p])
  BY DEF IInv, TypeOK, WritersAligned
<1>2. Tail(writer[p].queue) \in Seq(Records \cup {Tick})
  BY <1>1 DEF Writers
<1>3. writer' \in [Procs -> Writers]
  <2>1. PICK l \in {"recv", "checkpoint"} :
          writer' = [writer EXCEPT ![p].queue = Tail(@), ![p].pc = l]
    BY Zenon
  <2>2. l \in Labels
    BY DEF Labels
  <2> HIDE DEF ReceiveTick
  <2> QED BY <1>1, <1>2, <2>1, <2>2 DEF Writers
<1>4. Aligned(writer[p])'
  <2>1. \/ writer'[p].pc = "recv"
        \/ writer'[p].pc = "checkpoint" /\ ~writer[p].poisoned /\ writer[p].since > 0
    BY <1>1
  <2>2. /\ writer'[p].poisoned = writer[p].poisoned
        /\ writer'[p].open = writer[p].open
        /\ writer'[p].lastSeq = writer[p].lastSeq
        /\ writer'[p].since = writer[p].since
    BY <1>1 DEF Writers
  <2> QED BY <1>1, <2>1, <2>2 DEF Aligned, Counts
<1> QED BY <1>1, <1>3, <1>4, PromisesUnchanged, QuietStep

(* The action Drain preserves IInv.                                         *)
LEMMA DrainStep ==
  ASSUME IInv, NEW p \in Procs, Drain(p)
  PROVE  IInv'
<1> USE DEF Drain, At
<1>1. writer \in [Procs -> Writers] /\ writer[p] \in Writers /\ Aligned(writer[p])
  BY DEF IInv, TypeOK, WritersAligned
<1>2. Tail(writer[p].queue) \in Seq(Records \cup {Tick})
  BY <1>1 DEF Writers
<1>3. Head(writer[p].queue) # Tick =>
        Append(writer[p].batch, Head(writer[p].queue)) \in Seq(Records)
  BY <1>1 DEF Writers
<1>4. writer' \in [Procs -> Writers]
  BY <1>1, <1>2, <1>3 DEF Writers, Labels
<1>5. Aligned(writer[p])'
  BY <1>1 DEF Aligned, Counts, Writers
<1> QED BY <1>1, <1>4, <1>5, PromisesUnchanged, QuietStep

(* The action SealTail preserves IInv.                                      *)
LEMMA SealTailStep ==
  ASSUME IInv, NEW p \in Procs, SealTail(p)
  PROVE  IInv'
<1> USE DEF SealTail, EndOfChannel, At
<1>1. writer \in [Procs -> Writers] /\ writer[p] \in Writers /\ Aligned(writer[p])
  BY DEF IInv, TypeOK, WritersAligned
<1>2. writer' \in [Procs -> Writers]
  BY <1>1 DEF Writers, Labels
<1>3. Aligned(writer[p])'
  BY <1>1 DEF Aligned, Counts, Writers
<1> QED BY <1>1, <1>2, <1>3, PromisesUnchanged, QuietStep

(* The action Unlock preserves IInv.                                        *)
LEMMA UnlockStep ==
  ASSUME IInv, NEW p \in Procs, Unlock(p)
  PROVE  IInv'
<1> USE DEF Unlock, At
<1>1. \A q \in Procs \ {p} : writer[q].pc = "down"
  BY OthersDown
<1>2. Down \in Writers /\ Down.pc = "down" /\ Down.open = FALSE
  BY DEF Down, Writers, Labels
<1>3. writer' \in [Procs -> Writers]
  BY <1>2 DEF IInv, TypeOK
<1>4. Aligned(writer[p])'
  BY <1>2 DEF IInv, TypeOK, Aligned
<1>5. OwnStep(p)
  BY <1>2, <1>3, <1>4 DEF OwnStep, IInv, TypeOK
<1> QED BY <1>1, <1>5, FileUnchanged, PromisesUnchanged, StepKeepsIInv

(* fail_batch leaves a poisoned writer, to which nothing is owed.           *)
LEMMA FailBatchWriter ==
  ASSUME IInv, NEW p \in Procs, FailBatch(p),
         ~At(p, "down"), ~At(p, "locked"), ~At(p, "unlock")
  PROVE  /\ writer' \in [Procs -> Writers]
         /\ \A q \in Procs \ {p} : writer'[q] = writer[q]
         /\ Aligned(writer[p])'
<1> USE DEF FailBatch, At
<1>1. writer \in [Procs -> Writers] /\ writer[p] \in Writers /\ Aligned(writer[p])
  BY DEF IInv, TypeOK, WritersAligned
<1>2. "recv" \in Labels /\ <<>> \in Seq(Records)
  BY DEF Labels
<1>3. writer' = [writer EXCEPT ![p].pc = "recv", ![p].poisoned = TRUE, ![p].batch = <<>>]
  OBVIOUS
<1> HIDE DEF FailBatch
<1>4. writer' \in [Procs -> Writers]
  BY <1>1, <1>2, <1>3 DEF Writers
<1>5. /\ writer'[p].pc = "recv" /\ writer'[p].poisoned
      /\ writer'[p].open = writer[p].open /\ writer'[p].sealing = writer[p].sealing
  BY <1>1, <1>3 DEF Writers
<1>6. Aligned(writer[p])'
  BY <1>1, <1>5 DEF Aligned
<1> QED BY <1>1, <1>3, <1>4, <1>6

(* The action RefusePoisoned preserves IInv.                                *)
LEMMA RefusePoisonedStep ==
  ASSUME IInv, NEW p \in Procs, RefusePoisoned(p)
  PROVE  IInv'
<1> USE DEF RefusePoisoned, Drained, At
<1>1. writer \in [Procs -> Writers] /\ writer[p] \in Writers /\ Aligned(writer[p])
  BY DEF IInv, TypeOK, WritersAligned
<1>2. "recv" \in Labels /\ <<>> \in Seq(Records)
  BY DEF Labels
<1>3. writer' = [writer EXCEPT ![p].pc = "recv", ![p].batch = <<>>]
  OBVIOUS
<1>4. ~At(p, "down") /\ UNCHANGED <<file, torn, synced, holder>>
  OBVIOUS
<1>5. Promises
  BY AnswerKeepsPromises DEF Outcomes
<1>6. writer[p].poisoned
  BY <1>1 DEF Writers
<1> HIDE DEF RefusePoisoned
<1>7. writer' \in [Procs -> Writers]
  BY <1>1, <1>2, <1>3 DEF Writers
<1>8. /\ writer'[p].pc = "recv" /\ writer'[p].poisoned
      /\ writer'[p].open = writer[p].open /\ writer'[p].sealing = writer[p].sealing
  BY <1>1, <1>3, <1>6 DEF Writers
<1>9. Aligned(writer[p])'
  BY <1>1, <1>8 DEF Aligned
<1> QED BY <1>1, <1>3, <1>4, <1>5, <1>7, <1>9, QuietStep

(* The action RefuseExhausted preserves IInv.                               *)
LEMMA RefuseExhaustedStep ==
  ASSUME IInv, NEW p \in Procs, RefuseExhausted(p)
  PROVE  IInv'
<1> USE DEF RefuseExhausted, Drained, At
<1>1. Promises
  BY AnswerKeepsPromises DEF Outcomes, FailBatch
<1> QED BY <1>1, FailBatchWriter, QuietStep

(* The action SyncFails preserves IInv.                                     *)
LEMMA SyncFailsStep ==
  ASSUME IInv, NEW p \in Procs, SyncFails(p)
  PROVE  IInv'
<1> USE DEF SyncFails, At
<1>1. Promises
  BY AnswerKeepsPromises DEF Outcomes, FailBatch
<1> QED BY <1>1, FailBatchWriter, QuietStep

(* A checkpoint that failed: the writer is poisoned, or about to unlock.    *)
LEMMA CheckpointFailedWriter ==
  ASSUME IInv, NEW p \in Procs, CheckpointFailed(p),
         writer[p].pc \in {"checkpoint", "cpsync"},
         UNCHANGED <<ackSeq, exports>>
  PROVE  /\ writer' \in [Procs -> Writers]
         /\ \A q \in Procs \ {p} : writer'[q] = writer[q]
         /\ Aligned(writer[p])'
         /\ Promises
<1> USE DEF CheckpointFailed, At
<1>1. writer \in [Procs -> Writers] /\ writer[p] \in Writers /\ Aligned(writer[p])
  BY DEF IInv, TypeOK, WritersAligned
<1>2. CASE writer[p].sealing
  <2>1. writer' \in [Procs -> Writers]
    <3>1. "unlock" \in Labels
      BY DEF Labels
    <3>2. writer' = [writer EXCEPT ![p].pc = "unlock"]
      BY <1>2
    <3> HIDE DEF CheckpointFailed
    <3> QED BY <1>1, <3>1, <3>2 DEF Writers
  <2>2. writer'[p].pc = "unlock" /\ writer'[p].open = writer[p].open
    BY <1>1, <1>2 DEF Writers
  <2>3. Aligned(writer[p])'
    BY <1>1, <1>2, <2>2 DEF Aligned
  <2> QED BY <1>1, <1>2, <2>1, <2>3, PromisesUnchanged
<1>3. CASE ~writer[p].sealing
  <2>1. Promises
    BY <1>3, AnswerKeepsPromises DEF Outcomes, FailBatch
  <2> QED BY <1>3, <2>1, FailBatchWriter
<1> QED BY <1>2, <1>3

(* The action SyncCheckpointFails preserves IInv.                           *)
LEMMA SyncCheckpointFailsStep ==
  ASSUME IInv, NEW p \in Procs, SyncCheckpointFails(p)
  PROVE  IInv'
<1> USE DEF SyncCheckpointFails, At
<1> QED BY CheckpointFailedWriter, QuietStep

(* The action Abandon preserves IInv.                                       *)
LEMMA AbandonStep ==
  ASSUME IInv, NEW r \in Records, Abandon(r)
  PROVE  IInv'
<1> USE DEF Abandon
<1>1. req' \in [Records -> Outcomes] /\ \A x \in Records : req'[x] = "ok" => req[x] = "ok"
  BY DEF IInv, TypeOK, Outcomes
<1>2. TypeOK'
  BY <1>1 DEF IInv, TypeOK
<1>3. AckedDurable'
  BY <1>1 DEF IInv, AckedDurable
<1>4. Mutex' /\ Contiguous' /\ ExportsBacked'
  BY DEF IInv, Mutex, At, Contiguous, ExportsBacked
<1>5. WritersAligned'
  BY DEF IInv, WritersAligned, Aligned, Counts
<1> QED BY <1>2, <1>3, <1>4, <1>5 DEF IInv

-----------------------------------------------------------------------------
(* Actions that write to the file.                                          *)

(* Lines that carry the next numbers may be appended behind a whole line.   *)
LEMMA AppendGrows ==
  ASSUME IInv, torn = FALSE, NEW lines \in Seq(Lines),
         \A i \in 1..Len(lines) : lines[i].seq = Len(file) + i,
         Len(file) + Len(lines) <= SeqMax,
         file' = Appended(file, torn, lines), torn' \in BOOLEAN, synced' = synced
  PROVE  /\ Grows
         /\ Len(file') = Len(file) + Len(lines)
         /\ \A i \in 1..Len(lines) : file'[Len(file) + i] = lines[i]
<1>1. file \in Seq(Lines) /\ synced \in 0..Len(file) /\ Len(file) \in Nat /\ Len(lines) \in Nat
  BY DEF IInv, TypeOK
<1>2. file' = file \o lines
  BY DEF Appended
<1>3. /\ file' \in Seq(Lines)
      /\ Len(file') = Len(file) + Len(lines)
      /\ \A i \in 1..Len(file) + Len(lines) :
           file'[i] = IF i <= Len(file) THEN file[i] ELSE lines[i - Len(file)]
  BY <1>1, <1>2, ConcatProperties
<1>4. \A i \in 1..Len(file) : file'[i] = file[i]
  BY <1>1, <1>3
<1>5. \A i \in 1..Len(lines) : file'[Len(file) + i] = lines[i]
  <2> TAKE i \in 1..Len(lines)
  <2>1. /\ Len(file) + i \in 1..Len(file) + Len(lines)
        /\ ~(Len(file) + i <= Len(file))
        /\ (Len(file) + i) - Len(file) = i
    BY <1>1
  <2> QED BY <1>3, <2>1
<1>6. \A i \in 1..Len(file') : file'[i].seq = i
  <2> TAKE i \in 1..Len(file')
  <2>1. CASE i <= Len(file)
    BY <1>1, <1>4, <2>1 DEF IInv, Contiguous
  <2>2. CASE i > Len(file)
    <3>1. i - Len(file) \in 1..Len(lines) /\ i = Len(file) + (i - Len(file))
      BY <1>1, <1>3, <2>2
    <3> QED BY <1>5, <3>1
  <2> QED BY <1>1, <2>1, <2>2
<1>7. Len(file) <= Len(file') /\ Len(file') <= SeqMax /\ synced' \in synced..Len(file')
  BY <1>1, <1>3
<1> QED BY <1>3, <1>4, <1>5, <1>6, <1>7 DEF Grows

(* So may the first k of them.                                              *)
LEMMA PartialGrows ==
  ASSUME IInv, torn = FALSE, NEW lines \in Seq(Lines),
         \A i \in 1..Len(lines) : lines[i].seq = Len(file) + i,
         Len(file) + Len(lines) <= SeqMax,
         NEW k \in 0..Len(lines) - 1, NEW t \in BOOLEAN,
         PartialWrite(lines, k, t), synced' = synced
  PROVE  Grows
<1> DEFINE part == SubSeq(lines, 1, k)
<1>1. Len(lines) \in Nat /\ Len(file) \in Nat /\ \A i \in 1..k : lines[i] \in Lines
  BY DEF IInv, TypeOK
<1>2. part \in Seq(Lines) /\ Len(part) = k /\ \A i \in 1..k : part[i] = lines[i]
  BY <1>1, SubSeqProperties
<1>3. torn' \in BOOLEAN /\ file' = Appended(file, torn, part)
  BY DEF PartialWrite
<1>4. \A i \in 1..Len(part) : part[i].seq = Len(file) + i
  BY <1>1, <1>2
<1>5. Len(file) + Len(part) <= SeqMax
  BY <1>1, <1>2, JournalConstants
<1> HIDE DEF part
<1> QED BY <1>2, <1>3, <1>4, <1>5, AppendGrows

(* The lines of a batch a writer is about to write fit behind the file.     *)
LEMMA BatchFits ==
  ASSUME IInv, NEW p \in Procs, Drained(p), ~writer[p].poisoned, ~Exhausted(writer[p])
  PROVE  /\ torn = FALSE /\ Len(file) = writer[p].lastSeq
         /\ BatchLines(writer[p]) \in Seq(Lines)
         /\ Len(BatchLines(writer[p])) = Len(writer[p].batch)
         /\ Len(file) + Len(BatchLines(writer[p])) < SeqMax
         /\ \A i \in 1..Len(BatchLines(writer[p])) :
              /\ BatchLines(writer[p])[i].seq = Len(file) + i
              /\ BatchLines(writer[p])[i].id = writer[p].batch[i]
<1>1. writer[p] \in Writers /\ Aligned(writer[p]) /\ writer[p].pc = "drain"
  BY DEF IInv, TypeOK, WritersAligned, Drained, At
<1>2. torn = FALSE /\ Len(file) = writer[p].lastSeq
  BY <1>1 DEF Aligned, Counts
<1>3. writer[p].lastSeq \in Nat /\ Len(writer[p].batch) \in Nat
  BY <1>1 DEF Writers
<1>4. writer[p].lastSeq + Len(writer[p].batch) < SeqMax
  BY <1>3, JournalConstants DEF Exhausted
<1> QED BY <1>1, <1>2, <1>4, BatchLinesType

(* So does a checkpoint's line.                                             *)
LEMMA CheckpointFits ==
  ASSUME IInv, NEW p \in Procs, At(p, "checkpoint")
  PROVE  LET lines == <<CheckpointLine(writer[p])>> IN
         /\ torn = FALSE /\ Len(file) = writer[p].lastSeq
         /\ lines \in Seq(Lines) /\ Len(lines) = 1
         /\ Len(file) + Len(lines) <= SeqMax
         /\ \A i \in 1..Len(lines) : lines[i].seq = Len(file) + i
<1>1. writer[p] \in Writers /\ Aligned(writer[p]) /\ writer[p].pc = "checkpoint"
  BY DEF IInv, TypeOK, WritersAligned, At
<1>2. torn = FALSE /\ Len(file) = writer[p].lastSeq /\ writer[p].lastSeq < SeqMax
  BY <1>1 DEF Aligned, Counts
<1>3. CheckpointLine(writer[p]) \in Lines /\ CheckpointLine(writer[p]).seq = writer[p].lastSeq + 1
  BY <1>1, CheckpointLineType
<1>4. writer[p].lastSeq \in Nat
  BY <1>1 DEF Writers
<1> QED BY <1>2, <1>3, <1>4, JournalConstants

(* The action Recover preserves IInv.                                       *)
LEMMA RecoverStep ==
  ASSUME IInv, NEW p \in Procs, Recover(p)
  PROVE  IInv'
<1> USE DEF Recover, At
<1>1. holder = p /\ \A q \in Procs \ {p} : writer[q].pc = "down"
  BY OthersDown
<1>2. /\ writer \in [Procs -> Writers] /\ file \in Seq(Lines) /\ Len(file) \in Nat
      /\ synced \in 0..Len(file)
  BY DEF IInv, TypeOK
<1>3. /\ Recovered(file) \in Writers /\ Recovered(file).pc = "recv"
      /\ Recovered(file).lastSeq = Len(file) /\ Recovered(file).sealing = FALSE
  BY <1>2, RecoveredType
<1>4. writer' \in [Procs -> Writers] /\ writer'[p] = Recovered(file)
  BY <1>2, <1>3
<1>5. Len(file) < SeqMax
  BY DEF Recoverable
<1>6. Aligned(writer[p])'
  BY <1>3, <1>4, <1>5 DEF Aligned, Counts
<1>7. OwnStep(p)
  BY <1>1, <1>2, <1>4, <1>6 DEF OwnStep
<1>8. Grows
  <2>1. synced' \in synced..Len(file) /\ file' = file /\ torn' = FALSE
    BY <1>2
  <2>2. Len(file) <= SeqMax /\ \A i \in 1..Len(file) : file[i].seq = i
    BY DEF IInv, Contiguous
  <2>3. torn' \in BOOLEAN /\ Len(file') = Len(file) /\ synced' \in synced..Len(file')
    BY <2>1
  <2> HIDE DEF Recover
  <2> QED BY <1>2, <2>1, <2>2, <2>3 DEF Grows
<1> QED BY <1>1, <1>7, <1>8, PromisesUnchanged, StepKeepsIInv

(* The action WriteBatch preserves IInv.                                    *)
LEMMA WriteBatchStep ==
  ASSUME IInv, NEW p \in Procs, WriteBatch(p)
  PROVE  IInv'
<1> USE DEF WriteBatch, Drained, At
<1>1. holder = p /\ \A q \in Procs \ {p} : writer[q].pc = "down"
  BY OthersDown
<1>2. writer \in [Procs -> Writers] /\ writer[p] \in Writers /\ Aligned(writer[p])
  BY DEF IInv, TypeOK, WritersAligned
<1> DEFINE lines == BatchLines(writer[p])
<1>3. /\ torn = FALSE /\ Len(file) = writer[p].lastSeq
      /\ lines \in Seq(Lines) /\ Len(lines) = Len(writer[p].batch)
      /\ Len(file) + Len(lines) < SeqMax
      /\ \A i \in 1..Len(lines) : lines[i].seq = Len(file) + i /\ lines[i].id = writer[p].batch[i]
  BY BatchFits
<1>4. Len(file) \in Nat /\ Len(lines) \in Nat /\ Len(file) + Len(lines) <= SeqMax
  BY <1>3, JournalConstants DEF IInv, TypeOK
<1>5. file' = Appended(file, torn, lines) /\ torn' = FALSE /\ synced' = synced
  OBVIOUS
<1> HIDE DEF lines
<1>6. /\ Grows
      /\ Len(file') = Len(file) + Len(lines)
      /\ \A i \in 1..Len(lines) : file'[Len(file) + i] = lines[i]
  BY <1>3, <1>4, <1>5, AppendGrows
<1>7. writer' \in [Procs -> Writers]
  <2>1. "sync" \in Labels
    BY DEF Labels
  <2> QED BY <1>2, <2>1 DEF Writers
<1>8. /\ writer'[p].pc = "sync" /\ writer'[p].poisoned = FALSE
      /\ writer'[p].batch = writer[p].batch /\ writer'[p].lastSeq = writer[p].lastSeq
      /\ writer'[p].since = writer[p].since
      /\ writer'[p].open = writer[p].open /\ writer'[p].sealing = writer[p].sealing
  BY <1>2 DEF Writers
<1>9. Aligned(writer[p])'
  <2>1. \A i \in 1..Len(writer'[p].batch) : file'[writer'[p].lastSeq + i].id = writer'[p].batch[i]
    BY <1>3, <1>6, <1>8
  <2>2. Len(file') = writer'[p].lastSeq + Len(writer'[p].batch) /\ Len(file') < SeqMax
    BY <1>3, <1>6, <1>8
  <2>3. writer'[p].since > 0 => writer'[p].lastSeq < SeqMax
    BY <1>3, <1>4, <1>8, JournalConstants
  <2>4. writer'[p].open => ~writer'[p].sealing
    BY <1>2, <1>8 DEF Aligned
  <2> QED BY <1>5, <1>8, <2>1, <2>2, <2>3, <2>4 DEF Aligned, Counts
<1>10. OwnStep(p)
  BY <1>1, <1>2, <1>7, <1>9 DEF OwnStep
<1> QED BY <1>1, <1>6, <1>10, PromisesUnchanged, StepKeepsIInv

(* The action WriteFails preserves IInv.                                    *)
LEMMA WriteFailsStep ==
  ASSUME IInv, NEW p \in Procs, WriteFails(p)
  PROVE  IInv'
<1> USE DEF WriteFails, Drained, At
<1>1. holder = p /\ \A q \in Procs \ {p} : writer[q].pc = "down"
  BY OthersDown
<1>2. OwnStep(p)
  BY <1>1, FailBatchWriter DEF OwnStep
<1>3. Promises
  BY AnswerKeepsPromises DEF Outcomes, FailBatch
<1>4. Grows
  <2>1. /\ torn = FALSE /\ BatchLines(writer[p]) \in Seq(Lines)
        /\ Len(BatchLines(writer[p])) = Len(writer[p].batch)
        /\ Len(file) + Len(BatchLines(writer[p])) <= SeqMax
        /\ \A i \in 1..Len(BatchLines(writer[p])) : BatchLines(writer[p])[i].seq = Len(file) + i
    <3>1. Len(file) \in Nat /\ writer[p] \in Writers
      BY DEF IInv, TypeOK
    <3>2. Len(writer[p].batch) \in Nat
      BY <3>1 DEF Writers
    <3>3. /\ Len(BatchLines(writer[p])) = Len(writer[p].batch)
          /\ Len(file) + Len(BatchLines(writer[p])) < SeqMax
      BY BatchFits
    <3>4. Len(file) + Len(BatchLines(writer[p])) <= SeqMax
      BY <3>1, <3>2, <3>3, JournalConstants
    <3> QED BY <3>3, <3>4, BatchFits
  <2>2. PICK k \in 0..Len(BatchLines(writer[p])) - 1, t \in BOOLEAN :
          PartialWrite(BatchLines(writer[p]), k, t)
    BY <2>1
  <2> QED BY <2>1, <2>2, PartialGrows
<1> QED BY <1>1, <1>2, <1>3, <1>4, StepKeepsIInv

(* The action WriteCheckpoint preserves IInv.                               *)
LEMMA WriteCheckpointStep ==
  ASSUME IInv, NEW p \in Procs, WriteCheckpoint(p)
  PROVE  IInv'
<1> USE DEF WriteCheckpoint, At
<1>1. holder = p /\ \A q \in Procs \ {p} : writer[q].pc = "down"
  BY OthersDown
<1>2. writer \in [Procs -> Writers] /\ writer[p] \in Writers /\ Aligned(writer[p])
  BY DEF IInv, TypeOK, WritersAligned
<1> DEFINE lines == <<CheckpointLine(writer[p])>>
<1>3. /\ torn = FALSE /\ Len(file) = writer[p].lastSeq
      /\ lines \in Seq(Lines) /\ Len(lines) = 1
      /\ Len(file) + Len(lines) <= SeqMax
      /\ \A i \in 1..Len(lines) : lines[i].seq = Len(file) + i
  BY CheckpointFits
<1>4. file' = Appended(file, torn, lines) /\ torn' = FALSE /\ synced' = synced
  OBVIOUS
<1> HIDE DEF lines
<1>5. Grows /\ Len(file') = Len(file) + 1
  BY <1>3, <1>4, AppendGrows
<1>6. writer' \in [Procs -> Writers]
  <2>1. "cpsync" \in Labels
    BY DEF Labels
  <2> QED BY <1>2, <2>1 DEF Writers
<1>7. /\ writer'[p].pc = "cpsync" /\ writer'[p].lastSeq = writer[p].lastSeq
      /\ writer'[p].since = writer[p].since /\ writer'[p].poisoned = writer[p].poisoned
      /\ writer'[p].open = writer[p].open /\ writer'[p].sealing = writer[p].sealing
  BY <1>2 DEF Writers
<1>8. Aligned(writer[p])'
  BY <1>2, <1>3, <1>4, <1>5, <1>7 DEF Aligned, Counts
<1>9. OwnStep(p)
  BY <1>1, <1>2, <1>6, <1>8 DEF OwnStep
<1> QED BY <1>1, <1>5, <1>9, PromisesUnchanged, StepKeepsIInv

(* The action WriteCheckpointFails preserves IInv.                          *)
LEMMA WriteCheckpointFailsStep ==
  ASSUME IInv, NEW p \in Procs, WriteCheckpointFails(p)
  PROVE  IInv'
<1> USE DEF WriteCheckpointFails, At
<1>1. holder = p /\ \A q \in Procs \ {p} : writer[q].pc = "down"
  BY OthersDown
<1>2. OwnStep(p) /\ Promises
  BY <1>1, CheckpointFailedWriter DEF OwnStep
<1>3. Grows
  <2> DEFINE lines == <<CheckpointLine(writer[p])>>
  <2>1. /\ torn = FALSE /\ lines \in Seq(Lines) /\ Len(lines) = 1
        /\ Len(file) + Len(lines) <= SeqMax
        /\ \A i \in 1..Len(lines) : lines[i].seq = Len(file) + i
    BY CheckpointFits
  <2>2. PICK t \in BOOLEAN : PartialWrite(lines, 0, t)
    OBVIOUS
  <2>3. 0 \in 0..Len(lines) - 1
    BY <2>1
  <2> HIDE DEF lines
  <2> QED BY <2>1, <2>2, <2>3, PartialGrows
<1> QED BY <1>1, <1>2, <1>3, StepKeepsIInv

(* The acknowledgement after a sync: who is told "ok" is told where.        *)
LEMMA SyncBatchStep ==
  ASSUME IInv, NEW p \in Procs, SyncBatch(p)
  PROVE  IInv'
<1> DEFINE w == writer[p]
           n == Len(w.batch)
           acked == {i \in 1..n : req[w.batch[i]] = "waiting"}
           next == IF w.since + n >= EveryRecords THEN "checkpoint" ELSE "recv"
<1> USE DEF At
<1>1. holder = p /\ \A q \in Procs \ {p} : writer[q].pc = "down"
  BY OthersDown DEF SyncBatch
<1>2. writer \in [Procs -> Writers] /\ w \in Writers /\ Aligned(w) /\ w.pc = "sync"
  BY DEF IInv, TypeOK, WritersAligned, SyncBatch
<1>3. /\ file \in Seq(Lines) /\ Len(file) \in Nat /\ synced \in 0..Len(file)
      /\ w.batch \in Seq(Records) /\ n \in Nat /\ w.lastSeq \in Nat /\ w.since \in Nat
  BY <1>2 DEF IInv, TypeOK, Writers
<1>4. /\ torn = FALSE /\ Len(file) = w.lastSeq + n /\ Len(file) < SeqMax
      /\ \A i \in 1..n : file[w.lastSeq + i].id = w.batch[i]
      /\ w.open => ~w.sealing
  BY <1>2 DEF Aligned, Counts
<1>5. UNCHANGED <<file, torn, holder, exports>> /\ synced' = Len(file)
  BY DEF SyncBatch
<1>6. /\ Answer(Elements(w.batch), "ok")
      /\ ackSeq' = [r \in Records |->
           IF \E i \in acked : w.batch[i] = r
           THEN w.lastSeq + CHOOSE i \in acked : w.batch[i] = r
           ELSE ackSeq[r]]
      /\ writer' = [writer EXCEPT
           ![p].batch = <<>>,
           ![p].chain = @ \o ChainOf(BatchLines(w)),
           ![p].lastSeq = @ + n,
           ![p].since = @ + n,
           ![p].pc = next]
  BY DEF SyncBatch, Acknowledge
<1>7. Grows
  <2>1. Len(file) <= SeqMax /\ \A i \in 1..Len(file) : file[i].seq = i
    BY DEF IInv, Contiguous
  <2> HIDE DEF n, w
  <2>2. torn' \in BOOLEAN /\ file' = file
    BY <1>4, <1>5
  <2>3. synced' \in synced..Len(file')
    BY <1>3, <1>5
  <2> QED BY <1>3, <2>1, <2>2, <2>3 DEF Grows
<1>8. writer' \in [Procs -> Writers]
  <2>1. next \in Labels
    BY Zenon DEF Labels
  <2> HIDE DEF next, n
  <2>2. <<>> \in Seq(Records) /\ w.lastSeq + n \in Nat /\ w.since + n \in Nat
    BY <1>3
  <2>3. w.chain \o ChainOf(BatchLines(w)) \in Seq(Nat \X Contents)
    <3>1. w.chain \in Seq(Nat \X Contents)
      BY <1>2 DEF Writers
    <3>2. ChainOf(BatchLines(w)) \in Seq(Nat \X Contents)
      BY <1>2, BatchLinesType, ChainType
    <3> QED BY <3>1, <3>2, ConcatProperties
  <2> HIDE DEF w
  <2>4. w = writer[p]
    BY DEF w
  <2> QED BY <1>2, <1>6, <2>1, <2>2, <2>3, <2>4 DEF Writers
<1>9. Aligned(writer[p])'
  <2>1. /\ writer'[p].pc = next /\ writer'[p].lastSeq = w.lastSeq + n
        /\ writer'[p].open = w.open /\ writer'[p].sealing = w.sealing
    BY <1>2, <1>6 DEF Writers
  <2>2. next \in {"recv", "checkpoint"} /\ ~w.poisoned /\ writer'[p].poisoned = w.poisoned
    BY <1>2, <1>6 DEF Aligned, Writers
  <2> HIDE DEF next
  <2> QED BY <1>4, <1>5, <2>1, <2>2 DEF Aligned, Counts
<1>10. Promises
  <2>1. req' \in [Records -> Outcomes]
    BY <1>6 DEF Answer, Outcomes, IInv, TypeOK
  <2>2. ASSUME NEW r \in Records, \E i \in acked : w.batch[i] = r
        PROVE  ackSeq'[r] \in 1..Len(file) /\ file[ackSeq'[r]].id = r
    <3>1. PICK i \in acked : w.batch[i] = r /\ ackSeq'[r] = w.lastSeq + i
      BY <1>6, <2>2
    <3>2. i \in 1..n
      OBVIOUS
    <3> HIDE DEF w, n, acked
    <3>3. w.lastSeq + i \in 1..Len(file) /\ file[w.lastSeq + i].id = w.batch[i]
      BY <1>3, <1>4, <3>2, SMTT(30)
    <3> QED BY <3>1, <3>3
  <2>3. ASSUME NEW r \in Records, ~ \E i \in acked : w.batch[i] = r
        PROVE  ackSeq'[r] = ackSeq[r]
    BY <1>6, <2>3
  <2>4. ackSeq' \in [Records -> Nat]
    <3>1. \A r \in Records : ackSeq'[r] \in Nat
      BY <1>3, <2>2, <2>3 DEF IInv, TypeOK
    <3>2. ackSeq' = [r \in Records |-> ackSeq'[r]]
      BY <1>6
    <3> QED BY <3>1, <3>2
  <2>5. ASSUME NEW r \in Records, req'[r] = "ok"
        PROVE  \/ req[r] = "ok" /\ ackSeq'[r] = ackSeq[r]
               \/ ackSeq'[r] \in 1..synced' /\ file'[ackSeq'[r]].id = r
    <3>1. CASE \E i \in acked : w.batch[i] = r
      BY <1>5, <2>2, <3>1
    <3>2. CASE ~ \E i \in acked : w.batch[i] = r
      <4>1. ~(r \in Elements(w.batch) /\ req[r] = "waiting")
        BY <3>2 DEF Elements
      <4>2. req[r] = "ok"
        BY <1>6, <2>5, <4>1 DEF Answer
      <4> QED BY <2>3, <3>2, <4>2
    <3> QED BY <3>1, <3>2
  <2>6. exports' \in SUBSET Lines /\ exports' = exports
    BY <1>5 DEF IInv, TypeOK
  <2> QED BY <2>1, <2>4, <2>5, <2>6 DEF Promises
<1>11. OwnStep(p)
  BY <1>1, <1>2, <1>5, <1>6, <1>8, <1>9 DEF OwnStep
<1> QED BY <1>1, <1>7, <1>10, <1>11, StepKeepsIInv

(* The action SyncCheckpoint preserves IInv.                                *)
LEMMA SyncCheckpointStep ==
  ASSUME IInv, NEW p \in Procs, SyncCheckpoint(p)
  PROVE  IInv'
<1> DEFINE w == writer[p]
<1> USE DEF At
<1>1. holder = p /\ \A q \in Procs \ {p} : writer[q].pc = "down"
  BY OthersDown DEF SyncCheckpoint
<1>2. writer \in [Procs -> Writers] /\ w \in Writers /\ Aligned(w) /\ w.pc = "cpsync"
  BY DEF IInv, TypeOK, WritersAligned, SyncCheckpoint
<1>3. /\ file \in Seq(Lines) /\ Len(file) \in Nat /\ synced \in 0..Len(file)
      /\ w.lastSeq \in Nat /\ w.chain \in Seq(Nat \X Contents)
  BY <1>2 DEF IInv, TypeOK, Writers
<1>4. torn = FALSE /\ Len(file) = w.lastSeq + 1 /\ ~w.poisoned /\ (w.open => ~w.sealing)
  BY <1>2 DEF Aligned, Counts
<1>5. UNCHANGED <<file, torn, holder, req, ackSeq, exports>> /\ synced' = Len(file)
  BY DEF SyncCheckpoint
<1>6. writer' = [writer EXCEPT
        ![p].pc = "export",
        ![p].chain = Append(@, Digest(CheckpointLine(w))),
        ![p].lastSeq = @ + 1,
        ![p].lastCp = w.lastSeq + 1,
        ![p].since = 0]
  BY DEF SyncCheckpoint
<1>7. Grows
  <2>1. Len(file) <= SeqMax /\ \A i \in 1..Len(file) : file[i].seq = i
    BY DEF IInv, Contiguous
  <2> HIDE DEF w
  <2>2. torn' \in BOOLEAN /\ file' = file
    BY <1>4, <1>5
  <2>3. synced' \in synced..Len(file')
    BY <1>3, <1>5
  <2> QED BY <1>3, <2>1, <2>2, <2>3 DEF Grows
<1>8. writer' \in [Procs -> Writers]
  <2>1. "export" \in Labels /\ w.lastSeq + 1 \in Nat /\ 0 \in Nat
    BY <1>3 DEF Labels
  <2>2. Append(w.chain, Digest(CheckpointLine(w))) \in Seq(Nat \X Contents)
    <3>1. CheckpointLine(w) \in Lines
      BY <1>2, CheckpointLineType
    <3>2. Digest(CheckpointLine(w)) \in Nat \X Contents
      BY <3>1 DEF Digest, Lines
    <3> QED BY <1>3, <3>2, AppendProperties
  <2> HIDE DEF w
  <2>3. w = writer[p]
    BY DEF w
  <2> QED BY <1>2, <1>6, <2>1, <2>2, <2>3 DEF Writers
<1>9. Aligned(writer[p])'
  <2>1. /\ writer'[p].pc = "export" /\ writer'[p].lastSeq = w.lastSeq + 1
        /\ writer'[p].lastCp = w.lastSeq + 1 /\ writer'[p].since = 0
        /\ writer'[p].open = w.open /\ writer'[p].sealing = w.sealing
    BY <1>2, <1>6 DEF Writers
  <2>2. ~writer'[p].poisoned
    BY <1>2, <1>4, <1>6 DEF Writers
  <2>3. writer'[p].lastCp \in 1..synced'
    BY <1>3, <1>4, <1>5, <2>1
  <2> QED BY <1>4, <1>5, <2>1, <2>2, <2>3 DEF Aligned, Counts
<1>10. Promises
  BY <1>5, PromisesUnchanged
<1>11. OwnStep(p)
  BY <1>1, <1>2, <1>5, <1>6, <1>8, <1>9 DEF OwnStep
<1> QED BY <1>1, <1>7, <1>10, <1>11, StepKeepsIInv

(* The action Export preserves IInv.                                        *)
LEMMA ExportStep ==
  ASSUME IInv, NEW p \in Procs, Export(p)
  PROVE  IInv'
<1> DEFINE w == writer[p]
<1> USE DEF At
<1>1. /\ writer \in [Procs -> Writers] /\ w \in Writers /\ Aligned(w) /\ w.pc = "export"
      /\ UNCHANGED <<file, torn, synced, holder, req, ackSeq>>
  BY DEF IInv, TypeOK, WritersAligned, Export
<1>2. /\ file \in Seq(Lines) /\ Len(file) \in Nat /\ synced \in 0..Len(file)
  BY DEF IInv, TypeOK
<1>3. /\ torn = FALSE /\ Len(file) = w.lastSeq /\ w.lastCp \in 1..synced /\ ~w.poisoned
      /\ w.since > 0 => w.lastSeq < SeqMax
      /\ w.open => ~w.sealing
  BY <1>1 DEF Aligned, Counts
<1>4. PICK l \in {"unlock", "recv"} :
        /\ writer' = [writer EXCEPT ![p].pc = l]
        /\ l = "unlock" => w.sealing
  <2>1. writer' = [writer EXCEPT ![p].pc = IF w.sealing THEN "unlock" ELSE "recv"]
    BY Zenon DEF Export
  <2> QED BY <2>1, Zenon
<1>5. writer' \in [Procs -> Writers]
  <2>1. l \in Labels
    BY DEF Labels
  <2> QED BY <1>1, <1>4, <2>1 DEF Writers
<1>6. Aligned(writer[p])'
  <2>1. /\ writer'[p].pc = l /\ writer'[p].lastSeq = w.lastSeq
        /\ writer'[p].since = w.since /\ writer'[p].poisoned = w.poisoned
        /\ writer'[p].open = w.open /\ writer'[p].sealing = w.sealing
    BY <1>1, <1>4 DEF Writers
  <2> HIDE DEF w
  <2> QED BY <1>1, <1>3, <1>4, <2>1 DEF Aligned, Counts
<1>7. Promises
  <2>1. /\ file[w.lastCp] \in Lines /\ file[w.lastCp].seq = w.lastCp /\ w.lastCp \in Nat
    BY <1>2, <1>3 DEF IInv, Contiguous
  <2>2. CASE exports' = exports \cup {file[w.lastCp]}
    BY <1>1, <1>3, <2>1, <2>2 DEF Promises, IInv, TypeOK
  <2>3. CASE UNCHANGED exports
    BY <1>1, <2>1, <2>3 DEF Promises, IInv, TypeOK
  <2> QED BY <2>2, <2>3 DEF Export
<1> QED BY <1>1, <1>4, <1>5, <1>6, <1>7, QuietStep

-----------------------------------------------------------------------------
(* Faults.                                                                  *)

(* The action Kill preserves IInv.                                          *)
LEMMA KillStep ==
  ASSUME IInv, NEW p \in Procs, Kill(p), Grows
  PROVE  IInv'
<1> USE DEF Kill, At
<1>1. \A q \in Procs \ {p} : writer[q].pc = "down"
  BY OthersDown
<1>2. Down \in Writers /\ Down.pc = "down" /\ Down.open = FALSE
  BY DEF Down, Writers, Labels
<1>3. writer' \in [Procs -> Writers]
  BY <1>2 DEF IInv, TypeOK
<1>4. Aligned(writer[p])'
  BY <1>2 DEF IInv, TypeOK, Aligned
<1>5. OwnStep(p)
  BY <1>2, <1>3, <1>4 DEF OwnStep, IInv, TypeOK
<1>6. Promises
  BY AnswerKeepsPromises DEF Outcomes
<1> QED BY <1>1, <1>5, <1>6, StepKeepsIInv

(* The action Crash preserves IInv.                                         *)
LEMMA CrashStep ==
  ASSUME IInv, NEW p \in Procs, Crash(p)
  PROVE  IInv'
BY KillStep, FileUnchanged DEF Crash, Kill

(* Dying in a write leaves part of it behind.                               *)
LEMMA CrashInWriteGrows ==
  ASSUME IInv, NEW p \in Procs, CrashInWrite(p)
  PROVE  Grows
<1> USE DEF CrashInWrite
<1>1. PICK k \in 0..Len(InFlight(p)) - 1, t \in BOOLEAN : PartialWrite(InFlight(p), k, t)
  OBVIOUS
<1>2. synced' = synced
  BY DEF Kill
<1>3. /\ torn = FALSE /\ InFlight(p) \in Seq(Lines)
      /\ Len(file) + Len(InFlight(p)) <= SeqMax
      /\ \A i \in 1..Len(InFlight(p)) : InFlight(p)[i].seq = Len(file) + i
  <2>1. CASE At(p, "checkpoint")
    <3>1. InFlight(p) = <<CheckpointLine(writer[p])>>
      BY <2>1 DEF InFlight
    <3> QED BY <2>1, <3>1, CheckpointFits
  <2>2. CASE ~At(p, "checkpoint")
    <3>1. Drained(p) /\ ~writer[p].poisoned /\ ~Exhausted(writer[p])
      BY <2>2 DEF InFlight
    <3>2. InFlight(p) = BatchLines(writer[p])
      BY <2>2, <3>1 DEF InFlight
    <3>3. InFlight(p) \in Seq(Lines) /\ Len(file) + Len(InFlight(p)) < SeqMax
      BY <3>1, <3>2, BatchFits
    <3>4. Len(file) \in Nat /\ Len(InFlight(p)) \in Nat
      BY <3>3 DEF IInv, TypeOK
    <3>5. Len(file) + Len(InFlight(p)) <= SeqMax
      BY <3>3, <3>4, JournalConstants
    <3> QED BY <3>1, <3>2, <3>5, BatchFits
  <2> QED BY <2>1, <2>2
<1> QED BY <1>1, <1>2, <1>3, PartialGrows

(* The action CrashInWrite preserves IInv.                                  *)
LEMMA CrashInWriteStep ==
  ASSUME IInv, NEW p \in Procs, CrashInWrite(p)
  PROVE  IInv'
BY CrashInWriteGrows, KillStep DEF CrashInWrite

(* A power loss keeps the synced lines, and no process survives it.         *)
LEMMA PowerLossStep ==
  ASSUME IInv, PowerLoss
  PROVE  IInv'
<1> USE DEF PowerLoss
<1>1. PICK n \in synced..Len(file) : file' = SubSeq(file, 1, n)
  OBVIOUS
<1>2. file \in Seq(Lines) /\ Len(file) \in Nat /\ synced \in 0..Len(file) /\ n \in Nat
  BY DEF IInv, TypeOK
<1>3. \A i \in 1..n : file[i] \in Lines
  BY <1>2
<1>4. file' \in Seq(Lines) /\ Len(file') = n /\ \A i \in 1..n : file'[i] = file[i]
  BY <1>1, <1>2, <1>3, SubSeqProperties
<1>5. Down \in Writers /\ Down.pc = "down" /\ Down.open = FALSE
  BY DEF Down, Writers, Labels
<1>6. /\ req' \in [Records -> Outcomes]
      /\ \A r \in Records : req'[r] = "ok" => req[r] = "ok"
  BY DEF IInv, TypeOK, Outcomes
<1>7. TypeOK'
  <2>1. torn' \in BOOLEAN /\ synced' \in 0..Len(file')
    BY <1>1, <1>2, <1>4
  <2>2. writer' \in [Procs -> Writers] /\ holder' \in Procs \cup {NoProc}
    BY <1>5
  <2>3. ackSeq' \in [Records -> Nat] /\ exports' \in SUBSET Lines
    BY DEF IInv, TypeOK
  <2> QED BY <1>4, <1>6, <2>1, <2>2, <2>3 DEF TypeOK
<1>8. Mutex' /\ WritersAligned'
  BY <1>5 DEF Mutex, At, WritersAligned, Aligned
<1>9. Contiguous'
  BY <1>1, <1>2, <1>4, JournalConstants DEF IInv, Contiguous
<1>10. AckedDurable'
  BY <1>1, <1>2, <1>4, <1>6 DEF IInv, AckedDurable, TypeOK
<1>11. ExportsBacked'
  BY <1>1, <1>2, <1>4 DEF IInv, ExportsBacked, TypeOK
<1> QED BY <1>7, <1>8, <1>9, <1>10, <1>11 DEF IInv

-----------------------------------------------------------------------------
(* The inductive invariant and what follows from it.                        *)

(* The first state satisfies IInv.                                          *)
LEMMA InitIInv == Init => IInv
<1> SUFFICES ASSUME Init PROVE IInv
  OBVIOUS
<1> USE DEF Init
<1>1. Down \in Writers /\ Down.pc = "down" /\ Down.open = FALSE
  BY DEF Down, Writers, Labels
<1>2. file \in Seq(Lines) /\ Len(file) = 0
  OBVIOUS
<1>3. TypeOK
  <2>1. torn \in BOOLEAN /\ holder \in Procs \cup {NoProc}
    OBVIOUS
  <2>2. synced \in 0..Len(file)
    BY <1>2
  <2>3. writer \in [Procs -> Writers] /\ req \in [Records -> Outcomes]
    BY <1>1 DEF Outcomes
  <2>4. ackSeq \in [Records -> Nat] /\ exports \in SUBSET Lines
    OBVIOUS
  <2> QED BY <1>2, <2>1, <2>2, <2>3, <2>4 DEF TypeOK
<1>4. Mutex /\ WritersAligned
  BY <1>1 DEF Mutex, At, WritersAligned, Aligned
<1>5. Contiguous /\ AckedDurable /\ ExportsBacked
  BY <1>2, JournalConstants DEF Contiguous, AckedDurable, ExportsBacked
<1> QED BY <1>3, <1>4, <1>5 DEF IInv

(* Every step preserves IInv: one case per action.                          *)
LEMMA NextIInv == IInv /\ [Next]_vars => IInv'
<1> SUFFICES ASSUME IInv, [Next]_vars PROVE IInv'
  OBVIOUS
<1>1. CASE UNCHANGED vars
  <2> USE <1>1 DEF vars
  <2>1. TypeOK' /\ Mutex'
    BY DEF IInv, TypeOK, Mutex, At
  <2>2. WritersAligned'
    BY DEF IInv, WritersAligned, Aligned, Counts
  <2>3. Contiguous' /\ AckedDurable' /\ ExportsBacked'
    BY DEF IInv, Contiguous, AckedDurable, ExportsBacked
  <2> QED BY <2>1, <2>2, <2>3 DEF IInv
<1>2. ASSUME NEW p \in Procs, Open(p) PROVE IInv'
  BY <1>2, LockStep, RecoverStep, RefuseStep DEF Open
<1>3. ASSUME NEW p \in Procs, WriterLoop(p) PROVE IInv'
  <2>1. CASE ReceiveRecord(p) \/ ReceiveTick(p) \/ Drain(p) \/ SealTail(p) \/ Unlock(p)
    BY <2>1, ReceiveRecordStep, ReceiveTickStep, DrainStep, SealTailStep, UnlockStep
  <2>2. CASE Write(p)
    BY <2>2, RefusePoisonedStep, RefuseExhaustedStep, WriteBatchStep, WriteFailsStep DEF Write
  <2>3. CASE Sync(p)
    BY <2>3, SyncBatchStep, SyncFailsStep DEF Sync
  <2>4. CASE Checkpoint(p)
    BY <2>4, WriteCheckpointStep, WriteCheckpointFailsStep, SyncCheckpointStep,
       SyncCheckpointFailsStep, ExportStep DEF Checkpoint
  <2> QED BY <1>3, <2>1, <2>2, <2>3, <2>4 DEF WriterLoop
<1>4. ASSUME NEW p \in Procs, PostTick(p) \/ Close(p) \/ Crash(p) \/ CrashInWrite(p)
      PROVE  IInv'
  BY <1>4, PostTickStep, CloseStep, CrashStep, CrashInWriteStep
<1>5. ASSUME NEW p \in Procs, NEW r \in Records, Enqueue(p, r) PROVE IInv'
  BY <1>5, EnqueueStep
<1>6. ASSUME NEW r \in Records, Abandon(r) PROVE IInv'
  BY <1>6, AbandonStep
<1>7. CASE PowerLoss
  BY <1>7, PowerLossStep
<1> QED BY <1>1, <1>2, <1>3, <1>4, <1>5, <1>6, <1>7 DEF Next

(* IInv is an inductive invariant of the journal: it holds initially and    *)
(* every action of every process, and every fault, preserves it.            *)
THEOREM Inductive == Spec => []IInv
BY InitIInv, NextIInv, PTL DEF Spec

(* TypeOK: the state keeps its types, through every fault.                  *)
THEOREM TypeCorrect == Spec => []TypeOK
<1>1. IInv => TypeOK
  BY DEF IInv
<1> QED BY <1>1, Inductive, PTL

(* AckedDurable: a record acknowledged to its caller is on stable storage   *)
(* under the number the caller was given, for good.                         *)
THEOREM Durability == Spec => []AckedDurable
<1>1. IInv => AckedDurable
  BY DEF IInv
<1> QED BY <1>1, Inductive, PTL

(* Contiguous: the file numbers its lines 1, 2, 3, ... whatever crashes,    *)
(* torn writes, failed syncs and restarts it went through.                  *)
THEOREM NoGaps == Spec => []Contiguous
<1>1. IInv => Contiguous
  BY DEF IInv
<1> QED BY <1>1, Inductive, PTL

(* ExportsBacked: every exported checkpoint is in the durable file.         *)
THEOREM ExportsHold == Spec => []ExportsBacked
<1>1. IInv => ExportsBacked
  BY DEF IInv
<1> QED BY <1>1, Inductive, PTL

(* WritersSound: one process past the file lock, whose numbers agree with   *)
(* the file at every step and leave one for the checkpoint it writes.       *)
THEOREM Alignment == Spec => []WritersSound
<1>1. IInv => OneWriter
  BY DEF IInv, Mutex, OneWriter, At
<1>2. IInv => WritersAligned
  BY DEF IInv
<1>3. IInv => NumbersFit
  BY DEF IInv, NumbersFit, WritersAligned, Aligned, Counts, At
<1>4. IInv => WritersSound
  BY <1>1, <1>2, <1>3 DEF WritersSound
<1> QED BY <1>4, Inductive, PTL

-----------------------------------------------------------------------------
(* Durable lines stay: what each step does to the synced prefix.            *)

Kept == synced <= synced' /\ \A i \in 1..synced : file'[i] = file[i]

(* A step that only grows the file leaves the durable lines alone.          *)
LEMMA GrowsKeeps ==
  ASSUME IInv, Grows
  PROVE  Kept
<1>1. synced \in 0..Len(file) /\ Len(file) \in Nat /\ Len(file') \in Nat
  BY DEF IInv, TypeOK, Grows
<1> QED BY <1>1 DEF Kept, Grows

(* The write of a batch, whole or in part, only grows it.                   *)
LEMMA BatchGrows ==
  ASSUME IInv, NEW p \in Procs, WriteBatch(p) \/ WriteFails(p)
  PROVE  Grows
<1>1. Drained(p) /\ ~writer[p].poisoned /\ ~Exhausted(writer[p]) /\ synced' = synced
  BY DEF WriteBatch, WriteFails
<1> DEFINE lines == BatchLines(writer[p])
<1>2. /\ torn = FALSE /\ lines \in Seq(Lines) /\ Len(lines) = Len(writer[p].batch)
      /\ Len(file) + Len(lines) < SeqMax
      /\ \A i \in 1..Len(lines) : lines[i].seq = Len(file) + i
  BY <1>1, BatchFits
<1>3. Len(file) \in Nat /\ Len(lines) \in Nat
  BY <1>2 DEF IInv, TypeOK
<1>4. Len(file) + Len(lines) <= SeqMax
  BY <1>2, <1>3, JournalConstants
<1>5. CASE WriteBatch(p)
  <2>1. file' = Appended(file, torn, lines) /\ torn' \in BOOLEAN
    BY <1>5 DEF WriteBatch
  <2> HIDE DEF lines
  <2> QED BY <1>1, <1>2, <1>4, <2>1, AppendGrows
<1>6. CASE WriteFails(p)
  <2>1. PICK k \in 0..Len(lines) - 1, t \in BOOLEAN : PartialWrite(lines, k, t)
    BY <1>2, <1>6 DEF WriteFails
  <2> HIDE DEF lines
  <2> QED BY <1>1, <1>2, <1>4, <2>1, PartialGrows
<1> QED BY <1>5, <1>6

(* So does the write of a checkpoint.                                       *)
LEMMA CheckpointGrows ==
  ASSUME IInv, NEW p \in Procs, WriteCheckpoint(p) \/ WriteCheckpointFails(p)
  PROVE  Grows
<1>1. At(p, "checkpoint") /\ synced' = synced
  BY DEF WriteCheckpoint, WriteCheckpointFails
<1> DEFINE lines == <<CheckpointLine(writer[p])>>
<1>2. /\ torn = FALSE /\ lines \in Seq(Lines) /\ Len(lines) = 1
      /\ Len(file) + Len(lines) <= SeqMax
      /\ \A i \in 1..Len(lines) : lines[i].seq = Len(file) + i
  BY <1>1, CheckpointFits
<1>3. CASE WriteCheckpoint(p)
  <2>1. file' = Appended(file, torn, lines) /\ torn' \in BOOLEAN
    BY <1>3 DEF WriteCheckpoint
  <2> HIDE DEF lines
  <2> QED BY <1>1, <1>2, <2>1, AppendGrows
<1>4. CASE WriteCheckpointFails(p)
  <2>1. PICK t \in BOOLEAN : PartialWrite(lines, 0, t)
    BY <1>4 DEF WriteCheckpointFails
  <2>2. 0 \in 0..Len(lines) - 1
    BY <1>2
  <2> HIDE DEF lines
  <2> QED BY <1>1, <1>2, <2>1, <2>2, PartialGrows
<1> QED BY <1>3, <1>4

(* So does a power loss.                                                    *)
LEMMA PowerLossKeeps ==
  ASSUME IInv, PowerLoss
  PROVE  Kept
<1>1. PICK n \in synced..Len(file) : file' = SubSeq(file, 1, n)
  BY DEF PowerLoss
<1>2. file \in Seq(Lines) /\ Len(file) \in Nat /\ synced \in 0..Len(file) /\ n \in Nat
  BY DEF IInv, TypeOK
<1>3. \A i \in 1..n : file[i] \in Lines
  BY <1>2
<1>4. \A i \in 1..n : file'[i] = file[i]
  BY <1>1, <1>2, <1>3, SubSeqProperties
<1>5. synced' = synced
  BY DEF PowerLoss
<1> QED BY <1>1, <1>2, <1>4, <1>5 DEF Kept

(* So does every step.                                                      *)
LEMMA NextKeeps ==
  ASSUME IInv, [Next]_vars
  PROVE  Kept
<1>1. synced \in 0..Len(file) /\ Len(file) \in Nat /\ torn \in BOOLEAN
  BY DEF IInv, TypeOK
<1>2. ASSUME UNCHANGED file, synced' = synced \/ synced' = Len(file) PROVE Kept
  BY <1>1, <1>2 DEF Kept
<1>3. CASE UNCHANGED vars
  BY <1>2, <1>3 DEF vars
<1>4. ASSUME NEW p \in Procs, Open(p) PROVE Kept
  BY <1>2, <1>4 DEF Open, Lock, Recover, RecoverRefuses
<1>5. ASSUME NEW p \in Procs, WriterLoop(p) PROVE Kept
  <2>1. CASE ReceiveRecord(p) \/ ReceiveTick(p) \/ Drain(p) \/ SealTail(p) \/ Unlock(p)
    BY <1>2, <2>1 DEF ReceiveRecord, ReceiveTick, Drain, SealTail, Unlock
  <2>2. CASE Write(p)
    BY <1>2, <2>2, BatchGrows, GrowsKeeps DEF Write, RefusePoisoned, RefuseExhausted
  <2>3. CASE Sync(p)
    BY <1>2, <2>3 DEF Sync, SyncBatch, SyncFails
  <2>4. CASE Checkpoint(p)
    BY <1>2, <2>4, CheckpointGrows, GrowsKeeps
       DEF Checkpoint, SyncCheckpoint, SyncCheckpointFails, Export
  <2> QED BY <1>5, <2>1, <2>2, <2>3, <2>4 DEF WriterLoop
<1>6. ASSUME NEW p \in Procs, PostTick(p) \/ Close(p) \/ Crash(p) PROVE Kept
  BY <1>2, <1>6 DEF PostTick, Close, Crash, Kill
<1>7. ASSUME NEW p \in Procs, CrashInWrite(p) PROVE Kept
  BY <1>7, CrashInWriteGrows, GrowsKeeps
<1>8. ASSUME NEW p \in Procs, NEW r \in Records, Enqueue(p, r) PROVE Kept
  BY <1>2, <1>8 DEF Enqueue
<1>9. ASSUME NEW r \in Records, Abandon(r) PROVE Kept
  BY <1>2, <1>9 DEF Abandon
<1>10. CASE PowerLoss
  BY <1>10, PowerLossKeeps
<1> QED BY <1>3, <1>4, <1>5, <1>6, <1>7, <1>8, <1>9, <1>10 DEF Next

(* DurableKept: no step, fault or recovery changes or removes a line a sync *)
(* has covered.                                                             *)
THEOREM DurablePrefixKept == Spec => DurableKept
<1>1. IInv /\ [Next]_vars => [Kept]_vars
  BY NextKeeps
<1> QED BY <1>1, Inductive, PTL DEF Spec, Kept, DurableKept

-----------------------------------------------------------------------------
(* Nothing is written twice: how a step moves records about.                 *)

\* The lines a step of p adds hold no record, or the batch p has drained, in order.
Fills(p) ==
  \A l \in 1..Len(file') :
    \/ l <= Len(file) /\ file'[l] = file[l]
    \/ l > Len(file) /\ file'[l].id \notin Records
    \/ /\ l > Len(file) /\ writer[p].pc = "drain" /\ l - Len(file) \in 1..Len(writer[p].batch)
       /\ file'[l].id = writer[p].batch[l - Len(file)]

\* d entries leave the queue at its head; only a tick joins it.
QueueFrom(p, d) ==
  \A i \in 1..Len(writer'[p].queue) :
    \/ writer'[p].queue[i] = Tick
    \/ i + d \in 1..Len(writer[p].queue) /\ writer'[p].queue[i] = writer[p].queue[i + d]

\* What joins the batch, at its end, is the record that leaves the queue.
BatchFrom(p, d) ==
  \A j \in 1..Len(writer'[p].batch) :
    \/ j \in 1..Len(writer[p].batch) /\ writer'[p].batch[j] = writer[p].batch[j]
    \/ /\ j = Len(writer'[p].batch) /\ d = 1 /\ writer[p].queue # <<>>
       /\ writer'[p].batch[j] = writer[p].queue[1]

\* A batch outside its write and sync is not in the file.
BatchOutside(p) ==
  writer'[p].pc # "sync" /\ writer'[p].batch # <<>> =>
    /\ writer[p].pc # "sync"
    /\ \A l \in 1..Len(file') : l > Len(file) => file'[l].id \notin Records

Remembers == \A r \in Records : req[r] # "idle" => req'[r] # "idle"

(* The types the records of a step have before and after it.                *)
LEMMA StepTypes ==
  ASSUME IInv, IInv', NEW p \in Procs
  PROVE  /\ writer \in [Procs -> Writers] /\ writer' \in [Procs -> Writers]
         /\ writer[p].queue \in Seq(Records \cup {Tick}) /\ writer[p].batch \in Seq(Records)
         /\ writer'[p].queue \in Seq(Records \cup {Tick}) /\ writer'[p].batch \in Seq(Records)
         /\ Len(writer[p].queue) \in Nat /\ Len(writer[p].batch) \in Nat
         /\ Len(writer'[p].queue) \in Nat /\ Len(writer'[p].batch) \in Nat
         /\ file \in Seq(Lines) /\ file' \in Seq(Lines) /\ Len(file) \in Nat /\ Len(file') \in Nat
         /\ Tick \notin Records
<1>1. /\ writer \in [Procs -> Writers] /\ writer' \in [Procs -> Writers]
      /\ file \in Seq(Lines) /\ file' \in Seq(Lines)
  BY DEF IInv, TypeOK
<1>2. writer[p] \in Writers /\ writer'[p] \in Writers
  BY <1>1
<1>3. /\ writer[p].queue \in Seq(Records \cup {Tick}) /\ writer[p].batch \in Seq(Records)
      /\ writer'[p].queue \in Seq(Records \cup {Tick}) /\ writer'[p].batch \in Seq(Records)
  BY <1>2 DEF Writers
<1> QED BY <1>1, <1>3, JournalConstants

(* The file after such a step: each record still at one place, and known.   *)
LEMMA FillsOnce ==
  ASSUME IInv, IInv', OnceInv, NEW p \in Procs, Fills(p), Remembers
  PROVE  /\ WrittenOnce' /\ WrittenKnown'
         /\ \A r \in Records : Missing(file, r) /\ (\A j \in 1..Len(writer[p].batch) : writer[p].batch[j] # r)
              => Missing(file', r)
<1>1. /\ Len(file) \in Nat /\ Len(file') \in Nat /\ Len(writer[p].batch) \in Nat
      /\ writer[p].batch \in Seq(Records)
  BY StepTypes
<1>2. TakenOnce(writer[p]) /\ WrittenOnce /\ WrittenKnown
  BY DEF OnceInv
<1>3. /\ \A i, j \in 1..Len(writer[p].batch) : writer[p].batch[i] = writer[p].batch[j] => i = j
      /\ \A j \in 1..Len(writer[p].batch) :
           /\ writer[p].batch[j] \in Records /\ req[writer[p].batch[j]] # "idle"
           /\ writer[p].pc = "drain" => \A l \in 1..Len(file) : file[l].id # writer[p].batch[j]
  BY <1>1, <1>2 DEF TakenOnce, Missing
<1>4. ASSUME NEW l \in 1..Len(file'), file'[l].id \in Records
      PROVE  \/ l \in 1..Len(file) /\ file'[l].id = file[l].id
             \/ \E j \in 1..Len(writer[p].batch) :
                  /\ l = Len(file) + j /\ file'[l].id = writer[p].batch[j]
                  /\ writer[p].pc = "drain"
  BY <1>1, <1>4 DEF Fills
<1>5. WrittenOnce'
  <2> SUFFICES ASSUME NEW i \in 1..Len(file'), NEW j \in 1..Len(file'),
                      file'[i].id \in Records, file'[i].id = file'[j].id
               PROVE  i = j
    BY DEF WrittenOnce
  <2>1. file'[j].id \in Records
    OBVIOUS
  <2>2. CASE i \in 1..Len(file) /\ file'[i].id = file[i].id
    <3>1. CASE j \in 1..Len(file) /\ file'[j].id = file[j].id
      BY <1>2, <2>2, <3>1 DEF WrittenOnce
    <3>2. CASE \E b \in 1..Len(writer[p].batch) :
                 file'[j].id = writer[p].batch[b] /\ writer[p].pc = "drain"
      BY <1>3, <2>2, <3>2
    <3> QED BY <1>4, <2>1, <3>1, <3>2
  <2>3. CASE \E a \in 1..Len(writer[p].batch) :
               i = Len(file) + a /\ file'[i].id = writer[p].batch[a] /\ writer[p].pc = "drain"
    <3>1. CASE j \in 1..Len(file) /\ file'[j].id = file[j].id
      BY <1>3, <2>3, <3>1
    <3>2. CASE \E b \in 1..Len(writer[p].batch) :
                 j = Len(file) + b /\ file'[j].id = writer[p].batch[b]
      BY <1>3, <2>3, <3>2
    <3> QED BY <1>4, <2>1, <3>1, <3>2
  <2> QED BY <1>4, <2>2, <2>3
<1>6. WrittenKnown'
  <2> SUFFICES ASSUME NEW l \in 1..Len(file'), file'[l].id \in Records
               PROVE  req'[file'[l].id] # "idle"
    BY DEF WrittenKnown
  <2>1. req[file'[l].id] # "idle"
    BY <1>2, <1>3, <1>4 DEF WrittenKnown
  <2> QED BY <2>1 DEF Remembers
<1>7. ASSUME NEW r \in Records, Missing(file, r), \A j \in 1..Len(writer[p].batch) : writer[p].batch[j] # r
      PROVE  Missing(file', r)
  <2>1. ASSUME NEW l \in 1..Len(file'), file'[l].id = r PROVE FALSE
    <3>1. file'[l].id \in Records
      BY <2>1
    <3> QED BY <1>4, <1>7, <2>1, <3>1 DEF Missing
  <2> QED BY <2>1 DEF Missing
<1> QED BY <1>5, <1>6, <1>7

LEMMA OnceMoves ==
  ASSUME IInv, IInv', OnceInv, NEW p \in Procs, NEW d \in {0, 1}, Fills(p), Remembers,
         QueueFrom(p, d), BatchFrom(p, d), BatchOutside(p),
         writer'[p].pc = "down" => writer'[p].queue = <<>> /\ writer'[p].batch = <<>>,
         \A q \in Procs \ {p} : writer'[q] = writer[q] /\ writer[q].pc = "down"
  PROVE  OnceInv'
<1>0. PICK q0, b0, q1, b1 : /\ q0 = writer[p].queue /\ b0 = writer[p].batch
                            /\ q1 = writer'[p].queue /\ b1 = writer'[p].batch
  OBVIOUS
<1>1. /\ Len(file) \in Nat /\ Len(file') \in Nat /\ Tick \notin Records
      /\ q0 \in Seq(Records \cup {Tick}) /\ q1 \in Seq(Records \cup {Tick})
      /\ b0 \in Seq(Records) /\ b1 \in Seq(Records)
      /\ Len(q0) \in Nat /\ Len(q1) \in Nat /\ Len(b0) \in Nat /\ Len(b1) \in Nat
  BY <1>0, StepTypes
<1>2. /\ WrittenOnce' /\ WrittenKnown'
      /\ \A r \in Records : Missing(file, r) /\ (\A j \in 1..Len(b0) : b0[j] # r) => Missing(file', r)
  BY <1>0, FillsOnce
<1>3. TakenOnce(writer[p])
  BY DEF OnceInv
<1>4. /\ \A i, j \in 1..Len(q0) : q0[i] \in Records /\ q0[i] = q0[j] => i = j
      /\ \A i, j \in 1..Len(b0) : b0[i] = b0[j] => i = j
      /\ \A i \in 1..Len(q0), j \in 1..Len(b0) : q0[i] # b0[j]
      /\ \A i \in 1..Len(q0) : q0[i] \in Records => req[q0[i]] # "idle" /\ Missing(file, q0[i])
      /\ \A j \in 1..Len(b0) : req[b0[j]] # "idle" /\ (writer[p].pc # "sync" => Missing(file, b0[j]))
  BY <1>0, <1>3, SMTT(30) DEF TakenOnce
<1>5. /\ \A i \in 1..Len(q1) : q1[i] = Tick \/ (i + d \in 1..Len(q0) /\ q1[i] = q0[i + d])
      /\ \A j \in 1..Len(b1) : \/ j \in 1..Len(b0) /\ b1[j] = b0[j]
                               \/ j = Len(b1) /\ d = 1 /\ q0 # <<>> /\ b1[j] = q0[1]
      /\ writer'[p].pc = "down" => q1 = <<>> /\ b1 = <<>>
  BY <1>0 DEF QueueFrom, BatchFrom
<1>6. /\ \A j \in 1..Len(b0) : b0[j] \in Records
      /\ \A j \in 1..Len(b1) : b1[j] \in Records
      /\ q0 # <<>> => 1 \in 1..Len(q0)
  BY <1>1
<1>7. ASSUME NEW i \in 1..Len(q1), NEW j \in 1..Len(q1), q1[i] \in Records, q1[i] = q1[j]
      PROVE  i = j
  <2>1. q1[i] # Tick /\ q1[j] # Tick
    BY <1>1, <1>7
  <2>2. i + d \in 1..Len(q0) /\ q1[i] = q0[i + d] /\ j + d \in 1..Len(q0) /\ q1[j] = q0[j + d]
    BY <1>5, <2>1
  <2>3. i + d = j + d
    BY <1>4, <1>7, <2>2
  <2> QED BY <2>3
<1>8. ASSUME NEW i \in 1..Len(b1), NEW j \in 1..Len(b1), b1[i] = b1[j]
      PROVE  i = j
  <2>1. ASSUME NEW k \in 1..Len(b1), NEW l \in 1..Len(b1),
               k \in 1..Len(b0), b1[k] = b0[k], q0 # <<>>, b1[l] = q0[1]
        PROVE  b1[k] # b1[l]
    BY <1>4, <1>6, <2>1
  <2>2. CASE i \in 1..Len(b0) /\ b1[i] = b0[i] /\ j \in 1..Len(b0) /\ b1[j] = b0[j]
    <3>1. i \in 1..Len(b0) /\ j \in 1..Len(b0) /\ b0[i] = b0[j]
      BY <1>8, <2>2
    <3>2. \A k, l \in 1..Len(b0) : b0[k] = b0[l] => k = l
      BY <1>4
    <3> QED BY <3>1, <3>2
  <2>3. CASE i = Len(b1) /\ j = Len(b1)
    BY <2>3
  <2> QED BY <1>5, <1>8, <2>1, <2>2, <2>3
<1>9. ASSUME NEW i \in 1..Len(q1), NEW j \in 1..Len(b1) PROVE q1[i] # b1[j]
  <2>1. CASE q1[i] = Tick
    BY <1>1, <1>6, <2>1
  <2>2. CASE i + d \in 1..Len(q0) /\ q1[i] = q0[i + d] /\ q0[i + d] \in Records
    <3>1. CASE j \in 1..Len(b0) /\ b1[j] = b0[j]
      BY <1>4, <2>2, <3>1
    <3>2. CASE d = 1 /\ q0 # <<>> /\ b1[j] = q0[1]
      <4>1. i + d # 1 /\ 1 \in 1..Len(q0)
        BY <1>1, <1>6, <3>2
      <4> QED BY <1>4, <2>2, <3>2, <4>1
    <3> QED BY <1>5, <3>1, <3>2
  <2> QED BY <1>1, <1>5, <2>1, <2>2
<1>10. \A i \in 1..Len(q1) : q1[i] \in Records => req'[q1[i]] # "idle" /\ Missing(file', q1[i])
  <2>1. ASSUME NEW i \in 1..Len(q1), q1[i] \in Records
        PROVE  /\ req[q1[i]] # "idle" /\ Missing(file, q1[i])
               /\ \A j \in 1..Len(b0) : b0[j] # q1[i]
    <3>1. i + d \in 1..Len(q0) /\ q1[i] = q0[i + d]
      BY <1>1, <1>5, <2>1
    <3> QED BY <1>4, <2>1, <3>1
  <2>2. ASSUME NEW i \in 1..Len(q1), q1[i] \in Records
        PROVE  req'[q1[i]] # "idle" /\ Missing(file', q1[i])
    BY <1>2, <2>1, <2>2 DEF Remembers
  <2> QED BY <2>2
<1>11. \A j \in 1..Len(b1) : req'[b1[j]] # "idle" /\ (writer'[p].pc # "sync" => Missing(file', b1[j]))
  <2>1. ASSUME NEW j \in 1..Len(b1)
        PROVE  /\ req[b1[j]] # "idle" /\ b1[j] \in Records
               /\ writer[p].pc # "sync" => Missing(file, b1[j])
    <3>1. CASE j \in 1..Len(b0) /\ b1[j] = b0[j]
      BY <1>4, <1>6, <3>1
    <3>2. CASE q0 # <<>> /\ b1[j] = q0[1]
      BY <1>4, <1>6, <2>1, <3>2
    <3> QED BY <1>5, <2>1, <3>1, <3>2
  <2>2. ASSUME NEW j \in 1..Len(b1), writer'[p].pc # "sync"
        PROVE  \A l \in 1..Len(file') : file'[l].id # b1[j]
    <3>1. b1 # <<>>
      BY <1>1, <2>2
    <3>2. /\ writer[p].pc # "sync"
          /\ \A l \in 1..Len(file') : l > Len(file) => file'[l].id \notin Records
      BY <1>0, <2>2, <3>1 DEF BatchOutside
    <3>3. \A l \in 1..Len(file') : l <= Len(file) => file'[l] = file[l]
      BY <1>1 DEF Fills
    <3>4. b1[j] \in Records /\ \A l \in 1..Len(file) : file[l].id # b1[j]
      BY <2>1, <3>2 DEF Missing
    <3>5. ASSUME NEW l \in 1..Len(file') PROVE file'[l].id # b1[j]
      <4>1. CASE l <= Len(file)
        BY <1>1, <3>3, <3>4, <4>1
      <4>2. CASE l > Len(file)
        BY <3>2, <3>4, <4>2
      <4> QED BY <1>1, <4>1, <4>2
    <3> QED BY <3>5
  <2> QED BY <2>1, <2>2 DEF Remembers, Missing
<1>12. TakenOnce(writer[p])'
  BY <1>0, <1>5, <1>7, <1>8, <1>9, <1>10, <1>11 DEF TakenOnce
<1>13. ASSUME NEW q \in Procs \ {p} PROVE TakenOnce(writer[q])'
  <2>1. writer[q].queue = <<>> /\ writer[q].batch = <<>> /\ writer'[q] = writer[q]
    BY DEF OnceInv, TakenOnce
  <2> QED BY <2>1 DEF TakenOnce
<1> QED BY <1>2, <1>12, <1>13 DEF OnceInv

(* A step that writes nothing.                                              *)
LEMMA QuietOnce ==
  ASSUME IInv, IInv', OnceInv, NEW p \in Procs, NEW d \in {0, 1}, file' = file, Remembers,
         QueueFrom(p, d), BatchFrom(p, d),
         writer'[p].pc # "sync" /\ writer'[p].batch # <<>> => writer[p].pc # "sync",
         writer'[p].pc = "down" => writer'[p].queue = <<>> /\ writer'[p].batch = <<>>,
         \A q \in Procs \ {p} : writer'[q] = writer[q] /\ writer[q].pc = "down"
  PROVE  OnceInv'
<1>1. Len(file) \in Nat
  BY StepTypes
<1>2. Fills(p) /\ BatchOutside(p)
  BY <1>1 DEF Fills, BatchOutside
<1> QED BY <1>2, OnceMoves

(* Some steps leave what was taken in alone, or drop it.                    *)
LEMMA QueueStays ==
  ASSUME IInv, IInv', NEW p \in Procs, writer'[p].queue \in {writer[p].queue, <<>>}
  PROVE  QueueFrom(p, 0)
BY StepTypes DEF QueueFrom

LEMMA BatchStays ==
  ASSUME IInv, IInv', NEW p \in Procs, NEW d \in {0, 1}, writer'[p].batch \in {writer[p].batch, <<>>}
  PROVE  BatchFrom(p, d)
BY StepTypes DEF BatchFrom

(* Answering, with whatever outcome, is no way back to idle.                *)
LEMMA AnswerRemembers ==
  ASSUME NEW rs, NEW outcome, outcome # "idle", Answer(rs, outcome)
  PROVE  Remembers
BY DEF Answer, Remembers

(* Opening, closing and the checkpoint's own steps touch neither.           *)
LEMMA AsideOnce ==
  ASSUME IInv, IInv', OnceInv, NEW p \in Procs,
         \/ Open(p) \/ Close(p) \/ SealTail(p) \/ Unlock(p) \/ Crash(p)
         \/ SyncCheckpoint(p) \/ Export(p)
  PROVE  OnceInv'
<1>1. /\ writer \in [Procs -> Writers] /\ writer[p] \in Writers
      /\ writer' \in [Procs -> Writers] /\ writer'[p] \in Writers
  BY StepTypes
<1>2. file' = file
  BY DEF Open, Lock, Recover, RecoverRefuses, Close, SealTail, Unlock, Crash, SyncCheckpoint, Export
<1>3. Remembers
  <2>1. CASE Crash(p)
    BY <2>1, AnswerRemembers DEF Crash, Kill
  <2>2. CASE req' = req
    BY <2>2 DEF Remembers
  <2> QED
    BY <2>1, <2>2 DEF Open, Lock, Recover, RecoverRefuses, Close, SealTail, Unlock, SyncCheckpoint, Export
<1>4. /\ Down.queue = <<>> /\ Down.batch = <<>> /\ Down.pc = "down"
      /\ Recovered(file).queue = <<>> /\ Recovered(file).batch = <<>>
      /\ Recovered(file).pc = "recv"
  BY DEF Down, Recovered
<1>5. /\ \/ writer'[p].queue = <<>> /\ writer'[p].batch = <<>>
         \/ /\ writer'[p].queue = writer[p].queue /\ writer'[p].batch = writer[p].batch
            /\ writer[p].pc # "sync" \/ writer'[p].pc = writer[p].pc
            /\ writer'[p].pc # "down"
      /\ \A q \in Procs \ {p} : writer'[q] = writer[q]
  <2>1. CASE RecoverRefuses(p) \/ Unlock(p) \/ Crash(p)
    BY <1>1, <1>4, <2>1 DEF RecoverRefuses, Unlock, Crash, Kill
  <2>2. CASE Recover(p)
    BY <1>1, <1>4, <2>2 DEF Recover
  <2>3. CASE Lock(p)
    BY <1>1, <2>3 DEF Lock, At, Writers
  <2>4. CASE Close(p)
    <3>1. writer[p].pc # "down"
      BY <2>4 DEF Close, IInv, WritersAligned, Aligned
    <3> QED BY <1>1, <2>4, <3>1 DEF Close, Writers
  <2>5. CASE SealTail(p)
    BY <1>1, <2>5, SMTT(30) DEF SealTail, EndOfChannel, At, Writers
  <2>6. CASE Export(p)
    BY <1>1, <2>6, SMTT(30) DEF Export, At, Writers
  <2>7. CASE SyncCheckpoint(p)
    BY <1>1, <2>7, ZenonT(60) DEF SyncCheckpoint, At, Writers
  <2> QED BY <2>1, <2>2, <2>3, <2>4, <2>5, <2>6, <2>7 DEF Open
<1>6. \A q \in Procs \ {p} : writer[q].pc = "down"
  <2>1. CASE Lock(p)
    BY <2>1, JournalConstants DEF Lock, IInv, Mutex, At, TypeOK
  <2>2. CASE ~At(p, "down")
    BY <2>2, OthersDown
  <2>3. Close(p) => ~At(p, "down")
    BY DEF Close, IInv, WritersAligned, Aligned, At
  <2> QED
    BY <2>1, <2>2, <2>3
       DEF Open, Recover, RecoverRefuses, SealTail, EndOfChannel, Unlock, Crash, Kill, SyncCheckpoint, Export, At
<1>7. QueueFrom(p, 0) /\ BatchFrom(p, 0)
  BY <1>5, QueueStays, BatchStays
<1> QED BY <1>2, <1>3, <1>5, <1>6, <1>7, QuietOnce

(* The receiving half of the channel: a record moves from the queue to the  *)
(* batch.                                                                   *)
LEMMA ReceiveOnce ==
  ASSUME IInv, IInv', OnceInv, NEW p \in Procs,
         PostTick(p) \/ ReceiveRecord(p) \/ ReceiveTick(p) \/ Drain(p)
  PROVE  OnceInv'
<1>1. /\ writer \in [Procs -> Writers] /\ writer[p] \in Writers
      /\ writer[p].queue \in Seq(Records \cup {Tick}) /\ writer[p].batch \in Seq(Records)
      /\ Len(writer[p].queue) \in Nat /\ Len(writer[p].batch) \in Nat
  BY StepTypes
<1>2. file' = file /\ req' = req
  BY DEF PostTick, ReceiveRecord, ReceiveTick, Drain
<1>3. Remembers
  BY <1>2 DEF Remembers
<1>4. ~At(p, "down")
  BY DEF PostTick, ReceiveRecord, ReceiveTick, Drain, IInv, WritersAligned, Aligned, At
<1>5. \A q \in Procs \ {p} : writer'[q] = writer[q] /\ writer[q].pc = "down"
  BY <1>1, <1>4, OthersDown DEF PostTick, ReceiveRecord, ReceiveTick, Drain
<1>6. writer'[p].pc # "down" /\ (writer[p].pc = "sync" => writer'[p].pc = "sync")
  BY <1>1, <1>4 DEF PostTick, ReceiveRecord, ReceiveTick, Drain, At, Writers
<1>7. CASE PostTick(p)
  <2>1. writer'[p].queue = Append(writer[p].queue, Tick) /\ writer'[p].batch = writer[p].batch
    BY <1>1, <1>7 DEF PostTick, Writers
  <2>2. QueueFrom(p, 0)
    BY <1>1, <2>1, AppendProperties DEF QueueFrom
  <2> QED BY <1>2, <1>3, <1>5, <1>6, <2>1, <2>2, BatchStays, QuietOnce
<1>8. CASE ReceiveRecord(p) \/ ReceiveTick(p) \/ Drain(p)
  <2> DEFINE Taken == /\ writer[p].queue # <<>> /\ writer'[p].queue = Tail(writer[p].queue)
                      /\ \/ writer'[p].batch = writer[p].batch
                         \/ writer'[p].batch = <<Head(writer[p].queue)>>
                         \/ writer'[p].batch = Append(writer[p].batch, Head(writer[p].queue))
  <2>0. Taken
    <3>1. CASE ReceiveRecord(p)
      BY <1>1, <3>1, SMTT(30) DEF ReceiveRecord, Writers
    <3>2. CASE ReceiveTick(p)
      BY <1>1, <3>2, ZenonT(60) DEF ReceiveTick, Writers
    <3>3. CASE Drain(p)
      BY <1>1, <3>3, ZenonT(60) DEF Drain, Writers
    <3> QED BY <1>8, <3>1, <3>2, <3>3
  <2>1. writer[p].queue # <<>> /\ writer'[p].queue = Tail(writer[p].queue)
    BY <2>0
  <2>2. \/ writer'[p].batch = writer[p].batch
        \/ writer'[p].batch = <<Head(writer[p].queue)>>
        \/ writer'[p].batch = Append(writer[p].batch, Head(writer[p].queue))
    BY <2>0
  <2>3. QueueFrom(p, 1)
    BY <1>1, <2>1, HeadTailProperties DEF QueueFrom
  <2>4. BatchFrom(p, 1)
    <3>1. CASE writer'[p].batch = writer[p].batch
      BY <3>1, BatchStays
    <3>2. CASE writer'[p].batch = <<Head(writer[p].queue)>>
      BY <1>1, <2>1, <3>2 DEF BatchFrom
    <3>3. CASE writer'[p].batch = Append(writer[p].batch, Head(writer[p].queue))
      BY <1>1, <2>1, <3>3 DEF BatchFrom
    <3> QED BY <2>2, <3>1, <3>2, <3>3
  <2> QED BY <1>2, <1>3, <1>5, <1>6, <2>3, <2>4, QuietOnce
<1> QED BY <1>7, <1>8

(* The batch is answered, acknowledged or refused, and forgotten.           *)
LEMMA AnsweredOnce ==
  ASSUME IInv, IInv', OnceInv, NEW p \in Procs, Fills(p), Remembers, ~At(p, "down"),
         writer'[p].queue = writer[p].queue, writer'[p].batch = <<>>, writer'[p].pc # "down",
         \A q \in Procs \ {p} : writer'[q] = writer[q]
  PROVE  OnceInv'
<1>1. QueueFrom(p, 0) /\ BatchFrom(p, 0) /\ BatchOutside(p)
  BY QueueStays, BatchStays DEF BatchOutside
<1>2. \A q \in Procs \ {p} : writer[q].pc = "down"
  BY OthersDown
<1> QED BY <1>1, <1>2, OnceMoves

LEMMA FailBatchFields ==
  ASSUME IInv, NEW p \in Procs, FailBatch(p)
  PROVE  /\ writer'[p].queue = writer[p].queue /\ writer'[p].batch = <<>> /\ writer'[p].pc = "recv"
         /\ \A q \in Procs \ {p} : writer'[q] = writer[q]
         /\ Remembers
<1>1. writer \in [Procs -> Writers] /\ writer[p] \in Writers
  BY DEF IInv, TypeOK
<1>2. writer' = [writer EXCEPT ![p].pc = "recv", ![p].poisoned = TRUE, ![p].batch = <<>>]
  BY DEF FailBatch
<1> QED BY <1>1, <1>2, AnswerRemembers DEF FailBatch, Writers

LEMMA NothingFills ==
  ASSUME IInv, IInv', NEW p \in Procs, file' = file
  PROVE  Fills(p)
BY StepTypes DEF Fills

LEMMA SyncOnce ==
  ASSUME IInv, IInv', OnceInv, NEW p \in Procs,
         RefusePoisoned(p) \/ RefuseExhausted(p) \/ Sync(p)
  PROVE  OnceInv'
<1>1. writer \in [Procs -> Writers] /\ writer[p] \in Writers
  BY DEF IInv, TypeOK
<1>2. file' = file /\ ~At(p, "down")
  BY DEF RefusePoisoned, RefuseExhausted, Sync, SyncBatch, SyncFails, Drained, At
<1>3. Fills(p)
  BY <1>2, NothingFills
<1>4. CASE RefuseExhausted(p) \/ SyncFails(p)
  BY <1>2, <1>3, <1>4, FailBatchFields, AnsweredOnce DEF RefuseExhausted, SyncFails
<1>5. CASE RefusePoisoned(p)
  <2>1. writer' = [writer EXCEPT ![p].pc = "recv", ![p].batch = <<>>]
    BY <1>5 DEF RefusePoisoned
  <2>2. /\ writer'[p].queue = writer[p].queue /\ writer'[p].batch = <<>> /\ writer'[p].pc = "recv"
        /\ \A q \in Procs \ {p} : writer'[q] = writer[q]
    BY <1>1, <2>1 DEF Writers
  <2>3. Remembers
    BY <1>5, AnswerRemembers DEF RefusePoisoned
  <2> QED BY <1>2, <1>3, <2>2, <2>3, AnsweredOnce
<1>6. CASE SyncBatch(p)
  <2>1. /\ writer'[p].queue = writer[p].queue /\ writer'[p].batch = <<>> /\ writer'[p].pc # "down"
        /\ \A q \in Procs \ {p} : writer'[q] = writer[q]
    BY <1>1, <1>6 DEF SyncBatch, Acknowledge, Writers
  <2>2. Remembers
    BY <1>6, AnswerRemembers DEF SyncBatch, Acknowledge
  <2> QED BY <1>2, <1>3, <2>1, <2>2, AnsweredOnce
<1> QED BY <1>4, <1>5, <1>6 DEF Sync

(* A checkpoint's lines hold no record.                                     *)
LEMMA SealFills ==
  ASSUME IInv, IInv', NEW p \in Procs, NEW q \in Procs, At(p, "checkpoint"),
         \/ file' = Appended(file, torn, <<CheckpointLine(writer[p])>>)
         \/ \E t \in BOOLEAN : PartialWrite(<<CheckpointLine(writer[p])>>, 0, t)
  PROVE  Fills(q) /\ \A l \in 1..Len(file') : l > Len(file) => file'[l].id \notin Records
<1> DEFINE line == CheckpointLine(writer[p])
<1>1. torn = FALSE
  BY DEF IInv, WritersAligned, Aligned, Counts, At
<1>2. writer[p] \in Writers /\ file \in Seq(Lines) /\ Len(file) \in Nat
  BY DEF IInv, TypeOK
<1>3. line \in Lines /\ line.id \notin Records
  BY <1>2, CheckpointLineType, JournalConstants DEF CheckpointLine
<1>4. SubSeq(<<line>>, 1, 0) = <<>>
  OBVIOUS
<1>5. file' = file \o <<line>> \/ file' = file \o <<>>
  BY <1>1, <1>4 DEF PartialWrite, Appended
<1> HIDE DEF line
<1>6. file' = Append(file, line) \/ file' = file
  BY <1>2, <1>3, <1>5
<1>7. CASE file' = file
  BY <1>2, <1>7 DEF Fills
<1>8. CASE file' = Append(file, line)
  <2>1. /\ Len(file') = Len(file) + 1 /\ file'[Len(file) + 1] = line
        /\ \A l \in 1..Len(file) : file'[l] = file[l]
    BY <1>2, <1>3, <1>8, AppendProperties
  <2>2. \A l \in 1..Len(file') : l \in 1..Len(file) \/ (l = Len(file) + 1 /\ l > Len(file))
    BY <1>2, <2>1
  <2> QED BY <1>2, <1>3, <2>1, <2>2 DEF Fills
<1> QED BY <1>6, <1>7, <1>8

LEMMA CheckpointOnce ==
  ASSUME IInv, IInv', OnceInv, NEW p \in Procs, Checkpoint(p)
  PROVE  OnceInv'
<1>1. writer \in [Procs -> Writers] /\ writer[p] \in Writers /\ "down" # "sync"
  BY DEF IInv, TypeOK
<1>2. CASE SyncCheckpoint(p) \/ Export(p)
  BY <1>2, AsideOnce
<1>3. CASE WriteCheckpoint(p) \/ WriteCheckpointFails(p) \/ SyncCheckpointFails(p)
  <2>1. writer[p].pc \in {"checkpoint", "cpsync"} /\ ~At(p, "down")
    BY <1>3 DEF WriteCheckpoint, WriteCheckpointFails, SyncCheckpointFails, At
  <2>2. Fills(p) /\ \A l \in 1..Len(file') : l > Len(file) => file'[l].id \notin Records
    <3>1. CASE SyncCheckpointFails(p)
      <4>1. file' = file /\ Len(file) \in Nat
        BY <3>1 DEF SyncCheckpointFails, IInv, TypeOK
      <4> QED BY <4>1, NothingFills
    <3>2. CASE WriteCheckpoint(p) \/ WriteCheckpointFails(p)
      BY <3>2, SealFills DEF WriteCheckpoint, WriteCheckpointFails
    <3> QED BY <1>3, <3>1, <3>2
  <2>3. CASE FailBatch(p)
    BY <2>1, <2>2, <2>3, FailBatchFields, AnsweredOnce
  <2>4. CASE req' = req /\ \E l \in {"cpsync", "unlock"} : writer' = [writer EXCEPT ![p].pc = l]
    <3>1. /\ writer'[p].queue = writer[p].queue /\ writer'[p].batch = writer[p].batch
          /\ writer'[p].pc # "down" /\ \A q \in Procs \ {p} : writer'[q] = writer[q]
      BY <1>1, <2>4 DEF Writers
    <3>2. QueueFrom(p, 0) /\ BatchFrom(p, 0) /\ BatchOutside(p) /\ Remembers
      BY <2>1, <2>2, <2>4, <3>1, QueueStays, BatchStays DEF BatchOutside, Remembers
    <3>3. \A q \in Procs \ {p} : writer[q].pc = "down"
      BY <2>1, OthersDown
    <3> QED BY <2>2, <3>1, <3>2, <3>3, OnceMoves
  <2> QED
    BY <1>3, <2>3, <2>4
       DEF WriteCheckpoint, WriteCheckpointFails, SyncCheckpointFails, CheckpointFailed
<1> QED BY <1>2, <1>3 DEF Checkpoint

(* A batch goes to the file in the order it was drained, whole or cut.      *)
LEMMA BatchFills ==
  ASSUME IInv, IInv', NEW p \in Procs, Drained(p), ~writer[p].poisoned, ~Exhausted(writer[p]),
         \/ file' = Appended(file, torn, BatchLines(writer[p]))
         \/ \E k \in 0..Len(writer[p].batch) - 1, t \in BOOLEAN : PartialWrite(BatchLines(writer[p]), k, t)
  PROVE  Fills(p)
<1>1. PICK lines, n : lines = BatchLines(writer[p]) /\ n = Len(lines)
  OBVIOUS
<1>2. /\ torn = FALSE /\ lines \in Seq(Lines) /\ n = Len(writer[p].batch) /\ n \in Nat
      /\ \A i \in 1..n : lines[i].id = writer[p].batch[i]
  BY <1>1, BatchFits, StepTypes
<1>3. file \in Seq(Lines) /\ Len(file) \in Nat /\ writer[p].pc = "drain"
  BY StepTypes DEF Drained, At
<1>4. PICK k \in 0..n, part \in Seq(Lines) : /\ Len(part) = k /\ file' = file \o part
                                             /\ \A i \in 1..k : part[i] = lines[i]
  <2>1. CASE file' = Appended(file, torn, BatchLines(writer[p]))
    <3>1. file' = file \o lines
      BY <1>1, <1>2, <2>1 DEF Appended
    <3>2. n \in 0..n /\ Len(lines) = n
      BY <1>1, <1>2
    <3> QED BY <1>2, <3>1, <3>2
  <2>2. CASE \E k \in 0..Len(writer[p].batch) - 1, t \in BOOLEAN : PartialWrite(BatchLines(writer[p]), k, t)
    <3>1. PICK k \in 0..n - 1, t \in BOOLEAN : PartialWrite(lines, k, t)
      BY <1>1, <1>2, <2>2
    <3>2. PICK part : part = SubSeq(lines, 1, k)
      OBVIOUS
    <3>3. k \in 0..n /\ n = Len(lines) /\ \A i \in 1..k : i \in 1..n
      BY <1>1, <1>2
    <3>4. \A i \in 1..k : lines[i] \in Lines
      BY <1>2, <3>3, ElementOfSeq
    <3>5. part \in Seq(Lines) /\ Len(part) = k /\ \A i \in 1..k : part[i] = lines[i]
      BY <3>2, <3>3, <3>4, SubSeqProperties
    <3>6. file' = file \o part
      BY <1>2, <3>1, <3>2 DEF PartialWrite, Appended
    <3> QED BY <3>3, <3>5, <3>6
  <2> QED BY <2>1, <2>2
<1>5. /\ Len(file') = Len(file) + k
      /\ \A l \in 1..Len(file) : file'[l] = file[l]
      /\ \A l \in 1..Len(file') : l > Len(file) => l - Len(file) \in 1..k /\ file'[l] = part[l - Len(file)]
  <2>1. /\ Len(file \o part) = Len(file) + Len(part)
        /\ \A i \in 1..Len(file) + Len(part) :
             (file \o part)[i] = IF i <= Len(file) THEN file[i] ELSE part[i - Len(file)]
    BY <1>3, <1>4, ConcatProperties
  <2> QED BY <1>3, <1>4, <2>1
<1>6. ASSUME NEW l \in 1..Len(file'), l > Len(file)
      PROVE  l - Len(file) \in 1..Len(writer[p].batch) /\ file'[l].id = writer[p].batch[l - Len(file)]
  <2>1. PICK i \in 1..k : i = l - Len(file) /\ file'[l] = part[i]
    BY <1>5, <1>6
  <2>2. i \in 1..n /\ part[i] = lines[i] /\ lines[i].id = writer[p].batch[i]
    BY <1>2, <1>4, <2>1, SMTT(30)
  <2> QED BY <1>2, <2>1, <2>2
<1> QED BY <1>3, <1>5, <1>6 DEF Fills

LEMMA WriteOnce ==
  ASSUME IInv, IInv', OnceInv, NEW p \in Procs, WriteBatch(p) \/ WriteFails(p)
  PROVE  OnceInv'
<1>1. /\ writer \in [Procs -> Writers] /\ writer[p] \in Writers
      /\ Drained(p) /\ ~writer[p].poisoned /\ ~Exhausted(writer[p]) /\ ~At(p, "down")
  BY DEF IInv, TypeOK, WriteBatch, WriteFails, Drained, At
<1>2. Fills(p)
  BY <1>1, BatchFills DEF WriteBatch, WriteFails
<1>3. CASE WriteFails(p)
  BY <1>1, <1>2, <1>3, FailBatchFields, AnsweredOnce DEF WriteFails
<1>4. CASE WriteBatch(p)
  <2>1. writer' = [writer EXCEPT ![p].pc = "sync"] /\ req' = req
    BY <1>4 DEF WriteBatch
  <2>2. /\ writer'[p].queue = writer[p].queue /\ writer'[p].batch = writer[p].batch
        /\ writer'[p].pc = "sync" /\ \A q \in Procs \ {p} : writer'[q] = writer[q]
    BY <1>1, <2>1 DEF Writers
  <2>3. QueueFrom(p, 0) /\ BatchFrom(p, 0) /\ BatchOutside(p) /\ Remembers
    BY <2>1, <2>2, QueueStays, BatchStays DEF BatchOutside, Remembers
  <2>4. \A q \in Procs \ {p} : writer[q].pc = "down"
    BY <1>1, OthersDown
  <2> QED BY <1>2, <2>2, <2>3, <2>4, OnceMoves
<1> QED BY <1>3, <1>4

(* Dying in a write leaves whole lines of it, and no queue to write them    *)
(* again from.                                                              *)
LEMMA CrashOnce ==
  ASSUME IInv, IInv', OnceInv, NEW p \in Procs, CrashInWrite(p)
  PROVE  OnceInv'
<1>1. Kill(p) /\ writer \in [Procs -> Writers] /\ ~At(p, "down")
  BY DEF IInv, TypeOK, CrashInWrite, Kill
<1>2. Fills(p)
  <2>1. CASE At(p, "checkpoint")
    <3>1. InFlight(p) = <<CheckpointLine(writer[p])>>
      BY <2>1 DEF InFlight
    <3>2. PICK k \in 0..Len(InFlight(p)) - 1, t \in BOOLEAN : PartialWrite(InFlight(p), k, t)
      BY DEF CrashInWrite
    <3>3. k = 0
      BY <3>1, <3>2
    <3> QED BY <2>1, <3>1, <3>2, <3>3, SealFills
  <2>2. CASE ~At(p, "checkpoint")
    <3>1. /\ Drained(p) /\ ~writer[p].poisoned /\ ~Exhausted(writer[p])
          /\ InFlight(p) = BatchLines(writer[p])
      BY <2>2 DEF CrashInWrite, InFlight
    <3>2. Len(BatchLines(writer[p])) = Len(writer[p].batch)
      BY <3>1, BatchFits
    <3>3. \E k \in 0..Len(writer[p].batch) - 1, t \in BOOLEAN : PartialWrite(BatchLines(writer[p]), k, t)
      BY <3>1, <3>2 DEF CrashInWrite
    <3> QED BY <3>1, <3>3, BatchFills
  <2> QED BY <2>1, <2>2
<1>3. /\ writer'[p].queue = <<>> /\ writer'[p].batch = <<>>
      /\ \A q \in Procs \ {p} : writer'[q] = writer[q]
  BY <1>1 DEF Kill, Down
<1>4. Remembers
  BY <1>1, AnswerRemembers DEF Kill
<1>5. QueueFrom(p, 0) /\ BatchFrom(p, 0) /\ BatchOutside(p)
  BY <1>3, QueueStays, BatchStays DEF BatchOutside
<1>6. \A q \in Procs \ {p} : writer[q].pc = "down"
  BY <1>1, OthersDown
<1> QED BY <1>2, <1>3, <1>4, <1>5, <1>6, OnceMoves

(* A record is handed over once: it is nowhere yet.                         *)
LEMMA EnqueueOnce ==
  ASSUME IInv, IInv', OnceInv, NEW p \in Procs, NEW r \in Records, Enqueue(p, r)
  PROVE  OnceInv'
<1>1. PICK q0, b0 : q0 = writer[p].queue /\ b0 = writer[p].batch
  OBVIOUS
<1>2. /\ writer \in [Procs -> Writers] /\ writer[p] \in Writers /\ Tick \notin Records
      /\ q0 \in Seq(Records \cup {Tick}) /\ b0 \in Seq(Records) /\ Len(q0) \in Nat /\ Len(b0) \in Nat
  BY <1>1, StepTypes
<1>3. /\ writer' = [writer EXCEPT ![p].queue = Append(writer[p].queue, r)]
      /\ req[r] = "idle" /\ req' = [req EXCEPT ![r] = "waiting"] /\ file' = file
      /\ req \in [Records -> Outcomes] /\ writer[p].pc # "down"
  BY DEF Enqueue, IInv, TypeOK, WritersAligned, Aligned
<1>4. PICK q1 : q1 = Append(q0, r)
  OBVIOUS
<1>5. /\ writer'[p].queue = q1 /\ writer'[p].batch = b0 /\ writer'[p].pc = writer[p].pc
      /\ \A q \in Procs \ {p} : writer'[q] = writer[q]
  BY <1>1, <1>2, <1>3, <1>4 DEF Writers
<1>6. /\ Len(q1) = Len(q0) + 1 /\ q1[Len(q0) + 1] = r
      /\ \A i \in 1..Len(q0) : q1[i] = q0[i]
  BY <1>2, <1>4, AppendProperties
<1>7. TakenOnce(writer[p]) /\ WrittenOnce /\ WrittenKnown
  BY DEF OnceInv
<1>8. /\ \A i, j \in 1..Len(q0) : q0[i] \in Records /\ q0[i] = q0[j] => i = j
      /\ \A i, j \in 1..Len(b0) : b0[i] = b0[j] => i = j
      /\ \A i \in 1..Len(q0), j \in 1..Len(b0) : q0[i] # b0[j]
      /\ \A i \in 1..Len(q0) : q0[i] \in Records => req[q0[i]] # "idle" /\ Missing(file, q0[i])
      /\ \A j \in 1..Len(b0) : /\ req[b0[j]] # "idle" /\ b0[j] \in Records
                               /\ writer[p].pc # "sync" => Missing(file, b0[j])
  BY <1>1, <1>2, <1>7 DEF TakenOnce
<1>9. /\ \A i \in 1..Len(q0) : q0[i] # r
      /\ \A j \in 1..Len(b0) : b0[j] # r
      /\ Missing(file, r)
  BY <1>3, <1>7, <1>8 DEF WrittenKnown, Missing
<1>10. \A i \in 1..Len(q1) : i \in 1..Len(q0) \/ i = Len(q0) + 1
  BY <1>2, <1>6
<1>11. \A i, j \in 1..Len(q1) : q1[i] \in Records /\ q1[i] = q1[j] => i = j
  BY <1>6, <1>8, <1>9, <1>10
<1>12. \A i \in 1..Len(q1), j \in 1..Len(b0) : q1[i] # b0[j]
  BY <1>6, <1>8, <1>9, <1>10
<1>13. \A x \in Records : req[x] # "idle" => req'[x] # "idle"
  BY <1>3
<1>14. \A i \in 1..Len(q1) : q1[i] \in Records => req'[q1[i]] # "idle" /\ Missing(file', q1[i])
  BY <1>3, <1>6, <1>8, <1>9, <1>10, <1>13
<1>15. \A j \in 1..Len(b0) : req'[b0[j]] # "idle" /\ (writer[p].pc # "sync" => Missing(file', b0[j]))
  BY <1>3, <1>8, <1>13
<1>16. TakenOnce(writer[p])'
  BY <1>3, <1>5, <1>8, <1>11, <1>12, <1>14, <1>15 DEF TakenOnce
<1>17. ASSUME NEW q \in Procs \ {p} PROVE TakenOnce(writer[q])'
  <2>1. writer[q].pc = "down"
    BY <1>3, OthersDown DEF At
  <2>2. writer[q].queue = <<>> /\ writer[q].batch = <<>> /\ writer'[q] = writer[q]
    BY <1>5, <2>1 DEF OnceInv, TakenOnce
  <2> QED BY <2>2 DEF TakenOnce
<1>18. WrittenOnce' /\ WrittenKnown'
  BY <1>3, <1>7, <1>13 DEF WrittenOnce, WrittenKnown
<1> QED BY <1>16, <1>17, <1>18 DEF OnceInv

(* Nothing moves, or a caller gives up.                                     *)
LEMMA StillOnce ==
  ASSUME OnceInv, UNCHANGED <<file, writer>>, Remembers, IInv
  PROVE  OnceInv'
<1>1. WrittenOnce' /\ WrittenKnown'
  BY DEF OnceInv, WrittenOnce, WrittenKnown, Remembers
<1>2. ASSUME NEW p \in Procs PROVE TakenOnce(writer[p])'
  <2>1. TakenOnce(writer[p])
    BY DEF OnceInv
  <2>2. writer[p].batch \in Seq(Records) /\ writer'[p] = writer[p]
    BY DEF IInv, TypeOK, Writers
  <2> QED BY <2>1, <2>2 DEF TakenOnce, Missing, Remembers
<1> QED BY <1>1, <1>2 DEF OnceInv

LEMMA PowerLossOnce ==
  ASSUME IInv, IInv', OnceInv, PowerLoss
  PROVE  OnceInv'
<1>1. PICK n \in synced..Len(file) : file' = SubSeq(file, 1, n)
  BY DEF PowerLoss
<1>2. file \in Seq(Lines) /\ Len(file) \in Nat /\ synced \in 0..Len(file) /\ n \in Nat
  BY DEF IInv, TypeOK
<1>3. \A i \in 1..n : file[i] \in Lines
  BY <1>2
<1>4. Len(file') = n /\ \A i \in 1..n : file'[i] = file[i] /\ i \in 1..Len(file)
  BY <1>1, <1>2, <1>3, SubSeqProperties
<1>5. Remembers
  BY DEF PowerLoss, Remembers
<1>6. WrittenOnce'
  BY <1>4 DEF OnceInv, WrittenOnce
<1>7. WrittenKnown'
  BY <1>4, <1>5 DEF OnceInv, WrittenKnown, Remembers
<1>8. ASSUME NEW p \in Procs PROVE TakenOnce(writer[p])'
  <2>1. writer'[p].queue = <<>> /\ writer'[p].batch = <<>>
    BY DEF PowerLoss, Down
  <2> QED BY <2>1 DEF TakenOnce
<1> QED BY <1>6, <1>7, <1>8 DEF OnceInv

LEMMA InitOnce == Init => OnceInv
<1> SUFFICES ASSUME Init PROVE OnceInv
  OBVIOUS
<1>1. Len(file) = 0
  BY DEF Init
<1>2. \A p \in Procs : writer[p].queue = <<>> /\ writer[p].batch = <<>>
  BY DEF Init, Down
<1> QED BY <1>1, <1>2 DEF OnceInv, WrittenOnce, WrittenKnown, TakenOnce

LEMMA NextOnce == IInv /\ OnceInv /\ [Next]_vars => OnceInv'
<1> SUFFICES ASSUME IInv, OnceInv, [Next]_vars PROVE OnceInv'
  OBVIOUS
<1>1. IInv'
  BY NextIInv
<1>2. CASE UNCHANGED vars
  BY <1>2, StillOnce DEF vars, Remembers
<1>3. ASSUME NEW p \in Procs, Open(p) \/ Close(p) \/ Crash(p) PROVE OnceInv'
  BY <1>1, <1>3, AsideOnce
<1>4. ASSUME NEW p \in Procs, WriterLoop(p) PROVE OnceInv'
  BY <1>1, <1>4, AsideOnce, ReceiveOnce, WriteOnce, SyncOnce, CheckpointOnce DEF WriterLoop, Write
<1>5. ASSUME NEW p \in Procs, PostTick(p) \/ CrashInWrite(p) PROVE OnceInv'
  BY <1>1, <1>5, ReceiveOnce, CrashOnce
<1>6. ASSUME NEW p \in Procs, NEW r \in Records, Enqueue(p, r) PROVE OnceInv'
  BY <1>1, <1>6, EnqueueOnce
<1>7. ASSUME NEW r \in Records, Abandon(r) PROVE OnceInv'
  <2>1. Remembers
    BY <1>7 DEF Abandon, Remembers, IInv, TypeOK
  <2> QED BY <1>7, <2>1, StillOnce DEF Abandon
<1>8. CASE PowerLoss
  BY <1>1, <1>8, PowerLossOnce
<1> QED BY <1>2, <1>3, <1>4, <1>5, <1>6, <1>7, <1>8 DEF Next

(* WrittenOnce: however batches are cut, refused or left behind by a crash, *)
(* and whichever process drains the queue, no record is in the file twice.  *)
THEOREM NoRecordTwice == Spec => []WrittenOnce
<1>1. OnceInv => WrittenOnce
  BY DEF OnceInv
<1> QED BY <1>1, Inductive, InitOnce, NextOnce, PTL DEF Spec
-----------------------------------------------------------------------------
(* The journal implements the audit log: what a step is to a reader who     *)
(* sees lines without their framing.                                        *)

(* The lines without their framing are a sequence of the same length.       *)
LEMMA LogOf ==
  ASSUME NEW f \in Seq(Lines)
  PROVE  LET l == [i \in 1..Len(f) |-> f[i].id] IN
         /\ l \in Seq(Records \cup {Seal, Torn}) /\ Len(l) = Len(f)
         /\ \A i \in 1..Len(f) : l[i] = f[i].id
<1>1. \A i \in 1..Len(f) : f[i].id \in Records \cup {Seal, Torn}
  <2> TAKE i \in 1..Len(f)
  <2>1. f[i] \in Lines
    BY ElementOfSeq
  <2> QED BY <2>1 DEF Lines, Contents
<1> QED BY <1>1

(* A step that touches neither lines, syncs nor answers is invisible.       *)
LEMMA LogStill ==
  ASSUME UNCHANGED <<file, synced, req, ackSeq>>
  PROVE  UNCHANGED Log!logVars
BY DEF Log!logVars

(* A step that adds lines and makes no promise is an Extend.                *)
LEMMA LogExtends ==
  ASSUME IInv, Grows, UNCHANGED <<synced, ackSeq>>,
         NEW rs \in SUBSET Records, NEW outcome \in {"failed", "lost"}, Answer(rs, outcome)
  PROVE  Log!LogNext
<1>1. /\ file \in Seq(Lines) /\ file' \in Seq(Lines) /\ Len(file) \in Nat /\ Len(file') \in Nat
      /\ Len(file) <= Len(file') /\ Len(file') <= SeqMax
      /\ \A i \in 1..Len(file) : file'[i] = file[i]
  BY DEF IInv, TypeOK, Grows
<1>2. PICK before : before = [i \in 1..Len(file) |-> file[i].id]
  OBVIOUS
<1>3. PICK after : after = [i \in 1..Len(file') |-> file'[i].id]
  OBVIOUS
<1>4. /\ before \in Seq(Records \cup {Seal, Torn}) /\ Len(before) = Len(file)
      /\ \A i \in 1..Len(file) : before[i] = file[i].id
  BY <1>1, <1>2, LogOf
<1>5. /\ after \in Seq(Records \cup {Seal, Torn}) /\ Len(after) = Len(file')
      /\ \A i \in 1..Len(file') : after[i] = file'[i].id
  BY <1>1, <1>3, LogOf
<1>6. PICK k \in 0..SeqMax - Len(file) : Len(file') = Len(file) + k
  BY <1>1, JournalConstants
<1>7. PICK lines : lines = [i \in 1..k |-> after[Len(file) + i]]
  OBVIOUS
<1>8. lines \in [1..k -> Records \cup {Seal, Torn}] /\ lines \in Seq(Records \cup {Seal, Torn})
      /\ Len(lines) = k
  <2>1. \A i \in 1..k : after[Len(file) + i] \in Records \cup {Seal, Torn}
    <3> TAKE i \in 1..k
    <3>1. Len(file) + i \in 1..Len(after)
      BY <1>1, <1>5, <1>6
    <3> QED BY <1>5, <3>1, ElementOfSeq
  <2> QED BY <1>6, <1>7, <2>1
<1>9. after = before \o lines
  <2>1. /\ before \o lines \in Seq(Records \cup {Seal, Torn})
        /\ Len(before \o lines) = Len(file) + k
        /\ \A i \in 1..Len(file) + k :
             (before \o lines)[i] = IF i <= Len(file) THEN before[i] ELSE lines[i - Len(file)]
    <3> DEFINE S == Records \cup {Seal, Torn}
    <3>1. before \in Seq(S) /\ lines \in Seq(S)
      BY <1>4, <1>8
    <3> HIDE DEF S
    <3>2. /\ before \o lines \in Seq(S) /\ Len(before \o lines) = Len(before) + Len(lines)
          /\ \A i \in 1..Len(before) + Len(lines) :
               (before \o lines)[i] = IF i <= Len(before) THEN before[i] ELSE lines[i - Len(before)]
      BY <3>1, ConcatProperties
    <3> QED BY <1>4, <1>8, <3>2 DEF S
  <2>2. \A i \in 1..Len(file) + k : after[i] = (before \o lines)[i]
    <3> TAKE i \in 1..Len(file) + k
    <3>1. CASE i <= Len(file)
      BY <1>1, <1>4, <1>5, <1>6, <2>1, <3>1
    <3>2. CASE ~(i <= Len(file))
      <4>1. i - Len(file) \in 1..k /\ Len(file) + (i - Len(file)) = i
        BY <1>1, <1>6, <3>2
      <4> QED BY <1>7, <2>1, <3>2, <4>1
    <3> QED BY <3>1, <3>2
  <2> QED BY <1>5, <1>6, <2>1, <2>2, SeqEqual
<1>10. Log!Extend(lines, rs, outcome)
  BY <1>2, <1>3, <1>9 DEF Log!Extend, Log!Unpromised, Answer
<1>11. k \in 0..SeqMax - Len([i \in 1..Len(file) |-> file[i].id])
  BY <1>2, <1>4, <1>6
<1> QED BY <1>8, <1>10, <1>11, Zenon DEF Log!LogNext

(* A refusal, with nothing written, is an Extend by no line.                *)
LEMMA LogRefuses ==
  ASSUME IInv, UNCHANGED <<file, torn, synced, ackSeq>>,
         NEW rs \in SUBSET Records, NEW outcome \in {"failed", "lost"}, Answer(rs, outcome)
  PROVE  Log!LogNext
BY FileUnchanged, LogExtends

(* A step that only writes is an Extend that refuses nobody.                *)
LEMMA LogWrites ==
  ASSUME IInv, Grows, UNCHANGED <<synced, req, ackSeq>>
  PROVE  Log!LogNext
<1>1. Answer({}, "failed")
  BY DEF Answer, IInv, TypeOK
<1> QED BY <1>1, LogExtends

(* A sync nobody waits for commits the log and answers nobody.              *)
LEMMA LogSyncs ==
  ASSUME IInv, UNCHANGED <<file, req, ackSeq>>, synced' = Len(file)
  PROVE  Log!LogNext
<1>1. Len([i \in 1..Len(file) |-> file[i].id]) = Len(file)
  BY LogOf DEF IInv, TypeOK
<1>2. req' = [r \in Records |-> IF r \in {} THEN "ok" ELSE req[r]]
  BY DEF IInv, TypeOK
<1>3. PICK at : at \in [{} -> 1..Len(file)]
  <2>1. [x \in {} |-> x] \in [{} -> 1..Len(file)]
    OBVIOUS
  <2> QED BY <2>1
<1>4. ackSeq' = [r \in Records |-> IF r \in {} THEN at[r] ELSE ackSeq[r]]
  BY DEF IInv, TypeOK
<1>5. Log!Commit({})
  BY <1>1, <1>2, <1>3, <1>4 DEF Log!Commit
<1> QED BY <1>5 DEF Log!LogNext

(* SyncBatch is a Commit of the batch's waiting callers, each told where    *)
(* its record is.                                                           *)
LEMMA LogCommits ==
  ASSUME IInv, NEW p \in Procs, SyncBatch(p)
  PROVE  Log!LogNext
<1> DEFINE w == writer[p]
           n == Len(w.batch)
           acked == {i \in 1..n : req[w.batch[i]] = "waiting"}
           rs == {w.batch[i] : i \in acked}
           l == [i \in 1..Len(file) |-> file[i].id]
           at == [r \in rs |-> w.lastSeq + CHOOSE i \in acked : w.batch[i] = r]
<1>2. w \in Writers /\ Aligned(w) /\ w.pc = "sync"
  BY DEF IInv, TypeOK, WritersAligned, SyncBatch, At
<1>3. /\ file \in Seq(Lines) /\ Len(file) \in Nat
      /\ w.batch \in Seq(Records) /\ n \in Nat /\ w.lastSeq \in Nat
  BY <1>2 DEF IInv, TypeOK, Writers
<1>4. /\ Len(file) = w.lastSeq + n
      /\ \A i \in 1..n : file[w.lastSeq + i].id = w.batch[i]
  BY <1>2 DEF Aligned, Counts
<1>5. UNCHANGED file /\ synced' = Len(file)
  BY DEF SyncBatch
<1>6. /\ Answer(Elements(w.batch), "ok")
      /\ ackSeq' = [r \in Records |->
           IF \E i \in acked : w.batch[i] = r
           THEN w.lastSeq + CHOOSE i \in acked : w.batch[i] = r
           ELSE ackSeq[r]]
  BY DEF SyncBatch, Acknowledge
<1>7. rs \in SUBSET Records
  BY <1>3
<1>8. Len(l) = Len(file) /\ \A i \in 1..Len(file) : l[i] = file[i].id
  BY <1>3, LogOf
<1>9. ASSUME NEW r \in rs
      PROVE  at[r] \in 1..Len(file) /\ l[at[r]] = r
  <2>1. PICK i \in acked : w.batch[i] = r /\ at[r] = w.lastSeq + i
    BY <1>9
  <2>2. i \in 1..n
    OBVIOUS
  <2> HIDE DEF w, n, acked, rs, l, at
  <2>3. w.lastSeq + i \in 1..Len(file)
    BY <1>3, <1>4, <2>2
  <2>4. l[w.lastSeq + i] = r
    BY <1>4, <1>8, <2>1, <2>2, <2>3
  <2> QED BY <2>1, <2>3, <2>4
<1>10. \A r \in rs : req[r] = "waiting"
  OBVIOUS
<1>11. req' = [r \in Records |-> IF r \in rs THEN "ok" ELSE req[r]]
  <2>1. \A r \in Records : (r \in Elements(w.batch) /\ req[r] = "waiting") <=> r \in rs
    BY DEF Elements
  <2> HIDE DEF w, n, acked, rs, l, at
  <2> QED BY <1>6, <2>1 DEF Answer
<1>12. ackSeq' = [r \in Records |-> IF r \in rs THEN at[r] ELSE ackSeq[r]]
  <2>1. \A r \in Records : (\E i \in acked : w.batch[i] = r) <=> r \in rs
    OBVIOUS
  <2>2. \A r \in rs : at[r] = w.lastSeq + CHOOSE i \in acked : w.batch[i] = r
    OBVIOUS
  <2> HIDE DEF w, n, acked, rs, l, at
  <2> QED BY <1>6, <2>1, <2>2
<1>13. at \in [rs -> 1..Len(l)]
  <2>1. at = [r \in rs |-> at[r]]
    OBVIOUS
  <2> HIDE DEF w, n, acked, rs, l, at
  <2> QED BY <1>8, <1>9, <2>1
<1>14. l = [i \in 1..Len(file) |-> file[i].id] /\ l' = l
  BY <1>5
<1> HIDE DEF w, n, acked, rs, l, at
<1>15. Log!Commit(rs)
  <2>1. \A r \in rs : req[r] = "waiting" /\ \E i \in 1..Len(l) : l[i] = r
    BY <1>8, <1>9, <1>10
  <2>2. \E g \in [rs -> 1..Len(l)] :
          /\ \A r \in rs : l[g[r]] = r
          /\ ackSeq' = [r \in Records |-> IF r \in rs THEN g[r] ELSE ackSeq[r]]
    BY <1>9, <1>12, <1>13
  <2>3. synced' = Len(l)
    BY <1>5, <1>8
  <2> QED BY <1>5, <1>11, <1>14, <2>1, <2>2, <2>3 DEF Log!Commit
<1> QED BY <1>7, <1>15 DEF Log!LogNext

(* A power loss takes a tail of the log that no sync covered.               *)
LEMMA LogLoses ==
  ASSUME IInv, PowerLoss
  PROVE  Log!LogNext
<1>1. PICK n \in synced..Len(file) : file' = SubSeq(file, 1, n)
  BY DEF PowerLoss
<1>2. file \in Seq(Lines) /\ Len(file) \in Nat /\ synced \in 0..Len(file) /\ n \in Nat
  BY DEF IInv, TypeOK
<1>3. \A i \in 1..n : file[i] \in Lines
  BY <1>2
<1>4. file' \in Seq(Lines) /\ Len(file') = n /\ \A i \in 1..n : file'[i] = file[i]
  BY <1>1, <1>2, <1>3, SubSeqProperties
<1>5. PICK before : before = [i \in 1..Len(file) |-> file[i].id]
  OBVIOUS
<1>6. PICK after : after = [i \in 1..Len(file') |-> file'[i].id]
  OBVIOUS
<1>7. /\ before \in Seq(Records \cup {Seal, Torn}) /\ Len(before) = Len(file)
      /\ \A i \in 1..Len(file) : before[i] = file[i].id
  BY <1>2, <1>5, LogOf
<1>8. /\ after \in Seq(Records \cup {Seal, Torn}) /\ Len(after) = n
      /\ \A i \in 1..n : after[i] = file'[i].id
  BY <1>4, <1>6, LogOf
<1>9. after = SubSeq(before, 1, n)
  <2>1. \A i \in 1..n : before[i] \in Records \cup {Seal, Torn}
    BY <1>2, <1>7
  <2>2. /\ SubSeq(before, 1, n) \in Seq(Records \cup {Seal, Torn})
        /\ Len(SubSeq(before, 1, n)) = n
        /\ \A i \in 1..n : SubSeq(before, 1, n)[i] = before[i]
    BY <1>2, <1>7, <2>1, SubSeqProperties
  <2>3. \A i \in 1..n : after[i] = SubSeq(before, 1, n)[i]
    BY <1>2, <1>4, <1>7, <1>8, <2>2
  <2> QED BY <1>8, <2>2, <2>3, SeqEqual
<1>10. n \in synced..Len(before)
  BY <1>7
<1>11. /\ UNCHANGED <<synced, ackSeq>>
       /\ req' = [r \in Records |-> IF r \in Records /\ req[r] = "waiting" THEN "lost" ELSE req[r]]
  BY DEF PowerLoss
<1>12. Log!Lose(n, Records)
  BY <1>5, <1>6, <1>9, <1>10, <1>11 DEF Log!Lose, Log!Unpromised
<1> QED BY <1>5, <1>10, <1>12 DEF Log!LogNext

(* What a process holds are records.                                        *)
LEMMA HeldRecords ==
  ASSUME NEW w \in Writers
  PROVE  Held(w) \in SUBSET Records /\ Elements(w.batch) \in SUBSET Records
BY DEF Writers, Held, Elements

(* The write of a batch, whole or in part, and its refusal.                 *)
LEMMA LogWrite ==
  ASSUME IInv, NEW p \in Procs, Write(p)
  PROVE  Log!LogNext
<1>1. Elements(writer[p].batch) \in SUBSET Records
  BY HeldRecords DEF IInv, TypeOK
<1>2. CASE RefusePoisoned(p) \/ RefuseExhausted(p)
  BY <1>1, <1>2, LogRefuses DEF RefusePoisoned, RefuseExhausted, FailBatch
<1>3. CASE WriteBatch(p) \/ WriteFails(p)
  <2>1. Grows
    BY <1>3, BatchGrows
  <2>2. CASE WriteBatch(p)
    BY <2>1, <2>2, LogWrites DEF WriteBatch
  <2>3. CASE WriteFails(p)
    BY <1>1, <2>1, <2>3, LogExtends DEF WriteFails, FailBatch
  <2> QED BY <1>3, <2>2, <2>3
<1> QED BY <1>2, <1>3 DEF Write

(* A checkpoint: written, synced, exported, or failed.                      *)
LEMMA LogCheckpoint ==
  ASSUME IInv, NEW p \in Procs, Checkpoint(p)
  PROVE  Log!LogNext \/ UNCHANGED Log!logVars
<1>1. Elements(writer[p].batch) \in SUBSET Records
  BY HeldRecords DEF IInv, TypeOK
<1>2. CASE WriteCheckpoint(p)
  BY <1>2, CheckpointGrows, LogWrites DEF WriteCheckpoint
<1>3. CASE WriteCheckpointFails(p)
  <2>1. Grows /\ UNCHANGED <<synced, ackSeq>> /\ CheckpointFailed(p)
    BY <1>3, CheckpointGrows DEF WriteCheckpointFails
  <2> QED BY <1>1, <2>1, LogWrites, LogExtends DEF CheckpointFailed, FailBatch
<1>4. CASE SyncCheckpoint(p)
  BY <1>4, LogSyncs DEF SyncCheckpoint
<1>5. CASE SyncCheckpointFails(p)
  <2>1. UNCHANGED <<file, torn, synced, ackSeq>> /\ CheckpointFailed(p)
    BY <1>5 DEF SyncCheckpointFails
  <2> QED BY <1>1, <2>1, LogStill, LogRefuses DEF CheckpointFailed, FailBatch
<1>6. CASE Export(p)
  BY <1>6, LogStill DEF Export
<1> QED BY <1>2, <1>3, <1>4, <1>5, <1>6, Zenon DEF Checkpoint

(* Every step of the journal is a step of the log or none.                  *)
LEMMA LogSteps ==
  ASSUME IInv, [Next]_vars
  PROVE  [Log!LogNext]_(Log!logVars)
<1>1. CASE UNCHANGED vars
  BY <1>1, LogStill DEF vars
<1>2. ASSUME NEW p \in Procs, Open(p) PROVE Log!LogNext \/ UNCHANGED Log!logVars
  <2>1. CASE Recover(p) /\ torn
    BY <2>1, LogSyncs DEF Recover
  <2> QED BY <1>2, <2>1, LogStill DEF Open, Lock, Recover, RecoverRefuses
<1>3. ASSUME NEW p \in Procs, WriterLoop(p) PROVE Log!LogNext \/ UNCHANGED Log!logVars
  <2>1. CASE ReceiveRecord(p) \/ ReceiveTick(p) \/ Drain(p) \/ SealTail(p) \/ Unlock(p)
    BY <2>1, LogStill DEF ReceiveRecord, ReceiveTick, Drain, SealTail, Unlock
  <2>2. CASE Sync(p)
    <3>1. Elements(writer[p].batch) \in SUBSET Records
      BY HeldRecords DEF IInv, TypeOK
    <3> QED BY <2>2, <3>1, LogCommits, LogRefuses DEF Sync, SyncFails, FailBatch
  <2> QED BY <1>3, <2>1, <2>2, LogWrite, LogCheckpoint DEF WriterLoop
<1>4. ASSUME NEW p \in Procs, PostTick(p) \/ Close(p) PROVE UNCHANGED Log!logVars
  BY <1>4, LogStill DEF PostTick, Close
<1>5. ASSUME NEW p \in Procs, Crash(p) \/ CrashInWrite(p) PROVE Log!LogNext
  <2>1. Held(writer[p]) \in SUBSET Records
    BY HeldRecords DEF IInv, TypeOK
  <2>2. CASE Crash(p)
    BY <2>1, <2>2, LogRefuses DEF Crash, Kill
  <2>3. CASE CrashInWrite(p)
    BY <2>1, <2>3, CrashInWriteGrows, LogExtends DEF CrashInWrite, Kill
  <2> QED BY <1>5, <2>2, <2>3
<1>6. ASSUME NEW p \in Procs, NEW r \in Records, Enqueue(p, r) PROVE Log!LogNext
  <2>1. Log!Submit(r)
    BY <1>6 DEF Enqueue, Log!Submit
  <2> QED BY <2>1 DEF Log!LogNext
<1>7. ASSUME NEW r \in Records, Abandon(r) PROVE Log!LogNext
  <2>1. Log!GiveUp(r)
    BY <1>7 DEF Abandon, Log!GiveUp
  <2> QED BY <2>1 DEF Log!LogNext
<1>8. CASE PowerLoss
  BY <1>8, LogLoses
<1> QED BY <1>1, <1>2, <1>3, <1>4, <1>5, <1>6, <1>7, <1>8, Zenon DEF Next

(* ImplementsAuditLog: every behaviour of the journal, faults included, is  *)
(* one the contract of AuditSink::append allows, so what is shown of the    *)
(* log holds for whoever uses the journal.                                  *)
THEOREM JournalImplementsLog == Spec => ImplementsAuditLog
<1>1. Init => Log!LogInit
  <2>1. Init => [i \in 1..Len(file) |-> file[i].id] = <<>>
    BY DEF Init
  <2> QED BY <2>1 DEF Init, Log!LogInit
<1>2. IInv /\ [Next]_vars => [Log!LogNext]_(Log!logVars)
  BY LogSteps
<1> QED BY <1>1, <1>2, Inductive, PTL DEF Spec, ImplementsAuditLog, Log!LogSpec

-----------------------------------------------------------------------------
(* The journal and its verifier.  What the writers leave in the file is     *)
(* what the verifier recomputes.                                            *)

\* Line i is sealed over everything in front of it, or a record's.
Sound(f, i) ==
  IF f[i].id = Seal
  THEN /\ f[i].chain = ChainOf(Before(f, i))
       /\ f[i].prev = LastCheckpoint(Before(f, i)) /\ f[i].from = f[i].prev + 1
  ELSE f[i] = RecordLine(i, f[i].id)

\* What a writer keeps in memory is what the lines it has numbered come to.
Tracks(w) ==
  /\ w.lastSeq <= Len(file)
  /\ w.chain = ChainOf(SubSeq(file, 1, w.lastSeq))
  /\ w.lastCp = LastCheckpoint(SubSeq(file, 1, w.lastSeq))

Chained(w) ==
  w.pc \notin {"down", "locked"} =>
    Tracks(w) /\ (w.pc = "cpsync" => file[w.lastSeq + 1].id = Seal)

FileSound == \A i \in 1..Len(file) : Sound(file, i)

ExportsSeal == \A e \in exports : e.id = Seal

SealInv == FileSound /\ ExportsSeal /\ \A p \in Procs : Chained(writer[p])

(* The first n lines of a file.                                             *)
LEMMA Prefix ==
  ASSUME NEW f \in Seq(Lines), NEW n \in 0..Len(f)
  PROVE  /\ SubSeq(f, 1, n) \in Seq(Lines) /\ Len(SubSeq(f, 1, n)) = n
         /\ \A i \in 1..n : SubSeq(f, 1, n)[i] = f[i]
<1>1. \A i \in 1..n : f[i] \in Lines
  OBVIOUS
<1> QED BY <1>1, SubSeqProperties

LEMMA PrefixWhole ==
  ASSUME NEW f \in Seq(Lines)
  PROVE  SubSeq(f, 1, Len(f)) = f
<1>1. Len(f) \in 0..Len(f)
  OBVIOUS
<1>2. PICK g : g = SubSeq(f, 1, Len(f))
  OBVIOUS
<1>3. g \in Seq(Lines) /\ Len(g) = Len(f) /\ \A i \in 1..Len(f) : g[i] = f[i]
  BY <1>1, <1>2, Prefix
<1>4. g = f
  BY <1>3, SeqEqual
<1> QED BY <1>2, <1>4

LEMMA PrefixSame ==
  ASSUME NEW f \in Seq(Lines), NEW g \in Seq(Lines), NEW n \in 0..Len(f), n <= Len(g),
         \A i \in 1..n : g[i] = f[i]
  PROVE  SubSeq(g, 1, n) = SubSeq(f, 1, n)
<1>1. PICK a, b : a = SubSeq(f, 1, n) /\ b = SubSeq(g, 1, n)
  OBVIOUS
<1>2. n \in 0..Len(g)
  OBVIOUS
<1>3. /\ a \in Seq(Lines) /\ Len(a) = n /\ \A i \in 1..n : a[i] = f[i]
      /\ b \in Seq(Lines) /\ Len(b) = n /\ \A i \in 1..n : b[i] = g[i]
  BY <1>1, <1>2, Prefix
<1>4. a = b
  BY <1>3, SeqEqual
<1> QED BY <1>1, <1>4

LEMMA BeforeSame ==
  ASSUME NEW f \in Seq(Lines), NEW g \in Seq(Lines), NEW i \in 1..Len(f), i <= Len(g) + 1,
         \A j \in 1..(i - 1) : g[j] = f[j]
  PROVE  Before(g, i) = Before(f, i)
<1>1. i - 1 \in 0..Len(f) /\ i - 1 <= Len(g)
  OBVIOUS
<1> QED BY <1>1, PrefixSame DEF Before

\* What the verifier recomputes depends on numbers and contents only.
LEMMA SameDigests ==
  ASSUME NEW f \in Seq(Lines), NEW g \in Seq(Lines), Len(f) = Len(g),
         \A i \in 1..Len(f) : f[i].seq = g[i].seq /\ f[i].id = g[i].id
  PROVE  ChainOf(f) = ChainOf(g) /\ LastCheckpoint(f) = LastCheckpoint(g)
<1>1. \A i \in 1..Len(f) : Digest(f[i]) = Digest(g[i])
  BY DEF Digest
<1>2. Checkpoints(f) = Checkpoints(g)
  BY DEF Checkpoints
<1>3. ChainOf(f) = ChainOf(g)
  BY <1>1 DEF ChainOf
<1>4. LastCheckpoint(f) = LastCheckpoint(g)
  <2>1. \A j \in Checkpoints(f) : j \in Nat \ {0}
    BY DEF Checkpoints
  <2>2. LastCheckpoint(f) \in Nat /\ LastCheckpoint(g) \in Nat
    BY LastCheckpointType
  <2> QED BY <1>2, <2>1, <2>2, LastCheckpointType
<1> QED BY <1>3, <1>4

LEMMA SoundSame ==
  ASSUME NEW f \in Seq(Lines), NEW g \in Seq(Lines), NEW i \in 1..Len(f), i <= Len(g),
         \A j \in 1..i : g[j] = f[j], Sound(f, i)
  PROVE  Sound(g, i)
<1>1. i <= Len(g) + 1 /\ (\A j \in 1..(i - 1) : g[j] = f[j]) /\ g[i] = f[i]
  OBVIOUS
<1>2. Before(g, i) = Before(f, i)
  BY <1>1, BeforeSame
<1> QED BY <1>1, <1>2 DEF Sound

(* The last checkpoint of a file.                                           *)
LEMMA LastCheckpointIs ==
  ASSUME NEW f \in Seq(Lines), NEW n \in Checkpoints(f), \A j \in Checkpoints(f) : j <= n
  PROVE  LastCheckpoint(f) = n
<1>1. Checkpoints(f) \subseteq Nat
  BY DEF Checkpoints
<1>2. ASSUME NEW m \in Checkpoints(f), \A j \in Checkpoints(f) : j <= m PROVE m = n
  BY <1>1, <1>2
<1> QED BY <1>2, Zenon DEF LastCheckpoint

-----------------------------------------------------------------------------
(* Steps of the journal keep SealInv.                                       *)

\* The lines a step of p adds: records, or the one checkpoint p is writing.
Adds(p) ==
  \A l \in 1..Len(file') : l > Len(file) =>
    \/ \E r \in Records : file'[l] = RecordLine(l, r)
    \/ l = Len(file) + 1 /\ At(p, "checkpoint") /\ file'[l] = CheckpointLine(writer[p])

LEMMA AddsSound ==
  ASSUME IInv, IInv', SealInv, Grows, NEW p \in Procs, Adds(p)
  PROVE  FileSound'
<1>1. /\ file \in Seq(Lines) /\ file' \in Seq(Lines) /\ Len(file) \in Nat /\ Len(file') \in Nat
      /\ Len(file) <= Len(file') /\ \A i \in 1..Len(file) : file'[i] = file[i]
  BY DEF IInv, TypeOK, Grows
<1> SUFFICES ASSUME NEW l \in 1..Len(file') PROVE Sound(file', l)
  BY DEF FileSound
<1>2. CASE l <= Len(file)
  <2>1. l \in 1..Len(file) /\ Sound(file, l)
    BY <1>1, <1>2 DEF SealInv, FileSound
  <2>2. \A j \in 1..l : file'[j] = file[j]
    BY <1>1, <2>1
  <2> QED BY <1>1, <2>1, <2>2, SoundSame
<1>3. CASE l > Len(file) /\ \E r \in Records : file'[l] = RecordLine(l, r)
  <2>1. PICK r \in Records : file'[l] = RecordLine(l, r)
    BY <1>3
  <2>2. file'[l].id = r /\ r # Seal
    BY <2>1, JournalConstants DEF RecordLine
  <2> QED BY <2>1, <2>2 DEF Sound
<1>4. CASE l = Len(file) + 1 /\ At(p, "checkpoint") /\ file'[l] = CheckpointLine(writer[p])
  <2>1. /\ writer[p] \in Writers /\ Len(file) = writer[p].lastSeq /\ Tracks(writer[p])
    BY <1>4, CheckpointFits DEF SealInv, Chained, At, IInv, TypeOK
  <2>2. SubSeq(file, 1, Len(file)) = file
    BY <1>1, PrefixWhole
  <2>3. Before(file', l) = file
    <3>1. Len(file) \in 0..Len(file) /\ l - 1 = Len(file)
      BY <1>1, <1>4
    <3>2. SubSeq(file', 1, Len(file)) = SubSeq(file, 1, Len(file))
      BY <1>1, <3>1, PrefixSame
    <3> QED BY <2>2, <3>1, <3>2 DEF Before
  <2>4. writer[p].chain = ChainOf(file) /\ writer[p].lastCp = LastCheckpoint(file)
    BY <2>1, <2>2 DEF Tracks
  <2>5. /\ file'[l].id = Seal /\ file'[l].chain = writer[p].chain
        /\ file'[l].prev = writer[p].lastCp /\ file'[l].from = writer[p].lastCp + 1
    BY <1>4 DEF CheckpointLine
  <2> QED BY <2>3, <2>4, <2>5 DEF Sound
<1> QED BY <1>1, <1>2, <1>3, <1>4 DEF Adds

\* A writer that has numbered nothing new still tracks a file that grew.
LEMMA TracksGrows ==
  ASSUME IInv, Grows, NEW p \in Procs, NEW q \in Procs, Tracks(writer[p]),
         writer'[q].lastSeq = writer[p].lastSeq, writer'[q].chain = writer[p].chain,
         writer'[q].lastCp = writer[p].lastCp
  PROVE  Tracks(writer[q])'
<1>1. PICK n : n = writer[p].lastSeq
  OBVIOUS
<1>2. /\ file \in Seq(Lines) /\ file' \in Seq(Lines) /\ Len(file) \in Nat /\ Len(file') \in Nat
      /\ n \in Nat /\ n <= Len(file) /\ Len(file) <= Len(file')
      /\ \A i \in 1..Len(file) : file'[i] = file[i]
  <2>1. writer[p] \in Writers
    BY DEF IInv, TypeOK
  <2>2. n \in Nat
    BY <1>1, <2>1 DEF Writers
  <2> QED BY <1>1, <2>2 DEF IInv, TypeOK, Grows, Tracks
<1>3. n \in 0..Len(file) /\ n <= Len(file') /\ \A i \in 1..n : file'[i] = file[i]
  BY <1>2
<1>4. SubSeq(file', 1, n) = SubSeq(file, 1, n)
  BY <1>2, <1>3, PrefixSame
<1> QED BY <1>1, <1>3, <1>4 DEF Tracks

\* The frame of a step of one process.
Alone(p) == \A q \in Procs \ {p} : writer'[q] = writer[q] /\ writer[q].pc = "down"

LEMMA SealMoves ==
  ASSUME SealInv, NEW p \in Procs, Alone(p), FileSound', ExportsSeal', Chained(writer[p])'
  PROVE  SealInv'
<1> SUFFICES ASSUME NEW q \in Procs PROVE Chained(writer[q])'
  BY DEF SealInv
<1>1. CASE q = p
  BY <1>1
<1>2. CASE q # p
  BY <1>2 DEF Alone, Chained
<1> QED BY <1>1, <1>2

\* A step that adds lines and numbers none yet.
Keeps(p) ==
  \/ writer'[p].pc \in {"down", "locked"}
  \/ /\ writer[p].pc \notin {"down", "locked"} /\ writer'[p].lastSeq = writer[p].lastSeq
     /\ writer'[p].chain = writer[p].chain /\ writer'[p].lastCp = writer[p].lastCp
     /\ writer'[p].pc = "cpsync" =>
          writer[p].pc = "cpsync" \/ file'[writer[p].lastSeq + 1].id = Seal

LEMMA SealKeeps ==
  ASSUME IInv, IInv', SealInv, NEW p \in Procs, Alone(p), Grows, Adds(p), Keeps(p),
         exports' = exports
  PROVE  SealInv'
<1>1. FileSound'
  BY AddsSound
<1>2. ExportsSeal'
  BY DEF SealInv, ExportsSeal
<1>3. Chained(writer[p])'
  <2>1. CASE writer'[p].pc \in {"down", "locked"}
    BY <2>1 DEF Chained
  <2>2. CASE /\ writer[p].pc \notin {"down", "locked"} /\ writer'[p].lastSeq = writer[p].lastSeq
             /\ writer'[p].chain = writer[p].chain /\ writer'[p].lastCp = writer[p].lastCp
             /\ writer'[p].pc = "cpsync" =>
                  writer[p].pc = "cpsync" \/ file'[writer[p].lastSeq + 1].id = Seal
    <3>1. Tracks(writer[p]) /\ (writer[p].pc = "cpsync" => file[writer[p].lastSeq + 1].id = Seal)
      BY <2>2 DEF SealInv, Chained
    <3>2. Tracks(writer[p])'
      BY <2>2, <3>1, TracksGrows
    <3>3. writer[p].pc = "cpsync" => file'[writer[p].lastSeq + 1].id = Seal
      <4>1. writer[p].pc = "cpsync" => Len(file) = writer[p].lastSeq + 1 /\ Len(file) \in Nat
        BY DEF IInv, WritersAligned, Aligned, Counts, TypeOK
      <4>2. writer[p].lastSeq \in Nat
        BY DEF IInv, TypeOK, Writers
      <4> QED BY <3>1, <4>1, <4>2 DEF Grows
    <3> QED BY <2>2, <3>2, <3>3 DEF Chained
  <2> QED BY <2>1, <2>2 DEF Keeps
<1> QED BY <1>1, <1>2, <1>3, SealMoves

LEMMA NothingAdds ==
  ASSUME IInv, NEW p \in Procs, file' = file
  PROVE  Adds(p)
<1>1. Len(file) \in Nat /\ Len(file') = Len(file)
  BY DEF IInv, TypeOK
<1> QED BY <1>1 DEF Adds

(* Steps that leave the file and the exports alone.                         *)
LEMMA QuietSeal ==
  ASSUME IInv, IInv', SealInv, NEW p \in Procs, Alone(p), file' = file, exports' = exports,
         synced' \in synced..Len(file), Keeps(p)
  PROVE  SealInv'
<1>1. Grows
  BY DEF IInv, TypeOK, Contiguous, Grows
<1> QED BY <1>1, NothingAdds, SealKeeps

\* The fields of a writer that its queue, its batch and its answers leave alone.
LEMMA KeepsFields ==
  ASSUME IInv, NEW p \in Procs, ~At(p, "down"), ~At(p, "locked"), NEW w \in Writers,
         writer' = [writer EXCEPT ![p] = w], w.lastSeq = writer[p].lastSeq, w.chain = writer[p].chain,
         w.lastCp = writer[p].lastCp, w.pc = "cpsync" => writer[p].pc = "cpsync"
  PROVE  Alone(p) /\ Keeps(p)
<1>1. writer \in [Procs -> Writers] /\ \A q \in Procs \ {p} : writer[q].pc = "down"
  BY OthersDown DEF IInv, TypeOK
<1>2. writer'[p] = w /\ \A q \in Procs \ {p} : writer'[q] = writer[q]
  BY <1>1
<1> QED BY <1>1, <1>2 DEF Alone, Keeps, At

\* A writer goes down, or to the lock.
LEMMA DownSeal ==
  ASSUME IInv, NEW p \in Procs, Lock(p) \/ RecoverRefuses(p) \/ Unlock(p) \/ Kill(p)
  PROVE  Alone(p) /\ Keeps(p)
<1>1. writer \in [Procs -> Writers] /\ writer[p] \in Writers
  BY DEF IInv, TypeOK
<1>2. \A q \in Procs \ {p} : writer[q].pc = "down"
  <2>1. CASE Lock(p)
    BY <2>1, JournalConstants DEF Lock, IInv, Mutex, At
  <2>2. CASE ~At(p, "down")
    BY <2>2, OthersDown
  <2> QED BY <2>1, <2>2 DEF RecoverRefuses, Unlock, Kill, At
<1>3. CASE Lock(p)
  <2>1. writer'[p].pc = "locked" /\ \A q \in Procs \ {p} : writer'[q] = writer[q]
    BY <1>1, <1>3 DEF Lock, Writers
  <2> QED BY <1>2, <2>1 DEF Alone, Keeps
<1>4. CASE RecoverRefuses(p) \/ Unlock(p) \/ Kill(p)
  <2>1. writer' = [writer EXCEPT ![p] = Down] /\ Down.pc = "down"
    BY <1>4 DEF RecoverRefuses, Unlock, Kill, Down
  <2>2. writer'[p].pc = "down" /\ \A q \in Procs \ {p} : writer'[q] = writer[q]
    BY <1>1, <2>1
  <2> QED BY <1>2, <2>2 DEF Alone, Keeps
<1> QED BY <1>3, <1>4

LEMMA FailBatchKeeps ==
  ASSUME IInv, NEW p \in Procs, ~At(p, "down"), ~At(p, "locked"), FailBatch(p)
  PROVE  Alone(p) /\ Keeps(p)
<1>1. writer \in [Procs -> Writers] /\ writer[p] \in Writers
  BY DEF IInv, TypeOK
<1>2. PICK w : w = [writer[p] EXCEPT !.pc = "recv", !.poisoned = TRUE, !.batch = <<>>]
  OBVIOUS
<1>3. writer' = [writer EXCEPT ![p].pc = "recv", ![p].poisoned = TRUE, ![p].batch = <<>>]
  BY DEF FailBatch
<1>4. /\ w \in Writers /\ w.lastSeq = writer[p].lastSeq /\ w.chain = writer[p].chain
      /\ w.lastCp = writer[p].lastCp /\ w.pc = "recv"
  <2>1. "recv" \in Labels /\ <<>> \in Seq(Records)
    BY DEF Labels
  <2> QED BY <1>1, <1>2, <2>1 DEF Writers
<1>5. writer' = [writer EXCEPT ![p] = w]
  BY <1>1, <1>2, <1>3 DEF Writers
<1> QED BY <1>4, <1>5, KeepsFields

LEMMA LabelKeeps ==
  ASSUME IInv, NEW p \in Procs, ~At(p, "down"), ~At(p, "locked"), NEW l \in Labels,
         writer' = [writer EXCEPT ![p].pc = l], l = "cpsync" => writer[p].pc = "cpsync"
  PROVE  Alone(p) /\ Keeps(p)
<1>1. writer \in [Procs -> Writers] /\ writer[p] \in Writers
  BY DEF IInv, TypeOK
<1>2. PICK w : w = [writer[p] EXCEPT !.pc = l]
  OBVIOUS
<1>3. /\ w \in Writers /\ w.lastSeq = writer[p].lastSeq /\ w.chain = writer[p].chain
      /\ w.lastCp = writer[p].lastCp /\ w.pc = l
  BY <1>1, <1>2 DEF Writers
<1>4. writer' = [writer EXCEPT ![p] = w]
  BY <1>1, <1>2 DEF Writers
<1> QED BY <1>3, <1>4, KeepsFields

LEMMA CheckpointFailedKeeps ==
  ASSUME IInv, NEW p \in Procs, ~At(p, "down"), ~At(p, "locked"), CheckpointFailed(p)
  PROVE  Alone(p) /\ Keeps(p)
<1>1. "unlock" \in Labels /\ "unlock" # "cpsync"
  BY DEF Labels
<1> QED BY <1>1, LabelKeeps, FailBatchKeeps DEF CheckpointFailed

\* The queue and the batch.
LEMMA QueueKeeps ==
  ASSUME IInv, IInv', NEW p \in Procs,
         \/ PostTick(p) \/ Close(p) \/ ReceiveRecord(p) \/ ReceiveTick(p) \/ Drain(p)
         \/ SealTail(p) \/ RefusePoisoned(p) \/ \E r \in Records : Enqueue(p, r)
  PROVE  Alone(p) /\ Keeps(p)
<1>1. /\ writer \in [Procs -> Writers] /\ writer[p] \in Writers
      /\ writer' \in [Procs -> Writers] /\ writer'[p] \in Writers
  BY DEF IInv, TypeOK
<1>2. ~At(p, "down") /\ ~At(p, "locked")
  BY DEF PostTick, Close, Enqueue, ReceiveRecord, ReceiveTick, Drain, SealTail, EndOfChannel,
     RefusePoisoned, Drained, IInv, WritersAligned, Aligned, At
<1>3. \A q \in Procs \ {p} : writer[q].pc = "down"
  BY <1>2, OthersDown
<1>4. CASE PostTick(p) \/ Close(p) \/ \E r \in Records : Enqueue(p, r)
  <2>1. /\ writer'[p].lastSeq = writer[p].lastSeq /\ writer'[p].chain = writer[p].chain
        /\ writer'[p].lastCp = writer[p].lastCp /\ writer'[p].pc = writer[p].pc
        /\ \A q \in Procs \ {p} : writer'[q] = writer[q]
    BY <1>1, <1>4 DEF PostTick, Close, Enqueue, Writers
  <2> QED BY <1>2, <1>3, <2>1 DEF Alone, Keeps, At
<1>5. CASE ReceiveRecord(p) \/ ReceiveTick(p) \/ Drain(p) \/ SealTail(p) \/ RefusePoisoned(p)
  <2>1. /\ writer'[p].lastSeq = writer[p].lastSeq /\ writer'[p].chain = writer[p].chain
        /\ writer'[p].lastCp = writer[p].lastCp /\ writer'[p].pc # "cpsync"
        /\ \A q \in Procs \ {p} : writer'[q] = writer[q]
    <3>1. CASE ReceiveRecord(p)
      BY <1>1, <3>1, SMTT(30) DEF ReceiveRecord, Writers
    <3>2. CASE ReceiveTick(p)
      BY <1>1, <3>2, ZenonT(60) DEF ReceiveTick, Writers
    <3>3. CASE Drain(p)
      BY <1>1, <3>3, ZenonT(60) DEF Drain, At, Writers
    <3>4. CASE SealTail(p)
      BY <1>1, <3>4, SMTT(30) DEF SealTail, Writers
    <3>5. CASE RefusePoisoned(p)
      BY <1>1, <3>5, SMTT(30) DEF RefusePoisoned, Writers
    <3> QED BY <1>5, <3>1, <3>2, <3>3, <3>4, <3>5
  <2> QED BY <1>2, <1>3, <2>1 DEF Alone, Keeps, At
<1> QED BY <1>4, <1>5

LEMMA SyncedStays ==
  ASSUME IInv
  PROVE  synced \in synced..Len(file) /\ Len(file) \in synced..Len(file)
BY DEF IInv, TypeOK

(* Every step that leaves the file alone and numbers no line.               *)
LEMMA AsideSeal ==
  ASSUME IInv, IInv', SealInv, NEW p \in Procs,
         \/ Lock(p) \/ RecoverRefuses(p) \/ PostTick(p) \/ Close(p) \/ ReceiveRecord(p) \/ ReceiveTick(p)
         \/ Drain(p) \/ SealTail(p) \/ Unlock(p) \/ Crash(p) \/ RefusePoisoned(p) \/ RefuseExhausted(p)
         \/ SyncFails(p) \/ SyncCheckpointFails(p) \/ \E r \in Records : Enqueue(p, r)
  PROVE  SealInv'
<1>1. file' = file /\ exports' = exports /\ synced' = synced
  BY DEF Lock, RecoverRefuses, PostTick, Close, ReceiveRecord, ReceiveTick, Drain, SealTail, Unlock,
     Crash, Kill, RefusePoisoned, RefuseExhausted, SyncFails, SyncCheckpointFails, Enqueue
<1>2. Alone(p) /\ Keeps(p)
  <2>1. CASE Lock(p) \/ RecoverRefuses(p) \/ Unlock(p) \/ Crash(p)
    BY <2>1, DownSeal DEF Crash
  <2>2. CASE \/ PostTick(p) \/ Close(p) \/ ReceiveRecord(p) \/ ReceiveTick(p) \/ Drain(p)
             \/ SealTail(p) \/ RefusePoisoned(p) \/ \E r \in Records : Enqueue(p, r)
    BY <2>2, QueueKeeps
  <2>3. CASE RefuseExhausted(p) \/ SyncFails(p)
    BY <2>3, FailBatchKeeps DEF RefuseExhausted, SyncFails, Drained, At
  <2>4. CASE SyncCheckpointFails(p)
    BY <2>4, CheckpointFailedKeeps DEF SyncCheckpointFails, At
  <2> QED BY <2>1, <2>2, <2>3, <2>4
<1> QED BY <1>1, <1>2, SyncedStays, QuietSeal

(* Recovery recomputes what the lines on disk come to.                      *)
LEMMA RecoverSeal ==
  ASSUME IInv, IInv', SealInv, NEW p \in Procs, Recover(p)
  PROVE  SealInv'
<1>1. writer \in [Procs -> Writers] /\ file \in Seq(Lines) /\ file' = file /\ exports' = exports /\ At(p, "locked")
  BY DEF IInv, TypeOK, Recover
<1>2. \A q \in Procs \ {p} : writer[q].pc = "down"
  BY <1>1, OthersDown DEF At
<1>3. writer'[p] = Recovered(file) /\ \A q \in Procs \ {p} : writer'[q] = writer[q]
  BY <1>1 DEF Recover
<1>4. /\ Recovered(file).pc = "recv" /\ Recovered(file).lastSeq = Len(file)
      /\ Recovered(file).chain = ChainOf(file) /\ Recovered(file).lastCp = LastCheckpoint(file)
  <2>1. PICK n, s, c, m : n = Len(file) /\ c = ChainOf(file) /\ m = LastCheckpoint(file) /\ s = Len(file) - LastCheckpoint(file)
    OBVIOUS
  <2>2. Recovered(file) = [Down EXCEPT !.pc = "recv", !.open = TRUE, !.lastSeq = n, !.chain = c,
                                       !.lastCp = m, !.since = s]
    BY <2>1, Zenon DEF Recovered
  <2>3. /\ Recovered(file).pc = "recv" /\ Recovered(file).lastSeq = n
        /\ Recovered(file).chain = c /\ Recovered(file).lastCp = m
    BY <2>2 DEF Down
  <2> QED BY <2>1, <2>3
<1>5. SubSeq(file, 1, Len(file)) = file /\ Len(file) <= Len(file)
  BY <1>1, PrefixWhole
<1>6. PICK w : w = Recovered(file)
  OBVIOUS
<1>7. w.pc = "recv" /\ w.lastSeq = Len(file) /\ w.chain = ChainOf(file) /\ w.lastCp = LastCheckpoint(file)
  BY <1>4, <1>6
<1>8. Chained(writer[p])'
  BY <1>1, <1>3, <1>5, <1>6, <1>7 DEF Chained, Tracks
<1>9. FileSound' /\ ExportsSeal'
  BY <1>1 DEF SealInv, FileSound, ExportsSeal
<1> QED BY <1>2, <1>3, <1>8, <1>9, SealMoves DEF Alone

\* One line more.
LEMMA OneMore ==
  ASSUME NEW f \in Seq(Lines), NEW n \in 0..Len(f), n < Len(f)
  PROVE  ChainOf(SubSeq(f, 1, n + 1)) = Append(ChainOf(SubSeq(f, 1, n)), Digest(f[n + 1]))
<1>1. PICK a, b : a = SubSeq(f, 1, n) /\ b = SubSeq(f, 1, n + 1)
  OBVIOUS
<1>2. n + 1 \in 0..Len(f) /\ n \in Nat
  OBVIOUS
<1>3. /\ a \in Seq(Lines) /\ Len(a) = n /\ \A i \in 1..n : a[i] = f[i]
      /\ b \in Seq(Lines) /\ Len(b) = n + 1 /\ \A i \in 1..(n + 1) : b[i] = f[i]
  BY <1>1, <1>2, Prefix
<1>4. PICK c, d : c = ChainOf(a) /\ d = ChainOf(b)
  OBVIOUS
<1>5. /\ c \in Seq(Nat \X Contents) /\ d \in Seq(Nat \X Contents)
      /\ Len(c) = n /\ Len(d) = n + 1
      /\ \A i \in 1..n : c[i] = Digest(f[i])
      /\ \A i \in 1..(n + 1) : d[i] = Digest(f[i])
  <2>1. c \in Seq(Nat \X Contents) /\ d \in Seq(Nat \X Contents)
    BY <1>3, <1>4, ChainType
  <2> QED BY <1>2, <1>3, <1>4, <2>1 DEF ChainOf
<1>6. Digest(f[n + 1]) \in Nat \X Contents
  BY <1>2, <1>5
<1>7. PICK e : e = Append(c, Digest(f[n + 1]))
  OBVIOUS
<1>8. /\ e \in Seq(Nat \X Contents) /\ Len(e) = n + 1
      /\ \A i \in 1..n : e[i] = c[i] 
      /\ e[n + 1] = Digest(f[n + 1])
  BY <1>2, <1>5, <1>6, <1>7, AppendProperties
<1>9. \A i \in 1..(n + 1) : e[i] = d[i]
  <2>1. \A i \in 1..(n + 1) : i \in 1..n \/ i = n + 1
    BY <1>2
  <2>2. n + 1 \in 1..(n + 1) /\ \A i \in 1..n : i \in 1..(n + 1)
    BY <1>2
  <2> QED BY <1>5, <1>8, <2>1, <2>2
<1>10. e = d
  BY <1>5, <1>8, <1>9, SeqEqual
<1> QED BY <1>1, <1>4, <1>7, <1>10

LEMMA SyncCheckpointSeal ==
  ASSUME IInv, IInv', SealInv, NEW p \in Procs, SyncCheckpoint(p)
  PROVE  SealInv'
<1>1. PICK w, c, n : w = writer[p] /\ c = Append(w.chain, Digest(CheckpointLine(w))) /\ n = w.lastSeq
  OBVIOUS
<1>2. /\ writer \in [Procs -> Writers] /\ w \in Writers /\ w.pc = "cpsync" /\ file \in Seq(Lines)
      /\ Len(file) \in Nat /\ file' = file /\ exports' = exports
  BY <1>1 DEF IInv, TypeOK, SyncCheckpoint, At
<1>3. n \in Nat /\ Len(file) = n + 1 /\ n \in 0..Len(file) /\ n < Len(file)
  <2>1. n \in Nat
    BY <1>1, <1>2 DEF Writers
  <2>2. Len(file) = n + 1
    BY <1>1, <1>2 DEF IInv, WritersAligned, Aligned, Counts
  <2> QED BY <2>1, <2>2
<1>4. /\ w.chain = ChainOf(SubSeq(file, 1, n)) /\ w.lastCp = LastCheckpoint(SubSeq(file, 1, n))
      /\ file[n + 1].id = Seal
  BY <1>1, <1>2 DEF SealInv, Chained, Tracks
<1>5. \A q \in Procs \ {p} : writer[q].pc = "down"
  BY <1>1, <1>2, OthersDown DEF At
<1>6. /\ writer'[p].pc = "export" /\ writer'[p].chain = c /\ writer'[p].lastSeq = n + 1
      /\ writer'[p].lastCp = n + 1 /\ \A q \in Procs \ {p} : writer'[q] = writer[q]
  <2>1. PICK m : m = n + 1
    OBVIOUS
  <2>2. writer' = [writer EXCEPT ![p].pc = "export", ![p].chain = c, ![p].lastSeq = m, ![p].lastCp = m, ![p].since = 0]
    BY <1>1, <2>1, Zenon DEF SyncCheckpoint
  <2> QED BY <1>1, <1>2, <2>1, <2>2 DEF Writers
<1>7. file[n + 1].seq = n + 1
  BY <1>3 DEF IInv, Contiguous
<1>8. Digest(CheckpointLine(w)) = Digest(file[n + 1])
  BY <1>1, <1>4, <1>7 DEF Digest, CheckpointLine
<1>9. c = ChainOf(SubSeq(file, 1, n + 1))
  BY <1>1, <1>2, <1>3, <1>4, <1>8, OneMore
<1>10. SubSeq(file, 1, n + 1) = file
  BY <1>2, <1>3, PrefixWhole
<1>11. LastCheckpoint(file) = n + 1
  <2>1. n + 1 \in Checkpoints(file) /\ \A j \in Checkpoints(file) : j <= n + 1
    BY <1>3, <1>4 DEF Checkpoints
  <2> QED BY <1>2, <2>1, LastCheckpointIs
<1>12. n + 1 <= Len(file)
  BY <1>3
<1>13. Chained(writer[p])'
  BY <1>2, <1>6, <1>9, <1>10, <1>11, <1>12 DEF Chained, Tracks
<1>14. FileSound' /\ ExportsSeal'
  BY <1>2 DEF SealInv, FileSound, ExportsSeal
<1> QED BY <1>5, <1>6, <1>13, <1>14, SealMoves DEF Alone

LEMMA ExportSeal ==
  ASSUME IInv, IInv', SealInv, NEW p \in Procs, Export(p)
  PROVE  SealInv'
<1>1. /\ writer \in [Procs -> Writers] /\ writer[p] \in Writers /\ writer[p].pc = "export"
      /\ file \in Seq(Lines) /\ Len(file) \in Nat /\ file' = file /\ synced' = synced
  BY DEF IInv, TypeOK, Export, At
<1>2. Alone(p) /\ Keeps(p)
  <2>1. PICK l \in {"unlock", "recv"} : writer' = [writer EXCEPT ![p].pc = l]
    BY Zenon DEF Export
  <2>2. l \in Labels /\ l # "cpsync"
    BY DEF Labels
  <2> QED BY <1>1, <2>1, <2>2, LabelKeeps DEF At
<1>3. Grows
  BY <1>1, SyncedStays DEF IInv, TypeOK, Contiguous, Grows
<1>4. FileSound'
  BY <1>1, <1>3, NothingAdds, AddsSound
<1>5. file[writer[p].lastCp].id = Seal
  <2>1. PICK n, m : n = writer[p].lastSeq /\ m = writer[p].lastCp
    OBVIOUS
  <2>2. /\ n = Len(file) /\ m \in 1..synced /\ m = LastCheckpoint(SubSeq(file, 1, n))
    BY <1>1, <2>1 DEF SealInv, Chained, Tracks, IInv, WritersAligned, Aligned, Counts
  <2>3. m = LastCheckpoint(file) /\ m # 0
    <3>1. SubSeq(file, 1, Len(file)) = file
      BY <1>1, PrefixWhole
    <3>2. synced \in Nat
      BY DEF IInv, TypeOK
    <3>3. m = LastCheckpoint(file)
      BY <2>2, <3>1, Zenon
    <3>4. m # 0
      BY <2>2, <3>2
    <3> QED BY <3>3, <3>4
  <2>4. m \in Checkpoints(file)
    BY <1>1, <2>3, LastCheckpointType
  <2> QED BY <2>1, <2>4 DEF Checkpoints
<1>6. ExportsSeal'
  BY <1>5 DEF Export, SealInv, ExportsSeal
<1>7. Chained(writer[p])'
  <2>1. Tracks(writer[p])
    BY <1>1 DEF SealInv, Chained
  <2>2. /\ writer'[p].lastSeq = writer[p].lastSeq /\ writer'[p].chain = writer[p].chain
        /\ writer'[p].lastCp = writer[p].lastCp /\ writer'[p].pc # "cpsync"
    <3>1. PICK l \in {"unlock", "recv"} : writer' = [writer EXCEPT ![p].pc = l]
      BY Zenon DEF Export
    <3> QED BY <1>1, <3>1 DEF Writers
  <2>3. Tracks(writer[p])'
    BY <1>3, <2>1, <2>2, TracksGrows
  <2> QED BY <2>2, <2>3 DEF Chained
<1> QED BY <1>2, <1>4, <1>6, <1>7, SealMoves

(* The batch just synced is what the chain goes on with.                    *)
LEMMA BatchChain ==
  ASSUME IInv, SealInv, NEW p \in Procs, At(p, "sync")
  PROVE  /\ writer[p].chain \o ChainOf(BatchLines(writer[p])) = ChainOf(file)
         /\ writer[p].lastCp = LastCheckpoint(file)
<1>1. PICK w, n, k, lines, a, c, d :
        /\ w = writer[p] /\ n = w.lastSeq /\ k = Len(w.batch) /\ lines = BatchLines(w)
        /\ a = SubSeq(file, 1, n) /\ c = ChainOf(a) /\ d = ChainOf(lines)
  OBVIOUS
<1>2. /\ w \in Writers /\ w.pc = "sync" /\ file \in Seq(Lines) /\ Len(file) \in Nat
  BY <1>1 DEF IInv, TypeOK, At
<1>3. n \in Nat /\ k \in Nat /\ w.batch \in Seq(Records)
  BY <1>1, <1>2 DEF Writers
<1>4. Len(file) = n + k /\ \A i \in 1..k : file[n + i].id = w.batch[i]
  BY <1>1, <1>2 DEF IInv, WritersAligned, Aligned, Counts
<1>5. w.chain = c /\ w.lastCp = LastCheckpoint(a)
  BY <1>1, <1>2 DEF SealInv, Chained, Tracks
<1>6. n \in 0..Len(file) /\ \A i \in 1..Len(file) : file[i].seq = i
  BY <1>3, <1>4 DEF IInv, Contiguous
<1>7. a \in Seq(Lines) /\ Len(a) = n /\ \A i \in 1..n : a[i] = file[i]
  BY <1>1, <1>2, <1>6, Prefix
<1>8. /\ lines \in Seq(Lines) /\ Len(lines) = k
      /\ \A i \in 1..k : lines[i].seq = n + i /\ lines[i].id = w.batch[i]
  BY <1>1, <1>2, BatchLinesType
<1>9. \A i \in 1..k : Digest(lines[i]) = Digest(file[n + i])
  <2> TAKE i \in 1..k
  <2>1. n + i \in 1..Len(file)
    BY <1>3, <1>4
  <2>2. file[n + i].seq = n + i
    BY <1>6, <2>1
  <2> QED BY <1>4, <1>8, <2>2 DEF Digest
<1>10. PICK full : full = ChainOf(file)
  OBVIOUS
<1>11. /\ c \in Seq(Nat \X Contents) /\ d \in Seq(Nat \X Contents) /\ full \in Seq(Nat \X Contents)
  BY <1>1, <1>2, <1>7, <1>8, <1>10, ChainType
<1>12. /\ Len(c) = n /\ Len(d) = k /\ Len(full) = n + k
       /\ \A i \in 1..n : c[i] = Digest(file[i])
       /\ \A i \in 1..k : d[i] = Digest(lines[i])
       /\ \A i \in 1..(n + k) : full[i] = Digest(file[i])
  BY <1>1, <1>3, <1>4, <1>7, <1>8, <1>10 DEF ChainOf
<1>13. PICK e : e = c \o d
  OBVIOUS
<1>14. /\ e \in Seq(Nat \X Contents) /\ Len(e) = n + k
       /\ \A i \in 1..(n + k) : e[i] = IF i <= n THEN c[i] ELSE d[i - n]
  <2>1. /\ e \in Seq(Nat \X Contents) /\ Len(e) = Len(c) + Len(d)
        /\ \A i \in 1..(Len(c) + Len(d)) : e[i] = IF i <= Len(c) THEN c[i] ELSE d[i - Len(c)]
    BY <1>11, <1>13, ConcatProperties
  <2> QED BY <1>12, <2>1
<1>15. ASSUME NEW i \in 1..(n + k) PROVE e[i] = full[i]
  <2>1. CASE i <= n
    <3>1. i \in 1..n
      BY <1>3, <2>1
    <3> QED BY <1>12, <1>14, <2>1, <3>1
  <2>2. CASE ~(i <= n)
    <3>1. PICK j \in 1..k : i = n + j /\ j = i - n
      <4>1. i - n \in 1..k /\ i = n + (i - n)
        BY <1>3, <2>2
      <4> QED BY <4>1
    <3>2. e[i] = d[j]
      BY <1>14, <2>2, <3>1
    <3> QED BY <1>9, <1>12, <3>1, <3>2
  <2> QED BY <2>1, <2>2
<1>16. e = full
  BY <1>11, <1>12, <1>14, <1>15, SeqEqual
<1>17. LastCheckpoint(a) = LastCheckpoint(file)
  <2>1. ASSUME NEW i \in 1..Len(file), file[i].id = Seal PROVE i \in 1..n
    <3>1. SUFFICES ASSUME ~(i <= n) PROVE FALSE
      BY <1>3
    <3>2. PICK j \in 1..k : i = n + j
      <4>1. i - n \in 1..k /\ i = n + (i - n)
        BY <1>3, <1>4, <3>1
      <4> QED BY <4>1
    <3>3. file[i].id \in Records
      BY <1>1, <1>3, <1>4, <3>2
    <3> QED BY <2>1, <3>3, JournalConstants
  <2>2. \A i \in 1..n : i \in 1..Len(file)
    BY <1>6
  <2>3. Checkpoints(a) = Checkpoints(file)
    BY <1>7, <2>1, <2>2 DEF Checkpoints
  <2>4. \A j \in Checkpoints(a) : j \in Nat \ {0}
    BY <1>7 DEF Checkpoints
  <2>5. LastCheckpoint(a) \in Nat /\ LastCheckpoint(file) \in Nat
    BY <1>2, <1>7, LastCheckpointType
  <2> QED BY <1>2, <1>7, <2>3, <2>4, <2>5, LastCheckpointType
<1> QED BY <1>1, <1>5, <1>10, <1>13, <1>16, <1>17

LEMMA SyncBatchSeal ==
  ASSUME IInv, IInv', SealInv, NEW p \in Procs, SyncBatch(p)
  PROVE  SealInv'
<1>1. PICK w, c, n, b, l :
        /\ w = writer[p] /\ c = w.chain \o ChainOf(BatchLines(w)) /\ n = w.lastSeq + Len(w.batch)
        /\ b = w.since + Len(w.batch)
        /\ l = IF w.since + Len(w.batch) >= EveryRecords THEN "checkpoint" ELSE "recv"
  OBVIOUS
<1>2. /\ writer \in [Procs -> Writers] /\ w \in Writers /\ w.pc = "sync" /\ file \in Seq(Lines)
      /\ Len(file) \in Nat /\ file' = file /\ exports' = exports
  BY <1>1 DEF IInv, TypeOK, SyncBatch, At
<1>3. Len(file) = n
  BY <1>1, <1>2 DEF IInv, WritersAligned, Aligned, Counts
<1>4. c = ChainOf(file) /\ w.lastCp = LastCheckpoint(file)
  BY <1>1, <1>2, BatchChain DEF At
<1>5. \A q \in Procs \ {p} : writer[q].pc = "down"
  BY <1>1, <1>2, OthersDown DEF At
<1>6. /\ writer'[p].pc \in {"checkpoint", "recv"} /\ writer'[p].chain = c /\ writer'[p].lastSeq = n
      /\ writer'[p].lastCp = w.lastCp /\ \A q \in Procs \ {p} : writer'[q] = writer[q]
  <2>1. writer' = [writer EXCEPT ![p].batch = <<>>, ![p].chain = c, ![p].lastSeq = n, ![p].since = b, ![p].pc = l]
    BY <1>1, Zenon DEF SyncBatch, Acknowledge
  <2>2. l \in {"checkpoint", "recv"}
    BY <1>1, Zenon
  <2> QED BY <1>1, <1>2, <2>1, <2>2 DEF Writers
<1>7. SubSeq(file, 1, Len(file)) = file /\ Len(file) <= Len(file)
  BY <1>2, PrefixWhole
<1>8. Chained(writer[p])'
  BY <1>2, <1>3, <1>4, <1>6, <1>7 DEF Chained, Tracks
<1>9. FileSound' /\ ExportsSeal'
  BY <1>2 DEF SealInv, FileSound, ExportsSeal
<1> QED BY <1>5, <1>6, <1>8, <1>9, SealMoves DEF Alone

(* The lines of a batch, whole or cut, are record lines.                    *)
LEMMA BatchAdds ==
  ASSUME IInv, IInv', NEW p \in Procs, Drained(p), ~writer[p].poisoned, ~Exhausted(writer[p]),
         \/ file' = Appended(file, torn, BatchLines(writer[p]))
         \/ \E k \in 0..Len(writer[p].batch) - 1, t \in BOOLEAN : PartialWrite(BatchLines(writer[p]), k, t)
  PROVE  Adds(p)
<1>1. PICK lines, n : lines = BatchLines(writer[p]) /\ n = Len(lines)
  OBVIOUS
<1>2. /\ torn = FALSE /\ lines \in Seq(Lines) /\ n = Len(writer[p].batch) /\ n \in Nat
      /\ Len(file) = writer[p].lastSeq /\ file \in Seq(Lines) /\ Len(file) \in Nat
      /\ writer[p].batch \in Seq(Records)
  BY <1>1, BatchFits, StepTypes
<1>3. \A i \in 1..n : lines[i] = RecordLine(Len(file) + i, writer[p].batch[i]) /\ writer[p].batch[i] \in Records
  BY <1>1, <1>2 DEF BatchLines
<1>4. PICK k \in 0..n, part \in Seq(Lines) : /\ Len(part) = k /\ file' = file \o part
                                             /\ \A i \in 1..k : part[i] = lines[i]
  <2>1. CASE file' = Appended(file, torn, BatchLines(writer[p]))
    <3>1. file' = file \o lines
      BY <1>1, <1>2, <2>1 DEF Appended
    <3>2. n \in 0..n /\ Len(lines) = n
      BY <1>1, <1>2
    <3> QED BY <1>2, <3>1, <3>2
  <2>2. CASE \E k \in 0..Len(writer[p].batch) - 1, t \in BOOLEAN : PartialWrite(BatchLines(writer[p]), k, t)
    <3>1. PICK k \in 0..n - 1, t \in BOOLEAN : PartialWrite(lines, k, t)
      BY <1>1, <1>2, <2>2
    <3>2. PICK part : part = SubSeq(lines, 1, k)
      OBVIOUS
    <3>3. k \in 0..n /\ n = Len(lines)
      BY <1>1, <1>2
    <3>4. part \in Seq(Lines) /\ Len(part) = k /\ \A i \in 1..k : part[i] = lines[i]
      BY <1>2, <3>2, <3>3, Prefix
    <3>5. file' = file \o part
      BY <1>2, <3>1, <3>2 DEF PartialWrite, Appended
    <3> QED BY <3>3, <3>4, <3>5
  <2> QED BY <2>1, <2>2
<1>5. Len(file') = Len(file) + k /\ \A l \in 1..Len(file') : l > Len(file) => file'[l] = part[l - Len(file)]
  <2>1. /\ Len(file \o part) = Len(file) + Len(part)
        /\ \A i \in 1..Len(file) + Len(part) :
             (file \o part)[i] = IF i <= Len(file) THEN file[i] ELSE part[i - Len(file)]
    BY <1>2, <1>4, ConcatProperties
  <2> QED BY <1>2, <1>4, <2>1
<1>6. ASSUME NEW l \in 1..Len(file'), l > Len(file)
      PROVE  \E r \in Records : file'[l] = RecordLine(l, r)
  <2>1. PICK i \in 1..k : i = l - Len(file) /\ l = Len(file) + i
    <3>1. l - Len(file) \in 1..k /\ l = Len(file) + (l - Len(file))
      BY <1>2, <1>4, <1>5, <1>6
    <3> QED BY <3>1
  <2>2. file'[l] = part[i]
    BY <1>5, <1>6, <2>1
  <2>3. i \in 1..n /\ part[i] = lines[i]
    BY <1>2, <1>4
  <2>4. file'[l] = RecordLine(l, writer[p].batch[i]) /\ writer[p].batch[i] \in Records
    BY <1>3, <2>1, <2>2, <2>3
  <2> QED BY <2>4
<1> QED BY <1>6 DEF Adds

(* A checkpoint's write adds its line, or nothing.                          *)
LEMMA CheckpointAdds ==
  ASSUME IInv, IInv', NEW p \in Procs, At(p, "checkpoint"),
         \/ file' = Appended(file, torn, <<CheckpointLine(writer[p])>>)
         \/ \E t \in BOOLEAN : PartialWrite(<<CheckpointLine(writer[p])>>, 0, t)
  PROVE  /\ Adds(p)
         /\ file' = Appended(file, torn, <<CheckpointLine(writer[p])>>) =>
              file'[writer[p].lastSeq + 1].id = Seal
<1>1. PICK line : line = CheckpointLine(writer[p])
  OBVIOUS
<1>2. torn = FALSE /\ Len(file) = writer[p].lastSeq
  BY CheckpointFits
<1>3. writer[p] \in Writers /\ file \in Seq(Lines) /\ Len(file) \in Nat
  BY DEF IInv, TypeOK
<1>4. line \in Lines /\ line.id = Seal
  BY <1>1, <1>3, CheckpointLineType DEF CheckpointLine
<1>5. SubSeq(<<line>>, 1, 0) = <<>>
  OBVIOUS
<1>6. CASE file' = Appended(file, torn, <<CheckpointLine(writer[p])>>)
  <2>1. file' = file \o <<line>>
    BY <1>1, <1>2, <1>6 DEF Appended
  <2>2. file' = Append(file, line)
    BY <1>3, <1>4, <2>1
  <2>3. Len(file') = Len(file) + 1 /\ file'[Len(file) + 1] = line
    BY <1>3, <1>4, <2>2, AppendProperties
  <2>4. \A l \in 1..Len(file') : l > Len(file) => l = Len(file) + 1
    BY <1>3, <2>3
  <2> QED BY <1>1, <1>2, <1>4, <2>3, <2>4 DEF Adds
<1>7. CASE file' # Appended(file, torn, <<CheckpointLine(writer[p])>>)
  <2>1. file' = file \o <<>>
    BY <1>1, <1>2, <1>5, <1>7 DEF PartialWrite, Appended
  <2>2. file' = file
    BY <1>3, <2>1
  <2> QED BY <1>7, <2>2, NothingAdds
<1> QED BY <1>6, <1>7

LEMMA WriteSeal ==
  ASSUME IInv, IInv', SealInv, NEW p \in Procs, WriteBatch(p) \/ WriteFails(p)
  PROVE  SealInv'
<1>1. Drained(p) /\ ~writer[p].poisoned /\ ~Exhausted(writer[p]) /\ exports' = exports
  BY DEF WriteBatch, WriteFails
<1>2. Adds(p)
  BY <1>1, BatchAdds DEF WriteBatch, WriteFails
<1>3. Alone(p) /\ Keeps(p)
  <2>1. ~At(p, "down") /\ ~At(p, "locked") /\ "sync" \in Labels /\ "sync" # "cpsync"
    BY <1>1 DEF Drained, At, Labels
  <2> QED BY <2>1, LabelKeeps, FailBatchKeeps DEF WriteBatch, WriteFails
<1> QED BY <1>1, <1>2, <1>3, BatchGrows, SealKeeps

LEMMA WriteCheckpointSeal ==
  ASSUME IInv, IInv', SealInv, NEW p \in Procs, WriteCheckpoint(p) \/ WriteCheckpointFails(p)
  PROVE  SealInv'
<1>1. At(p, "checkpoint") /\ exports' = exports /\ ~At(p, "down") /\ ~At(p, "locked")
  BY DEF WriteCheckpoint, WriteCheckpointFails, At
<1>2. Adds(p)
  BY <1>1, CheckpointAdds DEF WriteCheckpoint, WriteCheckpointFails
<1>3. Alone(p) /\ Keeps(p)
  <2>1. CASE WriteCheckpointFails(p)
    BY <1>1, <2>1, CheckpointFailedKeeps DEF WriteCheckpointFails
  <2>2. CASE WriteCheckpoint(p)
    <3>1. writer \in [Procs -> Writers] /\ writer[p] \in Writers /\ \A q \in Procs \ {p} : writer[q].pc = "down"
      BY <1>1, OthersDown DEF IInv, TypeOK
    <3>2. writer' = [writer EXCEPT ![p].pc = "cpsync"]
      BY <2>2 DEF WriteCheckpoint
    <3>3. /\ writer'[p].lastSeq = writer[p].lastSeq /\ writer'[p].chain = writer[p].chain
          /\ writer'[p].lastCp = writer[p].lastCp /\ \A q \in Procs \ {p} : writer'[q] = writer[q]
      BY <3>1, <3>2 DEF Writers
    <3>4. file'[writer[p].lastSeq + 1].id = Seal
      BY <1>1, <2>2, CheckpointAdds DEF WriteCheckpoint
    <3> QED BY <1>1, <3>1, <3>3, <3>4 DEF Alone, Keeps, At
  <2> QED BY <2>1, <2>2
<1> QED BY <1>1, <1>2, <1>3, CheckpointGrows, SealKeeps

LEMMA CrashInWriteSeal ==
  ASSUME IInv, IInv', SealInv, NEW p \in Procs, CrashInWrite(p)
  PROVE  SealInv'
<1>1. Adds(p)
  <2>1. CASE At(p, "checkpoint")
    <3>1. InFlight(p) = <<CheckpointLine(writer[p])>>
      BY <2>1 DEF InFlight
    <3>2. PICK k \in 0..Len(InFlight(p)) - 1, t \in BOOLEAN : PartialWrite(InFlight(p), k, t)
      BY DEF CrashInWrite
    <3>3. k = 0
      BY <3>1, <3>2
    <3> QED BY <2>1, <3>1, <3>2, <3>3, CheckpointAdds
  <2>2. CASE ~At(p, "checkpoint")
    <3>1. /\ Drained(p) /\ ~writer[p].poisoned /\ ~Exhausted(writer[p])
          /\ InFlight(p) = BatchLines(writer[p])
      BY <2>2 DEF CrashInWrite, InFlight
    <3>2. Len(BatchLines(writer[p])) = Len(writer[p].batch)
      BY <3>1, BatchFits
    <3>3. \E k \in 0..Len(writer[p].batch) - 1, t \in BOOLEAN : PartialWrite(BatchLines(writer[p]), k, t)
      BY <3>1, <3>2 DEF CrashInWrite
    <3> QED BY <3>1, <3>3, BatchAdds
  <2> QED BY <2>1, <2>2
<1>2. Alone(p) /\ Keeps(p) /\ exports' = exports
  BY DownSeal DEF CrashInWrite, Kill
<1> QED BY <1>1, <1>2, CrashInWriteGrows, SealKeeps

LEMMA PowerLossSeal ==
  ASSUME IInv, IInv', SealInv, PowerLoss
  PROVE  SealInv'
<1>1. PICK n \in synced..Len(file) : file' = SubSeq(file, 1, n)
  BY DEF PowerLoss
<1>2. file \in Seq(Lines) /\ Len(file) \in Nat /\ synced \in 0..Len(file) /\ n \in 0..Len(file)
  BY DEF IInv, TypeOK
<1>3. file' \in Seq(Lines) /\ Len(file') = n /\ \A i \in 1..n : file'[i] = file[i]
  BY <1>1, <1>2, Prefix
<1>4. ASSUME NEW l \in 1..Len(file') PROVE Sound(file', l)
  <2>1. l \in 1..Len(file) /\ l <= Len(file') /\ \A j \in 1..l : file'[j] = file[j]
    BY <1>2, <1>3
  <2>2. Sound(file, l)
    BY <2>1 DEF SealInv, FileSound
  <2> QED BY <1>2, <1>3, <2>1, <2>2, SoundSame
<1>5. \A p \in Procs : writer'[p].pc = "down"
  BY DEF PowerLoss, Down
<1>6. exports' = exports
  BY DEF PowerLoss
<1> QED BY <1>4, <1>5, <1>6 DEF SealInv, FileSound, ExportsSeal, Chained

LEMMA InitSeal == Init => SealInv
<1> SUFFICES ASSUME Init PROVE SealInv
  OBVIOUS
<1>1. Len(file) = 0 /\ exports = {}
  BY DEF Init
<1>2. \A p \in Procs : writer[p].pc = "down"
  BY DEF Init, Down
<1> QED BY <1>1, <1>2 DEF SealInv, FileSound, ExportsSeal, Chained

LEMMA NextSeal == IInv /\ SealInv /\ [Next]_vars => SealInv'
<1> SUFFICES ASSUME IInv, SealInv, [Next]_vars PROVE SealInv'
  OBVIOUS
<1>1. IInv'
  BY NextIInv
<1>2. CASE UNCHANGED <<file, writer, exports>>
  BY <1>2 DEF SealInv, FileSound, ExportsSeal, Chained, Tracks
<1>3. ASSUME NEW p \in Procs, Open(p) \/ PostTick(p) \/ Close(p) \/ Crash(p) \/ CrashInWrite(p) PROVE SealInv'
  BY <1>1, <1>3, AsideSeal, RecoverSeal, CrashInWriteSeal DEF Open
<1>4. ASSUME NEW p \in Procs, WriterLoop(p) PROVE SealInv'
  BY <1>1, <1>4, AsideSeal, WriteSeal, SyncBatchSeal, WriteCheckpointSeal, SyncCheckpointSeal, ExportSeal
     DEF WriterLoop, Write, Sync, Checkpoint
<1>5. ASSUME NEW p \in Procs, NEW r \in Records, Enqueue(p, r) PROVE SealInv'
  BY <1>1, <1>5, AsideSeal
<1>6. CASE PowerLoss
  BY <1>1, <1>6, PowerLossSeal
<1> QED BY <1>2, <1>3, <1>4, <1>5, <1>6 DEF Next, Abandon, vars

LEMMA UpTo ==
  ASSUME NEW N \in Nat, NEW S, 0 \in S, \A n \in 1 .. N : n - 1 \in S => n \in S
  PROVE  \A n \in 0 .. N : n \in S
<1> DEFINE Bad == {n \in 0 .. N : n \notin S}
<1> SUFFICES ASSUME Bad # {} PROVE FALSE
  OBVIOUS
<1>1. Bad \subseteq Nat
  OBVIOUS
<1>2. PICK n \in Bad : \A m \in Bad : <<m, n>> \notin OpToRel(<, Nat)
  BY <1>1, NatLessThanWellFounded, WFMin
<1>3. n \in 0 .. N /\ n \notin S /\ n \in Nat /\ \A m \in Bad : m \in Nat
  OBVIOUS
<1> HIDE DEF Bad
<1>7. \A m \in Bad : ~(m < n)
  BY <1>2, <1>3 DEF OpToRel
<1>4. n # 0 /\ n - 1 \in 0 .. N
  BY <1>3
<1>5. n - 1 \notin S
  BY <1>3, <1>4
<1>6. n - 1 \in Bad
  BY <1>4, <1>5 DEF Bad
<1> QED
  BY <1>3, <1>7, <1>6

-----------------------------------------------------------------------------
(* What the verifier makes of it.                                           *)

\* The lines the reader returns are a prefix, numbered without a gap, and all of
\* a file that has no gap.
LEMMA ReadablePrefix ==
  ASSUME NEW f \in Seq(Lines)
  PROVE  /\ Readable(f) \in Seq(Lines) /\ Len(Readable(f)) <= Len(f)
         /\ \A i \in 1..Len(Readable(f)) : Readable(f)[i] = f[i] /\ f[i].seq = i
         /\ (\A i \in 1..Len(f) : f[i].seq = i) => Readable(f) = f
<1> DEFINE Good(n) == /\ \A i \in 1..n : f[i].seq = i
                      /\ n = Len(f) \/ f[n + 1].seq # n + 1
           m == CHOOSE n \in 0..Len(f) : Good(n)
<1>1. \E n \in 0..Len(f) : Good(n)
  <2> SUFFICES ASSUME \A n \in 0..Len(f) : ~Good(n) PROVE FALSE
    OBVIOUS
  <2> DEFINE S == {n \in 0..Len(f) : \A i \in 1..n : f[i].seq = i}
  <2>1. 0 \in S
    OBVIOUS
  <2>2. ASSUME NEW n \in 1..Len(f), n - 1 \in S PROVE n \in S
    <3>1. n - 1 \in 0..Len(f) /\ \A i \in 1..(n - 1) : f[i].seq = i
      BY <2>2
    <3>2. f[n].seq = n
      <4>1. ~Good(n - 1)
        BY <3>1
      <4> QED BY <3>1, <4>1
    <3>3. \A i \in 1..n : i \in 1..(n - 1) \/ i = n
      OBVIOUS
    <3> QED BY <3>1, <3>2, <3>3
  <2>3. Len(f) \in S
    <3> HIDE DEF S
    <3>1. Len(f) \in Nat /\ Len(f) \in 0..Len(f)
      OBVIOUS
    <3> QED BY <2>1, <2>2, <3>1, UpTo
  <2>4. Good(Len(f))
    BY <2>3
  <2> QED BY <2>4
<1>2. m \in 0..Len(f) /\ Good(m)
  <2> HIDE DEF Good
  <2> QED BY <1>1, Zenon
<1>3. Readable(f) = SubSeq(f, 1, m)
  BY Zenon DEF Readable
<1> HIDE DEF m
<1>4. PICK g : g = Readable(f)
  OBVIOUS
<1>5. g \in Seq(Lines) /\ Len(g) = m /\ \A i \in 1..m : g[i] = f[i]
  BY <1>2, <1>3, <1>4, Prefix
<1>6. ASSUME \A i \in 1..Len(f) : f[i].seq = i PROVE g = f
  <2>1. m = Len(f)
    BY <1>2, <1>6
  <2> QED BY <1>5, <2>1, SeqEqual
<1> QED BY <1>2, <1>4, <1>5, <1>6

(* No false alarm.                                                          *)
LEMMA Accepted ==
  ASSUME IInv, SealInv
  PROVE  VerifierAccepts
<1>1. file \in Seq(Lines) /\ Len(file) \in Nat /\ synced \in 0..Len(file)
  BY DEF IInv, TypeOK
<1>2. Readable(file) = file
  BY <1>1, ReadablePrefix DEF IInv, Contiguous
<1>3. ASSUME NEW i \in Checkpoints(file) PROVE CheckpointProblems(file, i) = {}
  <2>1. i \in 1..Len(file) /\ file[i].id = Seal
    BY DEF Checkpoints
  <2>2. Sound(file, i)
    BY <2>1 DEF SealInv, FileSound
  <2>3. /\ file[i].chain = ChainOf(Before(file, i)) /\ file[i].prev = LastCheckpoint(Before(file, i))
        /\ file[i].from = LastCheckpoint(Before(file, i)) + 1
    BY <2>1, <2>2 DEF Sound
  <2> QED BY <2>3 DEF CheckpointProblems
<1>4. ASSUME NEW e \in exports PROVE ExportProblems(file, e) = {}
  <2>1. e.seq \in 1..synced /\ file[e.seq] = e /\ e.id = Seal
    BY DEF IInv, ExportsBacked, SealInv, ExportsSeal
  <2>2. e.seq \in 1..Len(file) /\ ~(e.seq > Len(file))
    BY <1>1, <2>1
  <2>3. e.seq \in Checkpoints(file)
    BY <2>1, <2>2 DEF Checkpoints
  <2> QED BY <2>1, <2>2, <2>3, Zenon DEF ExportProblems
<1>5. UNION {CheckpointProblems(file, i) : i \in Checkpoints(file)} = {}
  BY <1>3, Zenon
<1>6. UNION {ExportProblems(file, e) : e \in exports} = {}
  BY <1>4, Zenon
<1>7. ASSUME NEW x \in Problems(file, FALSE, exports) PROVE x = "export_missing"
  <2>1. \/ x \in UNION {CheckpointProblems(file, i) : i \in Checkpoints(file)}
        \/ x \in UNION {ExportProblems(file, e) : e \in exports}
        \/ x \in (IF MissingExports(file, exports) # {} THEN {"export_missing"} ELSE {})
    BY <1>2, <1>7, Zenon DEF Problems
  <2> QED BY <1>5, <1>6, <2>1, Zenon
<1> QED BY <1>7, Zenon DEF VerifierAccepts

\* A line that holds a record holds nothing else.
PlainLines == {x \in Lines : x.id # Seal => x.from = 0 /\ x.prev = 0 /\ x.chain = <<>>}

LEMMA InProblems ==
  ASSUME NEW g, NEW x,
         \/ x \in UNION {CheckpointProblems(Readable(g), i) : i \in Checkpoints(Readable(g))}
         \/ x \in UNION {ExportProblems(Readable(g), d) : d \in exports}
  PROVE  x \in Problems(g, FALSE, exports)
<1> DEFINE a == IF FALSE \/ Readable(g) # g THEN {"unreadable"} ELSE {}
           b == UNION {CheckpointProblems(Readable(g), i) : i \in Checkpoints(Readable(g))}
           c == UNION {ExportProblems(Readable(g), e) : e \in exports}
           d == IF MissingExports(Readable(g), exports) # {} THEN {"export_missing"} ELSE {}
<1>1. Problems(g, FALSE, exports) = a \cup b \cup c \cup d
  BY Zenon DEF Problems
<1>2. x \in b \/ x \in c
  OBVIOUS
<1> HIDE DEF a, b, c, d
<1> QED BY <1>1, <1>2

LEMMA SeqPlain ==
  ASSUME NEW g \in Seq(PlainLines)
  PROVE  g \in Seq(Lines)
<1>1. Len(g) \in Nat /\ g = [i \in 1..Len(g) |-> g[i]] /\ \A i \in 1..Len(g) : g[i] \in Lines
  BY DEF PlainLines
<1> QED BY <1>1, IsASeq

LEMMA LineEqual ==
  ASSUME NEW x \in Lines, NEW y \in Lines, x.seq = y.seq, x.id = y.id, x.from = y.from,
         x.prev = y.prev, x.chain = y.chain
  PROVE  x = y
BY DEF Lines

\* The verifier finds every such file wrong that differs before the exported line e.
LEMMA Noticed ==
  ASSUME IInv, SealInv, NEW e \in exports, NEW g \in Seq(PlainLines),
         NEW k \in 1..e.seq, k > Len(g) \/ g[k] # file[k]
  PROVE  Problems(g, FALSE, exports) \ {"export_missing"} # {}
<1>1. file \in Seq(Lines) /\ Len(file) \in Nat /\ synced \in 0..Len(file)
  BY DEF IInv, TypeOK
<1>2. PICK h, n : h = Readable(g) /\ n = e.seq
  OBVIOUS
<1>3. /\ h \in Seq(Lines) /\ Len(h) \in Nat /\ Len(h) <= Len(g) /\ Len(g) \in Nat
      /\ \A i \in 1..Len(h) : h[i] = g[i] /\ h[i].seq = i /\ g[i] \in PlainLines
  <2>1. g \in Seq(Lines)
    BY SeqPlain
  <2>2. /\ h \in Seq(Lines) /\ Len(h) \in Nat /\ Len(h) <= Len(g) /\ Len(g) \in Nat
        /\ \A i \in 1..Len(h) : h[i] = g[i] /\ h[i].seq = i
    BY <1>2, <2>1, ReadablePrefix
  <2>3. \A i \in 1..Len(h) : i \in 1..Len(g)
    BY <2>2
  <2> QED BY <2>2, <2>3
<1>4. n \in 1..synced /\ n \in 1..Len(file) /\ file[n] = e /\ e.id = Seal /\ k \in 1..n
  BY <1>1, <1>2 DEF IInv, ExportsBacked, SealInv, ExportsSeal
<1>5. ASSUME NEW x, x # "export_missing",
             x \in ExportProblems(h, e) \/ \E i \in Checkpoints(h) : x \in CheckpointProblems(h, i)
      PROVE  Problems(g, FALSE, exports) \ {"export_missing"} # {}
  <2>1. x \in Problems(g, FALSE, exports)
    <3>1. \/ x \in UNION {ExportProblems(h, d) : d \in exports}
          \/ x \in UNION {CheckpointProblems(h, i) : i \in Checkpoints(h)}
      BY <1>5, Zenon
    <3> QED BY <1>2, <3>1, InProblems
  <2> QED BY <1>5, <2>1
<1>6. CASE n > Len(h)
  <2>1. "export_beyond_journal" \in ExportProblems(h, e)
    <3>1. e.seq > Len(h) /\ e.seq \notin Checkpoints(h)
      BY <1>2, <1>3, <1>4, <1>6 DEF Checkpoints
    <3> QED BY <3>1, Zenon DEF ExportProblems
  <2> QED BY <1>5, <2>1
<1>7. CASE n <= Len(h) /\ h[n] # e
  <2>1. ~(e.seq > Len(h)) /\ h[e.seq] # e
    BY <1>2, <1>3, <1>4, <1>7
  <2>2. ExportProblems(h, e) = {"export_differs"} \/ ExportProblems(h, e) = {"export_missing_from_journal"}
    BY <2>1, Zenon DEF ExportProblems
  <2> QED BY <1>5, <2>2
<1>8. CASE n <= Len(h) /\ h[n] = e
  <2>1. n \in 1..Len(h) /\ n \in Checkpoints(h) /\ Len(g) \in Nat
    BY <1>3, <1>4, <1>8 DEF Checkpoints
  <2>2. k \in 1..Len(h) /\ k \in 1..(n - 1) /\ h[k] # file[k]
    BY <1>3, <1>4, <1>8, <2>1
  <2>3. CASE e.chain # ChainOf(Before(h, n))
    <3>1. "chain_mismatch" \in CheckpointProblems(h, n)
      BY <1>8, <2>3 DEF CheckpointProblems
    <3> QED BY <1>5, <2>1, <3>1
  <2>4. CASE e.chain = ChainOf(Before(h, n))
    <3>1. e.chain = ChainOf(Before(file, n))
      BY <1>4 DEF SealInv, FileSound, Sound
    <3>2. \A i \in 1..(n - 1) : h[i].seq = file[i].seq /\ h[i].id = file[i].id
      <4>1. PICK a, b : a = Before(h, n) /\ b = Before(file, n)
        OBVIOUS
      <4>2. n - 1 \in 0..Len(h) /\ n - 1 \in 0..Len(file)
        BY <1>4, <2>1
      <4>3. /\ Len(a) = n - 1 /\ \A i \in 1..(n - 1) : a[i] = h[i]
            /\ Len(b) = n - 1 /\ \A i \in 1..(n - 1) : b[i] = file[i]
        BY <1>1, <1>3, <4>1, <4>2, Prefix DEF Before
      <4>4. ChainOf(a) = ChainOf(b)
        BY <2>4, <3>1, <4>1
      <4>5. \A i \in 1..(n - 1) : Digest(a[i]) = Digest(b[i])
        BY <4>3, <4>4 DEF ChainOf
      <4> QED BY <4>3, <4>5 DEF Digest
    <3>3. /\ h[k] \in Lines /\ file[k] \in Lines /\ h[k].id = file[k].id /\ h[k].seq = file[k].seq
          /\ k \in 1..Len(file) /\ Sound(file, k)
      <4>1. k \in 1..Len(file)
        BY <1>4, <1>1
      <4> QED BY <1>1, <1>3, <2>2, <3>2, <4>1 DEF SealInv, FileSound
    <3>4. h[k].from # file[k].from \/ h[k].prev # file[k].prev \/ h[k].chain # file[k].chain
      BY <2>2, <3>3, LineEqual
    <3>5. CASE h[k].id # Seal
      <4>1. h[k].from = 0 /\ h[k].prev = 0 /\ h[k].chain = <<>>
        BY <1>3, <2>2, <3>5 DEF PlainLines
      <4>2. file[k].from = 0 /\ file[k].prev = 0 /\ file[k].chain = <<>>
        BY <3>3, <3>5 DEF Sound, RecordLine
      <4> QED BY <3>4, <4>1, <4>2
    <3>6. CASE h[k].id = Seal
      <4>1. k \in Checkpoints(h)
        BY <2>2, <3>6 DEF Checkpoints
      <4>2. PICK a, b : a = Before(h, k) /\ b = Before(file, k)
        OBVIOUS
      <4>3. ChainOf(a) = ChainOf(b) /\ LastCheckpoint(a) = LastCheckpoint(b)
        <5>1. k - 1 \in 0..Len(h) /\ k - 1 \in 0..Len(file)
          BY <2>2, <3>3
        <5>2. /\ a \in Seq(Lines) /\ Len(a) = k - 1 /\ \A i \in 1..(k - 1) : a[i] = h[i]
              /\ b \in Seq(Lines) /\ Len(b) = k - 1 /\ \A i \in 1..(k - 1) : b[i] = file[i]
          BY <1>1, <1>3, <4>2, <5>1, Prefix DEF Before
        <5>3. \A i \in 1..(k - 1) : i \in 1..(n - 1)
          BY <1>4, <2>2
        <5> QED BY <3>2, <5>2, <5>3, SameDigests
      <4>4. file[k].chain = ChainOf(b) /\ file[k].prev = LastCheckpoint(b) /\ file[k].from = LastCheckpoint(b) + 1
        BY <3>3, <3>6, <4>2 DEF Sound
      <4>5. h[k].chain # ChainOf(a) \/ h[k].from # LastCheckpoint(a) + 1 \/ h[k].prev # LastCheckpoint(a)
        BY <3>4, <4>3, <4>4
      <4>6. "chain_mismatch" \in CheckpointProblems(h, k) \/ "coverage_mismatch" \in CheckpointProblems(h, k)
        BY <4>2, <4>5, Zenon DEF CheckpointProblems
      <4> QED BY <1>5, <4>1, <4>6
    <3> QED BY <3>5, <3>6
  <2> QED BY <2>3, <2>4
<1>9. n > Len(h) \/ n <= Len(h)
  BY <1>1, <1>3, <1>4
<1> QED BY <1>6, <1>7, <1>8, <1>9, Zenon

\* What a file may be turned into is still one of lines, with records that hold
\* nothing else.
LEMMA TamperedPlain ==
  ASSUME NEW f \in Seq(PlainLines), NEW g \in Tampered(f)
  PROVE  g \in Seq(PlainLines)
<1>1. Len(f) \in Nat /\ \A i \in 1..Len(f) : f[i] \in PlainLines
  OBVIOUS
<1>2. CASE \E k \in 0..Len(f) : g = SubSeq(f, 1, k)
  <2>1. PICK k \in 0..Len(f) : g = SubSeq(f, 1, k)
    BY <1>2
  <2>2. \A i \in 1..k : f[i] \in PlainLines
    BY <1>1
  <2> QED BY <2>1, <2>2, SubSeqProperties
<1>3. CASE \E i \in 1..Len(f) : g = Renumbered(SubSeq(f, 1, i - 1) \o SubSeq(f, i + 1, Len(f)))
  <2>1. PICK i \in 1..Len(f) : g = Renumbered(SubSeq(f, 1, i - 1) \o SubSeq(f, i + 1, Len(f)))
    BY <1>3
  <2>2. PICK a, b, c : a = SubSeq(f, 1, i - 1) /\ b = SubSeq(f, i + 1, Len(f)) /\ c = a \o b
    OBVIOUS
  <2>3. a \in Seq(PlainLines)
    <3>1. i - 1 \in Nat /\ \A j \in 1..(i - 1) : f[j] \in PlainLines
      BY <1>1
    <3> QED BY <2>2, <3>1, SubSeqProperties
  <2>4. b \in Seq(PlainLines)
    <3>1. \A j \in (i + 1)..Len(f) : f[j] \in PlainLines
      BY <1>1
    <3> QED BY <1>1, <2>2, <3>1, SubSeqProperties
  <2>5. c \in Seq(PlainLines)
    BY <2>2, <2>3, <2>4, ConcatProperties
  <2>6. g = Renumbered(c)
    BY <2>1, <2>2
  <2>7. Len(c) \in Nat /\ \A j \in 1..Len(c) : [c[j] EXCEPT !.seq = j] \in PlainLines
    <3>1. Len(c) \in Nat /\ \A j \in 1..Len(c) : c[j] \in PlainLines
      BY <2>5
    <3>2. ASSUME NEW j \in 1..Len(c) PROVE [c[j] EXCEPT !.seq = j] \in PlainLines
      <4>1. PICK x, y : x = c[j] /\ y = [x EXCEPT !.seq = j]
        OBVIOUS
      <4>2. x \in Lines /\ (x.id # Seal => x.from = 0 /\ x.prev = 0 /\ x.chain = <<>>) /\ j \in Nat
        BY <3>1, <4>1 DEF PlainLines
      <4>3. y \in Lines /\ y.id = x.id /\ y.from = x.from /\ y.prev = x.prev /\ y.chain = x.chain
        BY <4>1, <4>2 DEF Lines
      <4>4. y \in PlainLines
        BY <4>2, <4>3 DEF PlainLines
      <4> QED BY <4>1, <4>4
    <3> QED BY <3>1, <3>2
  <2> QED BY <2>6, <2>7 DEF Renumbered
<1>4. CASE \E i \in 1..Len(f), r \in Records : g = [f EXCEPT ![i] = RecordLine(i, r)]
  <2>1. PICK i \in 1..Len(f), r \in Records : g = [f EXCEPT ![i] = RecordLine(i, r)]
    BY <1>4
  <2>2. RecordLine(i, r) \in PlainLines
    BY <1>1 DEF PlainLines, RecordLine, Lines, Contents
  <2> QED BY <2>1, <2>2, ExceptSeq
<1> QED BY <1>2, <1>3, <1>4 DEF Tampered

LEMMA ResealedPlain ==
  ASSUME NEW f \in Seq(PlainLines)
  PROVE  Resealed(f) \in Seq(PlainLines)
<1>1. f \in Seq(Lines) /\ Len(f) \in Nat /\ \A i \in 1..Len(f) : f[i] \in PlainLines
  BY SeqPlain
<1>2. ASSUME NEW i \in 1..Len(f), f[i].id = Seal
      PROVE  [f[i] EXCEPT !.chain = ChainOf(Before(f, i)), !.from = LastCheckpoint(Before(f, i)) + 1,
                          !.prev = LastCheckpoint(Before(f, i))] \in PlainLines
  <2>1. PICK c, m, n : c = ChainOf(Before(f, i)) /\ n = LastCheckpoint(Before(f, i)) /\ m = n + 1
    OBVIOUS
  <2>2. Before(f, i) \in Seq(Lines) /\ Len(Before(f, i)) \in Nat
    <3>1. i - 1 \in 0..Len(f)
      BY <1>1
    <3> QED BY <1>1, <3>1, Prefix DEF Before
  <2>3. c \in Seq(Nat \X Contents) /\ n \in Nat /\ m \in Nat
    BY <2>1, <2>2, ChainType, LastCheckpointType
  <2>4. [f[i] EXCEPT !.chain = c, !.from = m, !.prev = n] \in PlainLines
    BY <1>1, <1>2, <2>3 DEF PlainLines, Lines
  <2> QED BY <2>1, <2>4
<1>3. \A i \in 1..Len(f) :
        (IF f[i].id = Seal
         THEN [f[i] EXCEPT !.chain = ChainOf(Before(f, i)), !.from = LastCheckpoint(Before(f, i)) + 1,
                           !.prev = LastCheckpoint(Before(f, i))]
         ELSE f[i]) \in PlainLines
  BY <1>1, <1>2, Zenon
<1>4. Resealed(f) \in [1..Len(f) -> PlainLines]
  BY <1>3, Zenon DEF Resealed
<1> QED BY <1>1, <1>4

(* No change behind an exported checkpoint goes unreported.                 *)
LEMMA Evident ==
  ASSUME IInv, SealInv
  PROVE  TamperEvident
<1>1. file \in Seq(PlainLines)
  <2>1. file \in Seq(Lines) /\ Len(file) \in Nat /\ \A i \in 1..Len(file) : file[i] \in Lines
    BY DEF IInv, TypeOK
  <2>2. \A i \in 1..Len(file) : file[i] \in PlainLines
    <3> SUFFICES ASSUME NEW i \in 1..Len(file), file[i].id # Seal
                 PROVE  file[i].from = 0 /\ file[i].prev = 0 /\ file[i].chain = <<>>
      BY <2>1 DEF PlainLines
    <3>1. file[i] = RecordLine(i, file[i].id)
      BY DEF SealInv, FileSound, Sound
    <3>2. PICK r : r = file[i].id
      OBVIOUS
    <3>3. file[i] = RecordLine(i, r)
      BY <3>1, <3>2
    <3> QED BY <3>3 DEF RecordLine
  <2> QED BY <2>1, <2>2
<1> SUFFICES ASSUME NEW e \in exports, NEW f \in Tampered(file), NEW g \in {f, Resealed(f)},
                    \E i \in 1..e.seq : i > Len(g) \/ g[i] # file[i]
             PROVE  Problems(g, FALSE, exports) \ {"export_missing"} # {}
  BY DEF TamperEvident
<1>2. g \in Seq(PlainLines)
  BY <1>1, TamperedPlain, ResealedPlain
<1> QED BY <1>2, Noticed

(* VerifierExact: on what the writers leave behind, through any crash, torn *)
(* write, failed sync, power loss and restart, `audit verify` (verify.rs)   *)
(* reports at most a missing export; and whoever cuts the file, takes a     *)
(* line out, or replaces one, and recomputes the checkpoints or not, is     *)
(* reported when an exported checkpoint covers the change.                  *)
THEOREM VerifierIsExact == Spec => []VerifierExact
<1>1. IInv /\ SealInv => VerifierExact
  BY Accepted, Evident DEF VerifierExact
<1> QED BY <1>1, Inductive, InitSeal, NextSeal, PTL DEF Spec

=============================================================================
