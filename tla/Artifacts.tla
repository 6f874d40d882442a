------------------------------ MODULE Artifacts ------------------------------
(***************************************************************************)
(* Streamed artifacts: the writers, the registry and its pins, reclamation, *)
(* retention and shutdown of src/src/transport/raw_response.rs, the         *)
(* streamed download of src/src/transport/mod.rs and the manifest sidecar   *)
(* of src/src/ingestion.rs, over the disk reservations of DiskQuota.        *)
(*                                                                         *)
(* One operation writes some files, each behind a lease that grows before   *)
(* every chunk.  Committing renames the .part file and hands the lease to   *)
(* the registry; the lease lives as long as the entry.  Reads pin an entry, *)
(* deletion marks it and waits for the last pin.  File system calls run on  *)
(* another thread, so a step that awaits one is split there.                *)
(***************************************************************************)
EXTENDS DiskQuota

CONSTANTS Files,       \* artifacts, each written once
          Files2Op,    \* the operation that writes a file
          WithManifest,\* files that get a manifest sidecar
          MaxBytes,    \* max_bytes of a writer
          MaxPins,     \* bound: concurrent reads of one artifact
          Reclaims     \* MAX_STREAMING_ARTIFACT_RECLAIMS_PER_SWEEP

Data(f) == <<f, "data">>
Side(f) == <<f, "side">>

ASSUME ArtifactConstants ==
  /\ Leases = Files \X {"data", "side"}
  /\ \A f \in Files : OpOf[Data(f)] = Files2Op[f] /\ OpOf[Side(f)] = Files2Op[f]
  /\ WithManifest \subseteq Files
  /\ MaxBytes \in Nat /\ MaxPins \in Nat /\ Reclaims \in Nat \ {0}

VARIABLES
  q,         \* the coordinator's state
  op,        \* per operation: idle, run, stop (cancelled or late), clean, done, failed
  pc,        \* per file: the step of its writer, then of its manifest
  size,      \* bytes written
  part,      \* files with a .part on disk
  final,     \* files at their final path
  side,      \* per file, its manifest on disk: none, part or full
  reg,       \* the registry: no, readable or pending
  pins,      \* reads in flight
  eligible,  \* entries the retention sweep may expire
  attached,  \* entries that hold their sidecar's lease
  orphans,   \* leases kept because their file could not be removed
  todo,      \* reclaim_pending_artifact calls waiting for the reclamation lock
  busy,      \* the holder of that lock and its step
  shutdown,  \* no, stopping, draining, over
  cut,       \* history: writers dropped with the rename in flight
  external   \* history: files removed by somebody else

disk == <<part, final, side>>
registry == <<reg, pins, eligible, attached>>
reclaim == <<todo, busy>>
history == <<cut, external>>
vars == <<q, op, pc, size, disk, registry, orphans, reclaim, shutdown, history>>

Nothing == [file |-> "none", step |-> "free"]

Mine(o) == {f \in Files : Files2Op[f] = o}

Init ==
  /\ q = Empty
  /\ op = [o \in Ops |-> "idle"]
  /\ pc = [f \in Files |-> "none"]
  /\ size = [f \in Files |-> 0]
  /\ part = {} /\ final = {} /\ side = [f \in Files |-> "none"]
  /\ reg = [f \in Files |-> "no"] /\ pins = [f \in Files |-> 0] /\ eligible = {}
  /\ attached = {}
  /\ orphans = {} /\ todo = {} /\ busy = Nothing /\ shutdown = "no"
  /\ cut = {} /\ external = {}

Goto(f, step) == pc' = [pc EXCEPT ![f] = step]

At(f, step) == pc[f] = step

Active(o) == op[o] \in {"run", "stop"}

-----------------------------------------------------------------------------
(* Reconciliation with the disk.                                            *)

OnDisk(l) == \E f \in Files :
  \/ l = Data(f) /\ f \in part \cup final
  \/ l = Side(f) /\ side[f] # "none"

\* The leases an entry's removal drops.
EntryLeases(fs) == {Data(f) : f \in fs} \cup {Side(f) : f \in fs \cap attached}

Unregister(fs) ==
  /\ reg' = [f \in Files |-> IF f \in fs THEN "no" ELSE reg[f]]
  /\ pins' = [f \in Files |-> IF f \in fs THEN 0 ELSE pins[f]]
  /\ eligible' = eligible \ fs

\* A transaction closes when its operation has returned and its last lease is gone.
Settle(quota, ops) ==
  CloseTransactions(quota, {o \in Ops : ops[o] \in {"done", "failed"}})

\* reconcile_missing_artifacts: entries whose file is gone lose their sidecars
\* and leave (one whose sidecar cannot be removed stays); a sidecar that is gone
\* gives back its lease, and so do orphans whose file is gone.
Reconcile ==
  LET missing == {f \in Files : reg[f] # "no" /\ f \notin final}
      bare    == {f \in attached : f \in final /\ side[f] = "none"}
  IN  \E stuck \in SUBSET {f \in missing : side[f] # "none"} :
        LET gone  == missing \ stuck
            freed == {l \in orphans : ~OnDisk(l) \/ \E f \in gone : l = Side(f)}
        IN  /\ Unregister(gone)
            /\ attached' = attached \ (gone \cup bare)
            /\ side' = [f \in Files |-> IF f \in gone THEN "none" ELSE side[f]]
            /\ orphans' = orphans \ freed
            /\ q' = Settle(DropLeases(q, freed \cup EntryLeases(gone)
                                           \cup {Side(f) : f \in bare}), op)

-----------------------------------------------------------------------------
(* Writing: an operation and its writers.                                   *)

\* server_transaction: reconcile, then a transaction of its own.
StartOp(o) ==
  /\ op[o] = "idle" /\ shutdown # "over"
  /\ op' = [op EXCEPT ![o] = "run"]
  /\ q' = RegisterTransaction(q, o)
  /\ UNCHANGED <<pc, size, disk, registry, orphans, reclaim, shutdown, history>>

\* The reconciliation a new transaction runs before it registers.
ReconcileDisk ==
  /\ \E o \in Ops : op[o] = "idle"
  /\ shutdown # "over"
  /\ Reconcile
  /\ UNCHANGED <<op, pc, size, part, final, reclaim, shutdown, history>>

\* begin_artifact_in_operation and set_disk_quota.
Begin(f) ==
  /\ op[Files2Op[f]] = "run" /\ At(f, "none")
  /\ Goto(f, "open")
  /\ part' = part \cup {f}
  /\ q' = RegisterReservation(q, Data(f))
  /\ UNCHANGED <<op, size, final, side, registry, orphans, reclaim, shutdown, history>>

\* Mutant: the lease is given back before the .part file is removed.
DropWriterEarly(f, quota, removed) ==
  /\ Goto(f, "dropped")
  /\ part' = IF removed THEN part \ {f} ELSE part
  /\ orphans' = orphans
  /\ q' = DropLease(quota, Data(f))

\* Drop of an uncommitted ArtifactWriter: the lease goes back only with the file.
DropWriter(f, quota, removed) ==
  /\ Goto(f, "dropped")
  /\ part' = IF removed THEN part \ {f} ELSE part
  /\ orphans' = IF removed \/ f \notin part THEN orphans ELSE orphans \cup {Data(f)}
  /\ q' = IF removed \/ f \notin part THEN DropLease(quota, Data(f)) ELSE quota

\* An error of one step of a writer, or its future dropped at an await.
Fail(f, quota) ==
  /\ \E removed \in BOOLEAN : DropWriter(f, quota, removed)
  /\ UNCHANGED <<op, size, final, side, registry, reclaim, shutdown, history>>

\* write_chunk, up to the grant or the wait.
WriteChunk(f) ==
  /\ At(f, "open")
  /\ LET l == Data(f) IN
       \/ /\ size[f] + Ask[l] > MaxBytes \/ TooLarge(q, l)
          /\ Fail(f, q)
       \/ /\ size[f] + Ask[l] <= MaxBytes /\ ~TooLarge(q, l)
          /\ Goto(f, IF AtOnce(q, l) THEN "write" ELSE "wait")
          /\ q' = IF AtOnce(q, l) THEN Grant(q, l) ELSE Enqueue(q, l)
          /\ UNCHANGED <<op, size, disk, registry, orphans, reclaim, shutdown, history>>

\* The wait ends: granted, refused, or the operation was cancelled or is late.
Granted(f) ==
  /\ At(f, "wait") /\ Data(f) \in q.granted
  /\ Goto(f, "write")
  /\ q' = [q EXCEPT !.granted = @ \ {Data(f)}]
  /\ UNCHANGED <<op, size, disk, registry, orphans, reclaim, shutdown, history>>

GiveUp(f) ==
  /\ At(f, "wait")
  /\ Data(f) \in q.refused \/ op[Files2Op[f]] = "stop"
  /\ Fail(f, Abandon(q, Data(f)))

\* write_all.
Write(f) ==
  /\ At(f, "write")
  /\ \/ /\ Goto(f, "open")
        /\ size' = [size EXCEPT ![f] = @ + Ask[Data(f)]]
        /\ UNCHANGED <<q, op, disk, registry, orphans, reclaim, shutdown, history>>
     \/ Fail(f, q)

\* commit, up to the rename; flush and sync_all may fail.
Commit(f) ==
  /\ At(f, "open") /\ size[f] > 0
  /\ \/ /\ Goto(f, "rename")
        /\ UNCHANGED <<q, op, size, disk, registry, orphans, reclaim, shutdown, history>>
     \/ Fail(f, q)

Rename(f) ==
  /\ At(f, "rename")
  /\ \/ /\ f \in part
        /\ Goto(f, "renamed")
        /\ part' = part \ {f} /\ final' = final \cup {f}
        /\ UNCHANGED <<q, op, size, side, registry, orphans, reclaim, shutdown, history>>
     \/ Fail(f, q)

\* The rest of commit: the registry takes the file and its lease.  A checksum
\* that does not match removes the artifact again.
Register(f, matches) ==
  /\ At(f, "renamed")
  /\ Goto(f, IF matches THEN "committed" ELSE "mismatch")
  /\ reg' = [reg EXCEPT ![f] = IF matches THEN "readable" ELSE "pending"]
  /\ todo' = IF matches THEN todo ELSE todo \cup {f}
  /\ UNCHANGED <<q, op, size, disk, pins, eligible, attached, orphans, busy, shutdown, history>>

\* The request's deadline drops the writer while rename runs on its own thread:
\* the file may reach its final path with nobody to register it.
CutRename(f) ==
  /\ op[Files2Op[f]] = "stop"
  /\ \/ At(f, "rename") /\ f \in part
     \/ At(f, "renamed")
  /\ Goto(f, "dropped")
  /\ part' = part \ {f} /\ final' = final \cup {f}
  /\ q' = DropLease(q, Data(f))
  /\ cut' = cut \cup {f}
  /\ UNCHANGED <<op, size, side, registry, orphans, reclaim, shutdown, external>>

\* The deadline, an idle read, a cancelled request or a failed sibling.
CutWriter(f) ==
  /\ op[Files2Op[f]] = "stop"
  /\ pc[f] \in {"open", "write", "rename"}
  /\ Fail(f, q)

-----------------------------------------------------------------------------
(* The manifest: persist_manifest_reserved, then the operation's end.       *)

Manifest(f) ==
  /\ At(f, "committed") /\ f \in WithManifest /\ Active(Files2Op[f])
  /\ LET l == Side(f)
         r == RegisterReservation(q, l)
     IN  /\ Goto(f, IF TooLarge(r, l) THEN "mfailed"
                    ELSE IF AtOnce(r, l) THEN "mwrite" ELSE "mwait")
         /\ q' = IF TooLarge(r, l) THEN q
                 ELSE IF AtOnce(r, l) THEN Grant(r, l) ELSE Enqueue(r, l)
  /\ UNCHANGED <<op, size, disk, registry, orphans, reclaim, shutdown, history>>

ManifestWaited(f) ==
  /\ At(f, "mwait")
  /\ LET l == Side(f) IN
       \/ /\ l \in q.granted
          /\ Goto(f, "mwrite")
          /\ q' = [q EXCEPT !.granted = @ \ {l}]
       \/ /\ l \in q.refused \/ op[Files2Op[f]] = "stop"
          /\ Goto(f, "mfailed")
          /\ q' = DropLease(Abandon(q, l), l)
  /\ UNCHANGED <<op, size, disk, registry, orphans, reclaim, shutdown, history>>

\* Writes the .part of the manifest and renames it; attach is the next step.
ManifestWrite(f) ==
  /\ At(f, "mwrite")
  /\ \E disk1 \in {"none", "part", "full"} :
       /\ side' = [side EXCEPT ![f] = disk1]
       /\ Goto(f, IF disk1 = "full" THEN "mfull" ELSE "mclean")
  /\ UNCHANGED <<q, op, size, part, final, registry, orphans, reclaim, shutdown, history>>

\* attach_sidecar_reservation; the entry may be pending or gone by now.
Attach(f) ==
  /\ At(f, "mfull")
  /\ \/ /\ reg[f] = "readable"
        /\ Goto(f, "finished")
        /\ attached' = attached \cup {f} /\ eligible' = eligible \cup {f}
     \/ /\ reg[f] # "readable"
        /\ Goto(f, "mclean")
        /\ UNCHANGED <<attached, eligible>>
  /\ UNCHANGED <<q, op, size, disk, reg, pins, orphans, reclaim, shutdown, history>>

\* What a failed manifest leaves on disk keeps its lease.
ManifestClean(f) ==
  /\ At(f, "mclean")
  /\ Goto(f, "mfailed")
  /\ \E left \in IF side[f] = "part" THEN {"none", "part"} ELSE {side[f]} :
       /\ side' = [side EXCEPT ![f] = left]
       /\ IF left = "none"
          THEN q' = DropLease(q, Side(f)) /\ UNCHANGED orphans
          ELSE q' = q /\ orphans' = orphans \cup {Side(f)}
  /\ UNCHANGED <<op, size, part, final, registry, reclaim, shutdown, history>>

\* retain_download.
RetainDownload(f) ==
  /\ At(f, "committed") /\ f \notin WithManifest /\ Active(Files2Op[f])
  /\ Goto(f, "finished")
  /\ eligible' = IF reg[f] # "no" THEN eligible \cup {f} ELSE eligible
  /\ UNCHANGED <<q, op, size, disk, reg, pins, attached, orphans, reclaim, shutdown, history>>

\* The deadline of the transaction, a cancelled call, or a part that failed.
StopOp(o) ==
  /\ op[o] = "run"
  /\ op' = [op EXCEPT ![o] = "stop"]
  /\ UNCHANGED <<q, pc, size, disk, registry, orphans, reclaim, shutdown, history>>

FinishOp(o) ==
  /\ Active(o) /\ \A f \in Mine(o) : At(f, "finished")
  /\ op' = [op EXCEPT ![o] = "done"]
  /\ q' = Settle(q, op')
  /\ UNCHANGED <<pc, size, disk, registry, orphans, reclaim, shutdown, history>>

Ended(f) == pc[f] \in {"none", "dropped", "committed", "mismatch", "mfailed", "finished"}

\* ArtifactOperation::cleanup, once every part has been drained: each registered
\* artifact is removed ...
CleanupOp(o) ==
  /\ op[o] = "stop" /\ \A f \in Mine(o) : Ended(f)
  /\ \E f \in Mine(o) : ~At(f, "finished")
  /\ op' = [op EXCEPT ![o] = "clean"]
  /\ LET mine == {f \in Mine(o) : reg[f] # "no"} IN
       /\ reg' = [f \in Files |-> IF f \in mine THEN "pending" ELSE reg[f]]
       /\ todo' = todo \cup {f \in mine : pins[f] = 0}
  /\ UNCHANGED <<q, pc, size, disk, pins, eligible, attached, orphans, busy, shutdown, history>>

\* ... then, if none failed, the operation's directory.
RemoveOpDir(o) ==
  /\ op[o] = "clean" /\ \A f \in Mine(o) : f \notin todo /\ busy.file # f
  /\ op' = [op EXCEPT ![o] = "failed"]
  /\ \E gone \in IF \A f \in Mine(o) : reg[f] = "no" THEN BOOLEAN ELSE {FALSE} :
       /\ part' = IF gone THEN part \ Mine(o) ELSE part
       /\ final' = IF gone THEN final \ Mine(o) ELSE final
       /\ side' = [f \in Files |-> IF gone /\ f \in Mine(o) THEN "none" ELSE side[f]]
  /\ q' = Settle(q, op')
  /\ UNCHANGED <<pc, size, registry, orphans, reclaim, shutdown, history>>

-----------------------------------------------------------------------------
(* Reading and reclaiming.                                                  *)

\* Mutant: an entry that is about to be deleted can still be pinned.
PinPending(f) ==
  /\ shutdown = "no" /\ reg[f] # "no"
  /\ op[Files2Op[f]] = "done" /\ pins[f] < MaxPins
  /\ pins' = [pins EXCEPT ![f] = @ + 1]
  /\ UNCHANGED <<q, op, pc, size, disk, reg, eligible, attached, orphans, reclaim, shutdown, history>>

\* pin_artifact: the caller learns the id when the operation returns.
Pin(f) ==
  /\ shutdown = "no" /\ reg[f] = "readable"
  /\ op[Files2Op[f]] = "done" /\ pins[f] < MaxPins
  /\ pins' = [pins EXCEPT ![f] = @ + 1]
  /\ UNCHANGED <<q, op, pc, size, disk, reg, eligible, attached, orphans, reclaim, shutdown, history>>

\* Drop of the pin: the last one of a pending entry reclaims it.
Unpin(f) ==
  /\ pins[f] > 0
  /\ pins' = [pins EXCEPT ![f] = @ - 1]
  /\ todo' = IF pins[f] = 1 /\ reg[f] = "pending" THEN todo \cup {f} ELSE todo
  /\ UNCHANGED <<q, op, pc, size, disk, reg, eligible, attached, orphans, busy, shutdown, history>>

\* purge of the admin API: remove_artifact of a readable entry.
Purge(f) ==
  /\ shutdown = "no" /\ reg[f] = "readable"
  /\ reg' = [reg EXCEPT ![f] = "pending"]
  /\ todo' = IF pins[f] = 0 THEN todo \cup {f} ELSE todo
  /\ UNCHANGED <<q, op, pc, size, disk, pins, eligible, attached, orphans, busy, shutdown, history>>

\* Candidates of sweep_expired_at: retention has passed, or pending and unpinned.
Expirable == {f \in Files : \/ reg[f] = "pending" /\ pins[f] = 0
                            \/ reg[f] = "readable" /\ f \in eligible}

Stuck == {f \in Files : reg[f] = "pending" /\ pins[f] = 0}

SweepBatch(old) ==
  /\ Cardinality(old) <= Reclaims
  /\ reg' = [f \in Files |-> IF f \in old THEN "pending" ELSE reg[f]]
  /\ todo' = todo \cup {f \in old : pins[f] = 0}

\* The retention sweeper: what has expired by now is for the clock to say.
Sweep ==
  /\ shutdown = "no" /\ Expirable # {}
  /\ \E old \in SUBSET Expirable : Stuck \subseteq old /\ SweepBatch(old)
  /\ UNCHANGED <<q, op, pc, size, disk, pins, eligible, attached, orphans, busy, shutdown, history>>

\* Under the lock, the entry must still be pending and unpinned.
Reclaimable(f) == reg[f] = "pending" /\ pins[f] = 0

ReclaimBegin(f) ==
  /\ f \in todo /\ busy = Nothing
  /\ todo' = todo \ {f}
  /\ busy' = IF Reclaimable(f) THEN [file |-> f, step |-> "delete"] ELSE busy
  /\ UNCHANGED <<q, op, pc, size, disk, registry, orphans, shutdown, history>>

\* remove_associated_files: some may be gone when one of them fails.
ReclaimDelete ==
  /\ busy.step = "delete"
  /\ LET f == busy.file IN
       \/ /\ part' = part \ {f} /\ final' = final \ {f}
          /\ side' = [side EXCEPT ![f] = "none"]
          /\ busy' = [busy EXCEPT !.step = "unregister"]
       \/ /\ \/ UNCHANGED <<final, side>>
             \/ side[f] # "none" /\ final' = final \ {f} /\ UNCHANGED side
             \/ f \in final /\ side' = [side EXCEPT ![f] = "none"] /\ UNCHANGED final
          /\ busy' = Nothing /\ UNCHANGED part
  /\ UNCHANGED <<q, op, pc, size, registry, orphans, todo, shutdown, history>>

\* The entry goes, with its leases; then the orphans are looked at again.
ReclaimUnregister ==
  /\ busy.step = "unregister"
  /\ LET f     == busy.file
         held  == IF reg[f] = "no" THEN {} ELSE EntryLeases({f})
         freed == {l \in orphans : ~OnDisk(l)}
     IN  /\ Unregister({f})
         /\ attached' = attached \ {f}
         /\ orphans' = orphans \ freed
         /\ q' = Settle(DropLeases(q, held \cup freed), op)
  /\ busy' = Nothing
  /\ UNCHANGED <<op, pc, size, disk, todo, shutdown, history>>

\* Somebody else cleans the temporary directory.
RemoveExternally(f) ==
  /\ f \in final /\ reg[f] # "no"
  /\ final' = final \ {f}
  /\ external' = external \cup {f}
  /\ UNCHANGED <<q, op, pc, size, part, side, registry, orphans, reclaim, shutdown, cut>>

-----------------------------------------------------------------------------
(* shutdown_and_cleanup.                                                    *)

\* No pin from here on; the sweeper is stopped.
ShutdownBegin ==
  /\ shutdown = "no"
  /\ shutdown' = "stopping"
  /\ UNCHANGED <<q, op, pc, size, disk, registry, orphans, reclaim, history>>

MarkAll ==
  /\ shutdown = "stopping"
  /\ shutdown' = "draining"
  /\ reg' = [f \in Files |-> IF reg[f] = "no" THEN "no" ELSE "pending"]
  /\ UNCHANGED <<q, op, pc, size, disk, pins, eligible, attached, orphans, reclaim, history>>

NoPins == \A f \in Files : pins[f] = 0

\* The last pin is gone: one more sweep, of everything.
DrainSweep ==
  /\ shutdown = "draining" /\ NoPins
  /\ shutdown' = "swept"
  /\ \E old \in SUBSET Expirable : Stuck \subseteq old /\ SweepBatch(old)
  /\ UNCHANGED <<q, op, pc, size, disk, pins, eligible, attached, orphans, busy, history>>

\* The deadline has passed with reads in flight, or the sweep is over.
CleanupDue ==
  \/ shutdown = "swept" /\ todo = {} /\ busy = Nothing
  \/ shutdown = "draining"

\* cleanup_current_session: with a read in flight, or a directory that cannot be
\* removed, only what is missing is reconciled.
CleanupSession ==
  /\ CleanupDue
  /\ shutdown' = "over"
  /\ \/ /\ NoPins
        /\ part' = {} /\ final' = {} /\ side' = [f \in Files |-> "none"]
        /\ LET known == {f \in Files : reg[f] # "no"} IN
             /\ Unregister(known)
             /\ attached' = {}
             /\ orphans' = {}
             /\ q' = Settle(DropLeases(q, orphans \cup EntryLeases(known)), op)
        /\ UNCHANGED <<op, pc, size, reclaim, history>>
     \/ /\ Reconcile
        /\ UNCHANGED <<op, pc, size, part, final, reclaim, history>>

WriterStep(f) ==
  \/ Begin(f) \/ WriteChunk(f) \/ Granted(f) \/ GiveUp(f) \/ Write(f) \/ Commit(f)
  \/ Rename(f) \/ (\E matches \in BOOLEAN : Register(f, matches))
  \/ CutRename(f) \/ CutWriter(f)

ManifestStep(f) ==
  \/ Manifest(f) \/ ManifestWaited(f) \/ ManifestWrite(f) \/ Attach(f) \/ ManifestClean(f)
  \/ RetainDownload(f)

OpStep(o) == StartOp(o) \/ StopOp(o) \/ FinishOp(o) \/ CleanupOp(o) \/ RemoveOpDir(o)

ReclaimStep == (\E f \in Files : ReclaimBegin(f)) \/ ReclaimDelete \/ ReclaimUnregister

ShutdownStep == ShutdownBegin \/ MarkAll \/ DrainSweep \/ CleanupSession

Next ==
  \/ \E f \in Files : \/ WriterStep(f) \/ ManifestStep(f)
                      \/ Pin(f) \/ Unpin(f) \/ Purge(f) \/ RemoveExternally(f)
  \/ \E o \in Ops : OpStep(o)
  \/ ReconcileDisk \/ Sweep \/ ReclaimStep \/ ShutdownStep

Spec == Init /\ [][Next]_vars

-----------------------------------------------------------------------------
(* Properties.                                                              *)

\* "Reservations across both active and retained artifacts": every byte on disk
\* is covered by a lease, through commits, failed deletes, sidecars and orphans;
\* only a writer dropped while its rename was in flight leaves one uncovered.
DiskReserved ==
  \A f \in Files :
    /\ f \in (part \cup final) \ cut => q.amount[Data(f)] >= size[f]
    /\ side[f] # "none" => q.amount[Side(f)] >= Ask[Side(f)]

\* What a lease is for: an active writer or manifest, an entry, or an orphan.
Owned(l) ==
  \/ l \in orphans
  \/ \E f \in Files :
       \/ l = Data(f) /\ (pc[f] \in {"open", "wait", "write", "rename", "renamed"} \/ reg[f] # "no")
       \/ l = Side(f) /\ (pc[f] \in {"mwait", "mwrite", "mfull", "mclean"} \/ f \in attached)

\* Reservations are given back exactly once: the counters add up, every lease has
\* an owner, and a transaction is closed with its operation and last lease.
NothingLeaks ==
  /\ q.reserved = HeldBy(q, Leases) /\ q.reserved <= Limit
  /\ \A l \in Leases : q.amount[l] # Closed <=> Owned(l)
  /\ \A o \in Ops : q.tx[o] # Closed <=>
       \/ op[o] \in {"run", "stop", "clean"}
       \/ \E l \in Registered(q) : OpOf[l] = o

\* StreamingDiskCoordinator promises both: no byte without a reservation, and no
\* reservation without an owner that will give it back.
DiskAccounted == DiskReserved /\ NothingLeaks

\* A waiter at the front of the queue does not fit: whoever gave bytes back, or
\* left the queue, has woken all that do, so none waits for a wake-up that was lost.
NoLostWakeup == q.waiters # <<>> => ~CanGrant(q, Head(q.waiters))

\* Purges, sweeps, operation cleanup and shutdown never delete a file under a read.
PinnedKept == \A f \in Files : pins[f] > 0 => f \in final \cup external
=============================================================================
