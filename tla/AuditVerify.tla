----------------------------- MODULE AuditVerify -----------------------------
(***************************************************************************)
(* Offline verification of the journal, src/src/audit/verify.rs over the    *)
(* reader of src/src/audit/reader.rs: the problems the report of            *)
(* `audit verify` lists for a journal file and a directory of exported      *)
(* checkpoints.  A checkpoint's covers_to is its own number minus one on    *)
(* both sides and is not carried; hashes are collision free.                *)
(***************************************************************************)
EXTENDS Journal

\* The lines JournalReader returns: all before the first gap.
Readable(f) ==
  LET n == CHOOSE n \in 0..Len(f) :
             /\ \A i \in 1..n : f[i].seq = i
             /\ n = Len(f) \/ f[n + 1].seq # n + 1
  IN SubSeq(f, 1, n)

Before(f, i) == SubSeq(f, 1, i - 1)

\* check_checkpoint: the chain, and the range since the previous checkpoint.
CheckpointProblems(f, i) ==
  (IF f[i].chain # ChainOf(Before(f, i)) THEN {"chain_mismatch"} ELSE {})
  \cup
  (IF \/ f[i].from # LastCheckpoint(Before(f, i)) + 1
      \/ f[i].prev # LastCheckpoint(Before(f, i))
   THEN {"coverage_mismatch"} ELSE {})

\* Mutant: an export past the journal's end is passed over.
ExportProblemsWithinFile(f, e) ==
  IF e.seq > Len(f) \/ f[e.seq] = e THEN {} ELSE {"export_differs"}

\* One exported checkpoint against the journal.
ExportProblems(f, e) ==
  CASE e.seq > Len(f)                            -> {"export_beyond_journal"}
    [] e.seq \in Checkpoints(f) /\ f[e.seq] = e -> {}
    [] e.seq \in Checkpoints(f) /\ f[e.seq] # e -> {"export_differs"}
    [] OTHER                                     -> {"export_missing_from_journal"}

MissingExports(f, ex) ==
  {i \in Checkpoints(f) : \A e \in ex : e # f[i]}

\* verify: everything the report finds wrong.
Problems(f, t, ex) ==
  LET g == Readable(f) IN
  (IF t \/ g # f THEN {"unreadable"} ELSE {})
  \cup (UNION {CheckpointProblems(g, i) : i \in Checkpoints(g)})
  \cup (UNION {ExportProblems(g, e) : e \in ex})
  \cup (IF MissingExports(g, ex) # {} THEN {"export_missing"} ELSE {})

-----------------------------------------------------------------------------
(* What somebody with write access to the file may turn it into: cut its    *)
(* tail, take a line out and renumber the rest, replace a record; with or   *)
(* without computing the checkpoints that follow anew.                      *)

Renumbered(f) == [i \in 1..Len(f) |-> [f[i] EXCEPT !.seq = i]]

Tampered(f) ==
  {SubSeq(f, 1, k) : k \in 0..Len(f)}
  \cup {Renumbered(SubSeq(f, 1, i - 1) \o SubSeq(f, i + 1, Len(f))) : i \in 1..Len(f)}
  \cup {[f EXCEPT ![i] = RecordLine(i, r)] : i \in 1..Len(f), r \in Records}

Resealed(f) ==
  [i \in 1..Len(f) |->
     IF f[i].id = Seal
     THEN [f[i] EXCEPT !.chain = ChainOf(Before(f, i)),
                       !.from = LastCheckpoint(Before(f, i)) + 1,
                       !.prev = LastCheckpoint(Before(f, i))]
     ELSE f[i]]

-----------------------------------------------------------------------------
\* On a journal only its writers touched, whatever crashes and restarts it went
\* through, the lines, the checkpoints and the exports that exist are sound.  (A
\* torn tail is cut by the next recovery, and an export may be missing.)
VerifierAccepts ==
  Problems(file, FALSE, exports) \subseteq {"export_missing"}

\* Every change to a line an exported checkpoint covers, or to itself, and every
\* cut below it, is reported, the checkpoints in the file recomputed or not.
TamperEvident ==
  \A e \in exports : \A f \in Tampered(file) : \A g \in {f, Resealed(f)} :
    (\E i \in 1..e.seq : i > Len(g) \/ g[i] # file[i]) =>
      Problems(g, FALSE, exports) \ {"export_missing"} # {}

(* `audit verify` tells an honest journal from an altered one: no false     *)
(* alarm on what the writers left behind, through any crash or restart, and *)
(* no change behind an exported checkpoint goes unreported.                 *)
VerifierExact == VerifierAccepts /\ TamperEvident

=============================================================================
