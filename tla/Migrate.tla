------------------------------ MODULE Migrate ------------------------------
(***************************************************************************)
(* `mcp-devtools creds migrate` (cli/creds.rs): plaintext secrets of the   *)
(* global configuration move into the OS keychain and the file gets the    *)
(* word "keychain" in their place.  Two sites of the file may name one     *)
(* keychain slot (a NinjaOne server entry and the top-level key of the     *)
(* same account).  Any keychain or file call may fail, those of the        *)
(* rollback too, and the process may be killed between any two of them.    *)
(***************************************************************************)
EXTENDS Integers, SequencesExt

CONSTANTS Sites,        \* the sites of the file in planning order, a sequence
          EntrySites,   \* those inside NINJAONE_SERVERS; the others are keys of a vendor
          SlotOf,       \* site -> keychain slot (kind, vendor, principal)
          Texts,        \* what a site may hold
          Trim,         \* text -> the text without blanks around it, Absent if it is all blanks
          RefTexts,     \* the texts that name a secret elsewhere (vault://, file://, ...)
          Fetched,      \* reference -> the secret the resolver puts in its place, or Absent
          Values,       \* what the keychain holds before: never an empty secret
          Absent,       \* no text, no secret, or an empty slot
          MaxCallFaults     \* bound: failing calls and kills

VARIABLES configs,      \* configs.json: site -> text
          chain,        \* the keychain: slot -> value
          before,       \* history: file and keychain at the start, and whether
                        \* some run was given --force
          mig,          \* the migration: step, positions of the plan that are through,
                        \* rollback list, sites to rewrite
          callFaults

migrateVars == <<configs, chain, before, mig, callFaults>>

SiteSet == {Sites[i] : i \in DOMAIN Sites}
Slots == {SlotOf[s] : s \in SiteSet}
Sentinel == "keychain"
SentinelUri == "keychain://"

ASSUME MigrateConstants ==
  /\ Sites \in Seq(SiteSet) /\ EntrySites \subseteq SiteSet /\ SlotOf \in [SiteSet -> Slots]
  /\ Absent \notin Texts \cup Values
  /\ Trim \in [Texts -> Texts \cup {Absent}]
  /\ Sentinel \in Texts /\ Trim[Sentinel] = Sentinel
  /\ Sentinel \notin RefTexts

----------------------------------------------------------------------------
(* What the server makes of a text (resolve_configured_secret after the    *)
(* expansion of references).  Either spelling of the sentinel, blanks      *)
(* around it or not, stands for the slot, and so does a site that is not   *)
(* there.  Any other text is the secret itself, without the blanks around  *)
(* it; a reference is the secret it names, but not inside NINJAONE_SERVERS,*)
(* whose text is expanded only as a whole: there it is refused.  What a    *)
(* slot holds is used as it is.                                            *)

IsKeychainSentinel(text) == text \in {Sentinel, SentinelUri}
UsesSlot(text) == text = Absent \/ IsKeychainSentinel(Trim[text])

Literal(s, text) ==
  IF Trim[text] \in RefTexts
  THEN IF s \in EntrySites THEN Absent ELSE Fetched[Trim[text]]
  ELSE Trim[text]

Resolves(files, chains, s) ==
  IF UsesSlot(files[s]) THEN chains[SlotOf[s]] ELSE Literal(s, files[s])

----------------------------------------------------------------------------
(* Planning.  A server entry is read without the blanks around it, a       *)
(* vendor's key with them; only the word "keychain" itself is known as the *)
(* sentinel, and every other text is planned as a secret, a reference and  *)
(* "keychain://" too.  A principal that is itself a reference is left out. *)

PlanText(s, text) == IF s \in EntrySites /\ text # Absent THEN Trim[text] ELSE text
ToVerify(s, text) == PlanText(s, text) = Sentinel
ToWrite(s, text) == PlanText(s, text) \notin {Absent, Sentinel}

Planned == {i \in DOMAIN Sites : PlanText(Sites[i], configs[Sites[i]]) # Absent}
Filed(s) == PlanText(s, configs[s])
Writes(s) == ToWrite(s, configs[s])

\* Two sites may not file different secrets under one slot.
PrincipalConflict ==
  \E s, t \in SiteSet : /\ Writes(s) /\ Writes(t)
                        /\ SlotOf[s] = SlotOf[t] /\ Filed(s) # Filed(t)

NotRunning == [pc |-> "idle", through |-> {}, force |-> FALSE, applied |-> <<>>, rewrite |-> {}]

MigrateInit ==
  /\ configs \in [SiteSet -> Texts \cup {Absent}]
  /\ chain \in [Slots -> Values \cup {Absent}]
  /\ before = [file |-> configs, chain |-> chain, forced |-> FALSE]
  /\ mig = NotRunning
  /\ callFaults = 0

Begin(force) ==
  /\ mig.pc = "idle"
  /\ mig' = [NotRunning EXCEPT !.force = force,
                         !.pc = IF PrincipalConflict THEN "failed" ELSE "slot"]
  /\ before' = [before EXCEPT !.forced = @ \/ force]
  /\ UNCHANGED <<configs, chain, callFaults>>

----------------------------------------------------------------------------
(* The keychain writes, one planned site after the other. *)

\* A rollback list that forgets what a slot held before.
AppliedWithoutPrior(slot, prior) == [slot |-> slot, prior |-> Absent]
Applied(slot, prior) == [slot |-> slot, prior |-> prior]

\* The run has failed: what it wrote is put back.
Undo == mig' = [mig EXCEPT !.pc = "undo"]

Fault == callFaults < MaxCallFaults /\ callFaults' = callFaults + 1

\* rollback, the last write first.  A call that fails is logged and passed over.
Restore ==
  LET last == mig.applied[Len(mig.applied)] IN
  /\ mig.pc = "undo" /\ mig.applied # <<>>
  /\ mig' = [mig EXCEPT !.applied = Front(@)]
  /\ \/ chain' = [chain EXCEPT ![last.slot] = last.prior] /\ UNCHANGED callFaults
     \/ Fault /\ UNCHANGED chain
  /\ UNCHANGED <<configs, before>>

Undone ==
  /\ mig.pc = "undo" /\ mig.applied = <<>>
  /\ mig' = [mig EXCEPT !.pc = "failed"]
  /\ UNCHANGED <<configs, chain, before, callFaults>>

Prior(s) == chain[SlotOf[s]]

\* The loop is at position i of the plan.
AtSlot(i) ==
  /\ mig.pc = "slot"
  /\ i \in Planned \ mig.through
  /\ \A j \in Planned \ mig.through : i <= j

Advance(i, rewrite) ==
  [mig EXCEPT !.through = @ \cup {i}, !.rewrite = @ \cup rewrite]

\* The pre-read fails: the call returns at once, without the rollback.
PreReadFails(i) ==
  /\ AtSlot(i)
  /\ Fault
  /\ mig' = [mig EXCEPT !.pc = "failed"]
  /\ UNCHANGED <<configs, chain, before>>

\* The sentinel is there already: its slot must hold something.
VerifySentinel(i) ==
  /\ AtSlot(i)
  /\ ToVerify(Sites[i], configs[Sites[i]])
  /\ IF Prior(Sites[i]) = Absent
     THEN Undo
     ELSE mig' = Advance(i, {})
  /\ UNCHANGED <<configs, chain, before, callFaults>>

InSync(i) ==
  /\ AtSlot(i)
  /\ Writes(Sites[i]) /\ Prior(Sites[i]) = Filed(Sites[i])
  /\ mig' = Advance(i, {Sites[i]})
  /\ UNCHANGED <<configs, chain, before, callFaults>>

\* A different value in the slot is kept unless --force is given.
MayOverwrite(s) == Prior(s) = Absent \/ mig.force

Clash(i) ==
  /\ AtSlot(i)
  /\ Writes(Sites[i]) /\ Prior(Sites[i]) # Filed(Sites[i]) /\ ~MayOverwrite(Sites[i])
  /\ Undo
  /\ UNCHANGED <<configs, chain, before, callFaults>>

Written(s) == [chain EXCEPT ![SlotOf[s]] = Filed(s)]

StoreSecret(i) ==
  LET s == Sites[i] IN
  /\ AtSlot(i)
  /\ Writes(s) /\ Prior(s) # Filed(s) /\ MayOverwrite(s)
  /\ \/ /\ chain' = Written(s)
        /\ mig' = [Advance(i, {s}) EXCEPT !.applied = Append(@, Applied(SlotOf[s], Prior(s)))]
        /\ UNCHANGED callFaults
     \/ Fault /\ Undo /\ UNCHANGED chain          \* the write failed
     \/ Fault /\ Undo /\ chain' = Written(s)      \* the write succeeded, its readback failed
  /\ UNCHANGED <<configs, before>>

----------------------------------------------------------------------------
(* The backup and the atomic replacement of the file. *)

RewriteToSentinel(files) ==
  [s \in SiteSet |-> IF s \in mig.rewrite THEN Sentinel ELSE files[s]]

AllStored == mig.pc = "slot" /\ Planned \subseteq mig.through

Rewrite ==
  /\ AllStored
  /\ \/ /\ configs' = RewriteToSentinel(configs)
        /\ mig' = [mig EXCEPT !.pc = "done"]
        /\ UNCHANGED callFaults
     \/ /\ mig.rewrite # {}
        /\ Fault
        /\ Undo                    \* the backup or the replacement failed
        /\ UNCHANGED configs
  /\ UNCHANGED <<chain, before>>

\* External: the process is killed; the operator runs the command again.
Kill == /\ mig.pc \in {"slot", "undo"}
        /\ Fault
        /\ mig' = [mig EXCEPT !.pc = "killed"]
        /\ UNCHANGED <<configs, chain, before>>
Again == /\ mig.pc \in {"failed", "killed", "done"}
         /\ mig' = NotRunning
         /\ UNCHANGED <<configs, chain, before, callFaults>>

MigrateNext ==
  \/ \E force \in BOOLEAN : Begin(force)
  \/ \E i \in DOMAIN Sites :
       PreReadFails(i) \/ VerifySentinel(i) \/ InSync(i) \/ Clash(i) \/ StoreSecret(i)
  \/ Restore \/ Undone \/ Rewrite \/ Kill \/ Again

MigrateSpec == MigrateInit /\ [][MigrateNext]_migrateVars

----------------------------------------------------------------------------
\* The text is planned as something else than the server makes of it: the words
\* of a reference, "keychain://", a vendor's key with blanks around it.  After
\* the migration the server sends these words.
Misfiled(s, text) ==
  ToWrite(s, text) /\ (UsesSlot(text) \/ Literal(s, text) # PlanText(s, text))

\* A slot holds its first value, or a secret the file had for it where the guard
\* against stale configuration lets it.
MayHold(v, k) ==
  \/ v = before.chain[k]
  \/ /\ before.chain[k] = Absent \/ before.forced
     /\ \E t \in SiteSet : /\ SlotOf[t] = k /\ ToWrite(t, before.file[t])
                           /\ v = PlanText(t, before.file[t])

\* However the migration ends, wherever it is killed and run again, and
\* whatever call of the rollback itself fails: a slot of the keychain that held
\* a secret still holds it unless --force was given, and a secret the server
\* could resolve before still resolves to the same value; only --force may
\* replace it for the sites that read the slot (migrate_with's stale-clobber
\* guard and its order: keychain, verification, backup, file).  Excepted from
\* the second part are the sites whose text is Misfiled.
NoSecretLost ==
  /\ \A k \in Slots : MayHold(chain[k], k)
  /\ \A s \in SiteSet :
       LET old == Resolves(before.file, before.chain, s)
       IN \/ old = Absent
          \/ Resolves(configs, chain, s) = old
          \/ before.forced /\ UsesSlot(before.file[s])
          \/ Misfiled(s, before.file[s])

=============================================================================
