------------------------------ MODULE Secrets ------------------------------
(***************************************************************************)
(* The configuration in force and the secrets it carries.  Three actors    *)
(* write the shared ConfigHandle: the startup resolution, the watcher of   *)
(* the global config file, and the background refresher.  Each takes a     *)
(* configuration, awaits one fetch per secret document, and only then      *)
(* writes the handle, so their fetches interleave with rotations of the    *)
(* documents, edits of the file and each other's writes.                   *)
(*                                                                         *)
(* A secret's value is abstracted to the version of the document it was    *)
(* taken from; a snapshot is a function from references to versions.       *)
(***************************************************************************)
EXTENDS Naturals, FiniteSets, TLC

CONSTANTS
    Configs,       \* the configurations the global file may hold
    Docs,          \* the secret documents, numbered in locator order
    References,    \* [Configs -> SUBSET reference records]
    Broken,        \* a file content that is not JSON
    Sources,       \* the schemes with a configured adapter
    Compiled,      \* the schemes this build carries an adapter for
    MaxRotations, MaxEdits, MaxFaults

ASSUME DocsAssumption == Docs \in SUBSET Nat /\ IsFiniteSet(Docs)

(* A reference names a scheme, a document ("none": empty target) and a key  *)
(* of it ("none": no fragment, "empty": a trailing #).                      *)
Schemes == {"file", "vault", "aws", "azure"}
IsReference(ref) == ref.scheme \in Schemes

(* SecretReference::parse: what a well-formed reference may not be. *)
Malformed(ref) ==
    \/ ref.doc \notin Docs
    \/ ref.fragment = "empty"
    \/ ref.scheme = "vault" /\ ref.fragment = "none"

RefsOf(c) == {ref \in References[c] : IsReference(ref)}
DocsOf(c) == {ref.doc : ref \in RefsOf(c)}

VARIABLES
    file,       \* the content of the global config file
    last,       \* the content the watcher compared last
    store,      \* the current version of every document
    handle,     \* the Arc<Config> in force: [cfg, secrets]
    task,       \* the three writers: [pc, cfg, base, got]
    phase,      \* "starting", "serving" or "refused"
    alive,      \* whether the refresher was spawned
    secretHealth,   \* SecretHealth.degraded: a category, or "none"
    nudge,      \* a pending early-refresh notification (a Notify permit)
    tooSoon,    \* an early refresh ran less than EARLY_REFRESH_MIN_GAP ago
    edits, rotations, faults

secretVars == <<file, last, store, handle, task, phase, alive, secretHealth, nudge,
          tooSoon, edits, rotations, faults>>
budget == <<edits, rotations, faults>>

Writers == {"startup", "watcher", "refresher"}
None == <<>>
NoTask(c) == [pc |-> "idle", cfg |-> c, base |-> None, got |-> None]

----------------------------------------------------------------------------
(* SecretResolver::resolve: a malformed reference refuses the whole set at  *)
(* once; otherwise every distinct document is fetched once, concurrently,   *)
(* and the answers are looked at when all are in (join_all).                *)
Refused(c) == \E ref \in RefsOf(c) : Malformed(ref)
StartTask(c, base) ==
    [pc |-> IF RefsOf(c) = {} THEN "resolved"
            ELSE IF Refused(c) THEN "invalid" ELSE "fetching",
     cfg |-> c, base |-> base, got |-> None]

Faulty == {"secret_not_found", "secret_source_unavailable",
           "secret_document_malformed"}

(* One document answers: its current version, or an error of the source.    *)
(* A scheme without an adapter never reaches a source.                      *)
Answer(version, error) == [version |-> version, error |-> error]
SourceFor(d, c) == CHOOSE ref \in RefsOf(c) : ref.doc = d
Response(d, c) ==
    LET scheme == SourceFor(d, c).scheme
    IN  IF scheme \in Sources THEN Answer(store[d], "none")
        ELSE Answer(0, IF scheme \in Compiled THEN "secret_source_unconfigured"
                       ELSE "secret_source_not_compiled")

WithAnswer(t, d, a) ==
    LET got == t.got @@ (d :> a)
    IN  [t EXCEPT !.got = got,
                  !.pc = IF DOMAIN got = DocsOf(t.cfg) THEN "resolved" ELSE @]

Fetch(w, d) ==
    /\ task[w].pc = "fetching"
    /\ d \in DocsOf(task[w].cfg) \ DOMAIN task[w].got
    /\ \/ /\ task' = [task EXCEPT ![w] = WithAnswer(@, d, Response(d, @.cfg))]
          /\ UNCHANGED faults
       \/ /\ faults < MaxFaults
          /\ SourceFor(d, task[w].cfg).scheme \in Sources
          /\ \E e \in Faulty :
                task' = [task EXCEPT ![w] = WithAnswer(@, d, Answer(0, e))]
          /\ faults' = faults + 1
    /\ UNCHANGED <<file, last, store, handle, phase, alive, secretHealth, nudge,
                   tooSoon, edits, rotations>>

(* The first failure, in locator order, is the result. *)
Failures(t) == {d \in DOMAIN t.got : t.got[d].error # "none"}
Failed(t) == t.pc = "invalid" \/ Failures(t) # {}
Category(t) ==
    IF t.pc = "invalid" THEN "secret_reference_invalid"
    ELSE t.got[CHOOSE d \in Failures(t) : \A e \in Failures(t) : d <= e].error

(* Every key of a document is taken from its single fetch. *)
Snapshot(t) == [ref \in RefsOf(t.cfg) |-> t.got[ref.doc].version]
MergedWith(old, newer) ==
    [ref \in DOMAIN old \cup DOMAIN newer |->
        IF ref \in DOMAIN newer THEN newer[ref] ELSE old[ref]]
DiffersIfUnknown(old, newer) == \E ref \in DOMAIN newer : ref \notin DOMAIN old
DiffersFrom(old, newer) ==
    \E ref \in DOMAIN newer : ref \notin DOMAIN old \/ old[ref] # newer[ref]

(* ConfigHandle::update, under the write lock: on top of what is there NOW. *)
AttachWhole(h, snapshot) == [h EXCEPT !.secrets = snapshot]
Attach(h, snapshot) == [h EXCEPT !.secrets = MergedWith(@, snapshot)]

----------------------------------------------------------------------------
SecretsInit ==
    /\ file \in Configs
    /\ last = file
    /\ store = [d \in Docs |-> 0]
    /\ handle = [cfg |-> file, secrets |-> None]
    /\ task = [w \in Writers |->
                 IF w = "startup" THEN StartTask(file, None) ELSE NoTask(file)]
    /\ phase = "starting" /\ alive = FALSE
    /\ secretHealth = "none" /\ nudge = FALSE /\ tooSoon = FALSE
    /\ edits = 0 /\ rotations = 0 /\ faults = 0

(* resolve_startup: fail closed; otherwise attach, and spawn the refresher  *)
(* only when the configuration read at its start had references.            *)
Startup ==
    LET t == task["startup"]
    IN  /\ phase = "starting" /\ t.pc \in {"resolved", "invalid"}
        /\ task' = [task EXCEPT !["startup"] = NoTask(t.cfg)]
        /\ IF Failed(t)
           THEN phase' = "refused" /\ UNCHANGED <<handle, alive>>
           ELSE /\ phase' = "serving"
                /\ handle' = Attach(handle, Snapshot(t))
                /\ alive' = (RefsOf(t.cfg) # {})
        /\ UNCHANGED <<file, last, store, secretHealth, nudge, tooSoon, budget>>

(* The watcher's tick, spawned before the startup resolution: the bytes are *)
(* read and parsed, and remembered as compared even when they are refused.  *)
WatchTick ==
    /\ phase # "refused"
    /\ task["watcher"].pc = "idle" /\ file # last
    /\ last' = file
    /\ task' = IF file = Broken THEN task
               ELSE [task EXCEPT !["watcher"] = StartTask(file, None)]
    /\ UNCHANGED <<file, store, handle, phase, alive, secretHealth, nudge, tooSoon,
                   budget>>

(* resolve_reloaded answered: the whole handle is replaced, or kept. *)
WatchSwap ==
    LET t == task["watcher"]
    IN  /\ t.pc \in {"resolved", "invalid"}
        /\ handle' = IF Failed(t) THEN handle
                     ELSE [cfg |-> t.cfg, secrets |-> Snapshot(t)]
        /\ task' = [task EXCEPT !["watcher"] = NoTask(t.cfg)]
        /\ UNCHANGED <<file, last, store, phase, alive, secretHealth, nudge,
                       tooSoon, budget>>

(* refresh_once begins with the configuration in force NOW. *)
Refreshing == [task EXCEPT !["refresher"] = StartTask(handle.cfg, handle.secrets)]

RefreshTick ==
    /\ alive /\ task["refresher"].pc = "idle"
    /\ task' = Refreshing
    /\ UNCHANGED <<file, last, store, handle, phase, alive, secretHealth, nudge,
                   tooSoon, budget>>

(* An upstream 401: one early refresh, unless one ran within the gap. *)
RefreshEarly ==
    /\ alive /\ task["refresher"].pc = "idle" /\ nudge
    /\ nudge' = FALSE /\ tooSoon' = TRUE
    /\ task' = IF tooSoon THEN task ELSE Refreshing
    /\ UNCHANGED <<file, last, store, handle, phase, alive, secretHealth, budget>>

(* refresh_once ends: compared with the OLD snapshot, attached to the new. *)
RefreshDone ==
    LET t == task["refresher"]
    IN  /\ t.pc \in {"resolved", "invalid"}
        /\ handle' = IF ~Failed(t) /\ DiffersFrom(t.base, Snapshot(t))
                     THEN Attach(handle, Snapshot(t)) ELSE handle
        /\ secretHealth' = IF Failed(t) THEN Category(t) ELSE "none"
        /\ task' = [task EXCEPT !["refresher"] = NoTask(t.cfg)]
        /\ UNCHANGED <<file, last, store, phase, alive, nudge, tooSoon, budget>>

(* note_upstream_unauthorized, request_early_refresh *)
Unauthorized ==
    /\ phase = "serving" /\ ~nudge
    /\ nudge' = TRUE
    /\ UNCHANGED <<file, last, store, handle, task, phase, alive, secretHealth,
                   tooSoon, budget>>

GapPasses ==
    /\ tooSoon /\ tooSoon' = FALSE
    /\ UNCHANGED <<file, last, store, handle, task, phase, alive, secretHealth,
                   nudge, budget>>

(* The operator: edits the file, rotates a document. *)
Edit ==
    /\ edits < MaxEdits /\ edits' = edits + 1
    /\ \E c \in (Configs \cup {Broken}) \ {file} : file' = c
    /\ UNCHANGED <<last, store, handle, task, phase, alive, secretHealth, nudge,
                   tooSoon, rotations, faults>>

Rotate(d) ==
    /\ rotations < MaxRotations /\ rotations' = rotations + 1
    /\ store' = [store EXCEPT ![d] = @ + 1]
    /\ UNCHANGED <<file, last, handle, task, phase, alive, secretHealth, nudge,
                   tooSoon, edits, faults>>

SecretsNext ==
    \/ Startup \/ WatchTick \/ WatchSwap
    \/ RefreshTick \/ RefreshEarly \/ RefreshDone
    \/ Unauthorized \/ GapPasses \/ Edit
    \/ \E d \in Docs : Rotate(d)
    \/ \E w \in Writers, d \in Docs : Fetch(w, d)

SecretsSpec == SecretsInit /\ [][SecretsNext]_secretVars

----------------------------------------------------------------------------
(* Once the server serves, every reference of the configuration in force    *)
(* has a value, whatever reloads, refreshes and failures overlapped: no     *)
(* request meets a credential that startup promised to refuse (fail closed) *)
(* or that one writer's update dropped from the other's.                    *)
NoHoles == phase = "serving" => RefsOf(handle.cfg) \subseteq DOMAIN handle.secrets

Current ==
    alive => /\ secretHealth = "none"
             /\ \A ref \in RefsOf(handle.cfg) :
                    handle.secrets[ref] = store[ref.doc]

(* When rotations, edits and provider faults stop, a server whose refresher *)
(* runs ends up serving the current version of every secret, healthy: an    *)
(* update lost between the watcher and the refresher is repaired by a later *)
(* tick, although a refresh compares with a snapshot that may be outdated.  *)
SecretsConverge == <>[]Current
=============================================================================
