-------------------------------- MODULE MCLive --------------------------------
(***************************************************************************)
(* What must eventually happen, part by part; `component` says which one a *)
(* behaviour is about, and the parts share no state in the program either: *)
(*   calls    one tool call with up to three outbound requests             *)
(*   bundle   a signed bundle and edits of its files                       *)
(*   secrets  the configuration in force, the file watcher, the refresher  *)
(***************************************************************************)
EXTENDS Secrets, ToolCall

CONSTANTS
  d1, d2, dbad, dwild, Missing, MaxInstalls, MaxMoves    \* Bundle

VARIABLES
  component,
  disk, up, opened, force, health, noted, mutation, job, journal, late, poisoned,
  runs, diskEdits, installs, lastForce, unapplied

bundleVars == <<disk, up, opened, force, health, noted, mutation, job, journal, late, poisoned,
                runs, diskEdits, installs, lastForce, unapplied>>

Bundles == INSTANCE Bundle WITH Docs <- {d1, d2, dbad, dwild}, Compiles <- {d1, d2, dwild},
                                Signed <- {d1, d2, dbad}, First <- d1, MaxEdits <- 2, MaxRuns <- 1,
                                edits <- diskEdits, last <- lastForce

(* Two documents, the first with two keys.  "user" holds one of them,   *)
(* "pair" both, "both" adds the second document, "plain" no reference, *)
(* "typo" a reference that does not parse and "aws" one without an adapter.*)
Ref(scheme, doc, fragment) == [scheme |-> scheme, doc |-> doc, fragment |-> fragment]
userRef == Ref("vault", 1, "user")
MCReferences ==
  [plain |-> {}, user |-> {userRef}, pair |-> {userRef, Ref("vault", 1, "token"), Ref("literal", 1, "none")},
   both |-> {userRef, Ref("file", 2, "none")}, typo |-> {userRef, Ref("vault", 2, "none")},
   aws |-> {Ref("aws", 2, "none")}]

-----------------------------------------------------------------------------
MCInit ==
  /\ CallInit /\ Bundles!Init /\ SecretsInit
  /\ \/ component = "secrets"
     \/ component \in {"calls", "bundle"} /\ file = "plain"

MCNext ==
  /\ \/ component = "calls" /\ CallNext /\ UNCHANGED <<bundleVars, secretVars>>
     \/ component = "bundle" /\ Bundles!Next /\ UNCHANGED <<callVars, secretVars>>
     \/ component = "secrets" /\ SecretsNext /\ UNCHANGED <<callVars, bundleVars>>
  /\ UNCHANGED component

(* Fairness, of the part that runs.  Calls are tasks of the runtime: each  *)
(* keeps running and its bounded waits end, and nothing is assumed of the  *)
(* journal.  For a bundle see Bundle (Fairness).  Of the secrets' actors   *)
(* the timers fire, and a provider read ends: every read has a time limit. *)
Is(part) == component = part

CallsFair == \A c \in Calls : WF_callVars(Is("calls") /\ CallStep(c))

BundleFair ==
  /\ \A x \in {"watcher", "reload", "install"} : WF_bundleVars(Is("bundle") /\ Bundles!Step(x))
  /\ WF_bundleVars(Is("bundle") /\ Bundles!Install)
  /\ SF_bundleVars(Is("bundle") /\ Bundles!BeginJob("watcher"))
  /\ SF_bundleVars(Is("bundle") /\ Bundles!ChangeJournaled("watcher"))
  /\ SF_bundleVars(Is("bundle") /\ Bundles!RejectJournaled("watcher"))

SecretsFair ==
  /\ WF_secretVars(Is("secrets") /\ Startup) /\ WF_secretVars(Is("secrets") /\ WatchTick)
  /\ WF_secretVars(Is("secrets") /\ WatchSwap)
  /\ WF_secretVars(Is("secrets") /\ RefreshTick) /\ WF_secretVars(Is("secrets") /\ RefreshDone)
  /\ \A w \in Writers, d \in Docs : WF_secretVars(Is("secrets") /\ Fetch(w, d))

MCSpec ==
  /\ MCInit /\ [][MCNext]_<<component, callVars, bundleVars, secretVars>>
  /\ CallsFair /\ BundleFair /\ SecretsFair

-----------------------------------------------------------------------------
(* The journal may stall for ever, a caller still gets an answer; and      *)
(* while its writer runs, a call that was dispatched ends with a durable   *)
(* outcome (ToolCall: CallerAnswered, DispatchEvidenced).                  *)
CallsEnd == CallerAnswered /\ DispatchEvidenced

(* Files that stay good are in force in the end, and files that stay bad   *)
(* are recorded as rejected (Bundle).                                      *)
BundleSettles == Bundles!ConvergesToDisk /\ Bundles!RejectionRecorded
===============================================================================
