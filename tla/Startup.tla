------------------------------ MODULE Startup ------------------------------
(***************************************************************************)
(* How a process comes to serve (server/http.rs run_http_with_edition,     *)
(* bootstrap/mod.rs ServerBuilder::build, server/stdio.rs).  The           *)
(* configuration is loaded twice: once for the transport's own decisions   *)
(* (authentication, the completeness of enterprise mode) and once by the   *)
(* builder (journal, policy), and the global file may be edited in         *)
(* between.  The text of a setting says what it is: "good" can be used,    *)
(* "broken" is there and cannot be; a policy is "signed" or "unsigned".    *)
(***************************************************************************)
EXTENDS Config

CONSTANTS Launches,      \* [transport, role, bind, env, dotenv]: how the process is started
          GlobalFiles,   \* contents of the global configuration file
          MaxEdits       \* bound: edits of that file while the process starts

VARIABLES launch, file, edits,
          phase,         \* where the start has come to
          first, own,    \* the transport's copy of the configuration and the server's
          journal,       \* the sink: "none", "unsigned" or "signed" checkpoints
          policy,        \* "none" yet, "allow_all", or what was loaded: "unsigned", "signed"
          revocations,   \* a verified revocation list is attached
          evidence       \* the startup records that are durable

startupVars == <<launch, file, edits, phase, first, own, journal, policy, revocations, evidence>>

NoConfig == [shared |-> Nothing, byVendor |-> Nothing, secrets |-> Nothing]

StartupInit ==
  /\ launch \in Launches /\ file \in GlobalFiles /\ edits = 0 /\ phase = "load"
  /\ first = NoConfig /\ own = NoConfig
  /\ journal = "none" /\ policy = "none" /\ revocations = FALSE /\ evidence = {}

LoadedConfig == LoadFromSources(launch.env, launch.dotenv, file)

-----------------------------------------------------------------------------
(* What the settings say.                                                  *)

AuthModeParse(raw) ==
  CASE raw \in Blanks \cup {Unset, "off"} -> "off"
    [] raw \in {"oidc", "okta"} -> raw
    [] OTHER -> "error"

EmaEnabled(c) ==
  LET raw == Get(c, "MCP_EMA_ENABLED")
  IN  IF raw \in {Unset, "false"} THEN "false" ELSE IF raw = "true" THEN "true" ELSE "error"

RoleParse(raw) == IF raw \in Blanks \cup {Unset} THEN "all" ELSE IF raw \in {"all", "gateway", "control"} THEN raw ELSE "error"
ServesGateway(role) == role \in {"all", "gateway"}
ServesControl(role) == role \in {"all", "control"}

(* Absent, or usable: the settings that refuse the start when malformed.   *)
Sound(c, key) == Configured(c, key) => Get(c, key) # "broken"
Usable(c, key) == Configured(c, key) /\ Get(c, key) # "broken"

ResolveBindAddr(raw) == IF raw \in Blanks \cup {Unset} THEN "loopback" ELSE raw

ValidateStartupSecurity(mode, addr) == mode = "off" => addr = "loopback"

(* One key family only, and what it needs.                                 *)
OidcSettings(c, mode) ==
  LET other == IF mode = "oidc" THEN "MCP_OKTA_ISSUER" ELSE "MCP_OIDC_ISSUER"
      own_ == IF mode = "oidc" THEN "MCP_OIDC_ISSUER" ELSE "MCP_OKTA_ISSUER"
  IN  ~Configured(c, other) /\ Usable(c, own_)

RequireJournal(c) == Configured(c, "MCP_AUDIT_JOURNAL_DIR") /\ Configured(c, "MCP_POLICY_FILE")

RequireEnterpriseEvidence(c) ==
  /\ Configured(c, "MCP_AUDIT_JOURNAL_DIR")
  /\ Configured(c, "MCP_POLICY_FILE")
  /\ Configured(c, "MCP_POLICY_PUBLIC_KEY")
  /\ Configured(c, "MCP_AUDIT_SIGNING_KEY")

AdminPrincipals(c) ==
  /\ Sound(c, "MCP_ADMIN_PRINCIPALS")
  /\ ~(Get(c, "MCP_ADMIN_PRINCIPALS") = "any" /\ Get(c, "MCP_ADMIN_APPROVALS") = "required")

EnterpriseInboundAuth(c, mode) ==
  /\ OidcSettings(c, mode)
  /\ Usable(c, "MCP_PUBLIC_URL") /\ Sound(c, "MCP_RATE_LIMIT_PER_PRINCIPAL")
  /\ RequireEnterpriseEvidence(c)
  /\ Usable(c, "MCP_POLICY_PUBLIC_KEY")
  /\ Configured(c, "MCP_REVOCATION_FILE") /\ Get(c, "MCP_REVOCATION_FILE") = "signed"
  /\ AdminPrincipals(c)

(* Nothing to open, or the checkpoint settings and the directory are good. *)
OpenConfiguredJournal(c) ==
  Configured(c, "MCP_AUDIT_JOURNAL_DIR") =>
    Sound(c, "MCP_AUDIT_SIGNING_KEY") /\ Get(c, "MCP_AUDIT_JOURNAL_DIR") # "broken"

JournalOf(c) ==
  IF ~Configured(c, "MCP_AUDIT_JOURNAL_DIR") THEN "none"
  ELSE IF Configured(c, "MCP_AUDIT_SIGNING_KEY") THEN "signed" ELSE "unsigned"

LoadConfiguredPolicy(c) ==
  Configured(c, "MCP_POLICY_FILE") =>
    /\ Sound(c, "MCP_POLICY_PUBLIC_KEY")
    /\ Get(c, "MCP_POLICY_FILE") \in (IF Configured(c, "MCP_POLICY_PUBLIC_KEY") THEN {"signed"} ELSE {"signed", "unsigned"})

PolicyOf(c) ==
  CASE ~Configured(c, "MCP_POLICY_FILE") -> "allow_all"
    [] Configured(c, "MCP_POLICY_FILE") /\ Configured(c, "MCP_POLICY_PUBLIC_KEY") -> "signed"
    [] OTHER -> "unsigned"

(* The vault adapter, when an address is set: a method is named, never     *)
(* guessed, and has its credential, which is no vault reference itself.    *)
SecretSources(c) ==
  LET method == Get(c, "MCP_VAULT_AUTH")
  IN  Configured(c, "MCP_VAULT_ADDR") =>
        /\ Usable(c, "MCP_VAULT_ADDR") /\ method \in {"token", "approle", "kubernetes"}
        /\ method = "token" => Usable(c, "MCP_VAULT_TOKEN")
        /\ method = "approle" => Usable(c, "MCP_VAULT_ROLE_ID") /\ Usable(c, "MCP_VAULT_SECRET_ID")
        /\ method = "kubernetes" => Usable(c, "MCP_VAULT_ROLE")

WireUsage(c) == Sound(c, "MCP_ROLLUP_STORE")
GateFromConfig(c) == Configured(c, "MCP_ADMIN_APPROVALS") => Get(c, "MCP_ADMIN_APPROVALS") = "off"

ForwardingSettings(c) ==
  Configured(c, "MCP_AUDIT_FORWARD_URL") =>
    /\ Get(c, "MCP_AUDIT_FORWARD_URL") # "broken"
    /\ Configured(c, "MCP_AUDIT_FORWARD_JOURNAL_DIR") \/ Configured(c, "MCP_AUDIT_JOURNAL_DIR")

-----------------------------------------------------------------------------
(* The start, step by step.                                                *)

Mode == IF launch.transport = "stdio" THEN "off" ELSE AuthModeParse(Get(first, "MCP_AUTH_MODE"))
Role == IF launch.transport = "stdio" THEN "stdio" ELSE RoleParse(launch.role)
Addr == ResolveBindAddr(launch.bind)

(* Refuse, or go on.                                                       *)
Proceed(sound, to) == phase' = IF sound THEN to ELSE "refused"

LoadHttp ==
  /\ launch.transport = "http" /\ phase = "load" /\ first' = LoadedConfig
  /\ LET mode == AuthModeParse(Get(LoadedConfig, "MCP_AUTH_MODE"))
         ema == EmaEnabled(LoadedConfig)
     IN  Proceed(/\ RoleParse(launch.role) # "error" /\ mode # "error" /\ ema # "error"
                 /\ ema = "true" => mode # "off"
                 /\ Addr # "bad" /\ ValidateStartupSecurity(mode, Addr), "build")
  /\ UNCHANGED <<launch, file, edits, own, journal, policy, revocations, evidence>>

(* Stdio asks the process environment alone.                               *)
LoadStdio ==
  /\ launch.transport = "stdio" /\ phase = "load"
  /\ Proceed(AuthModeParse(At(launch.env, "MCP_AUTH_MODE")) = "off", "build")
  /\ UNCHANGED <<launch, file, edits, first, own, journal, policy, revocations, evidence>>

Build ==
  /\ phase = "build" /\ own' = LoadedConfig
  /\ LET sound == /\ OpenConfiguredJournal(LoadedConfig) /\ LoadConfiguredPolicy(LoadedConfig)
                  /\ SecretSources(LoadedConfig) /\ WireUsage(LoadedConfig) /\ GateFromConfig(LoadedConfig)
     IN  /\ Proceed(sound, IF Mode = "off" THEN "setup" ELSE "auth")
         /\ journal' = IF sound THEN JournalOf(LoadedConfig) ELSE "none"
         /\ policy' = IF sound THEN PolicyOf(LoadedConfig) ELSE "none"
  /\ UNCHANGED <<launch, file, edits, first, revocations, evidence>>

Auth ==
  /\ phase = "auth"
  /\ LET sound == EnterpriseInboundAuth(first, Mode)
     IN  Proceed(sound, "setup") /\ revocations' = sound
  /\ UNCHANGED <<launch, file, edits, first, own, journal, policy, evidence>>

(* The edition's hook, then the issuer's metadata when EMA is on.          *)
Setup(reachable) ==
  /\ phase = "setup"
  /\ Proceed(launch.transport = "http" =>
               /\ Get(first, "MCP_CONSOLE_CLIENT_ID") = Unset
               /\ EmaEnabled(first) = "true" => reachable, "resolve")
  /\ UNCHANGED <<launch, file, edits, first, own, journal, policy, revocations, evidence>>

ResolveSecrets(answered) ==
  /\ phase = "resolve"
  /\ LET refs == SecretReferences(own)
     IN  /\ Proceed(refs = {} \/ answered, "evidence")
         /\ own' = IF answered THEN WithSecrets(own, [r \in refs |-> "good"]) ELSE own
  /\ UNCHANGED <<launch, file, edits, first, journal, policy, revocations, evidence>>

(* A no-op without a journal or without a policy from a file.              *)
JournalPolicy(durable) ==
  /\ phase = "evidence"
  /\ LET needed == journal # "none" /\ policy # "allow_all"
     IN  /\ Proceed(needed => durable, "evidence_auth")
         /\ evidence' = IF needed /\ durable THEN {"policy"} ELSE {}
  /\ UNCHANGED <<launch, file, edits, first, own, journal, policy, revocations>>

(* The sink reached the authentication only if the server has one.         *)
JournalRevocations(durable) ==
  /\ phase = "evidence_auth"
  /\ LET needed == revocations /\ journal # "none"
     IN  /\ Proceed(needed => durable, "control")
         /\ evidence' = IF needed /\ durable THEN evidence \cup {"revocations"} ELSE evidence
  /\ UNCHANGED <<launch, file, edits, first, own, journal, policy, revocations>>

StartControl ==
  /\ phase = "control"
  /\ Proceed(ServesControl(Role) => ForwardingSettings(own), "bind")
  /\ UNCHANGED <<launch, file, edits, first, own, journal, policy, revocations, evidence>>

Bind(free) ==
  /\ phase = "bind"
  /\ Proceed(launch.transport = "http" => free, "serving")
  /\ UNCHANGED <<launch, file, edits, first, own, journal, policy, revocations, evidence>>

(* An operator saves the global file.                                      *)
EditFile ==
  /\ edits < MaxEdits /\ phase \notin {"serving", "refused"}
  /\ edits' = edits + 1 /\ file' \in GlobalFiles \ {file}
  /\ UNCHANGED <<launch, phase, first, own, journal, policy, revocations, evidence>>

StartupNext ==
  \/ LoadHttp \/ LoadStdio \/ Build \/ Auth \/ StartControl \/ EditFile
  \/ \E fine \in BOOLEAN :
       \/ Setup(fine) \/ ResolveSecrets(fine) \/ JournalPolicy(fine)
       \/ JournalRevocations(fine) \/ Bind(fine)

StartupSpec == StartupInit /\ [][StartupNext]_startupVars

-----------------------------------------------------------------------------
(* What the process then serves: the routes, and who guards each.          *)
Guard(route) == IF Mode # "off" /\ route \in {"/mcp", "/artifacts", "/admin"} THEN "bearer" ELSE "open"

Routes ==
  [r \in {"/", "/metrics"}
           \cup (IF ServesGateway(Role) THEN {"/mcp", "/artifacts"} ELSE {})
           \cup (IF Mode # "off" /\ ServesControl(Role) THEN {"/admin"} ELSE {}) |-> Guard(r)]

(* A process that listens on the network takes tool calls and              *)
(* administration only with a token, and (run_http_with_edition, plan      *)
(* 1.2) then has a journal with signed checkpoints, a policy and a         *)
(* revocation list that were verified, and durable records of both,        *)
(* through any failure on the way and any edit of the file, unless the     *)
(* edit falls exactly between the transport's load and the builder's.      *)
EnterpriseComplete ==
  phase = "serving" /\ launch.transport = "http" =>
    /\ Addr # "loopback" => Mode # "off" /\ \A r \in DOMAIN Routes \ {"/", "/metrics"} : Routes[r] = "bearer"
    /\ Mode # "off" /\ [own EXCEPT !.secrets = Nothing] = first =>
         /\ journal = "signed" /\ policy = "signed" /\ revocations
         /\ evidence = {"policy", "revocations"}
=============================================================================
