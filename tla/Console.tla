------------------------------ MODULE Console ------------------------------
(***************************************************************************)
(* The NinjaOne console sessions: ninjaone_login exchanges the configured  *)
(* account for a session key that is kept in memory per (server, account), *)
(* later requests carry it, and a 401 evicts it                            *)
(* (vendor/ninjaone/{mod,session,mfa,totp}.rs, controllers/ninjaone.rs).   *)
(*                                                                         *)
(* A server alias may carry its own account.  A secret is modelled by the  *)
(* account it belongs to, so that sending one account's password or code   *)
(* to another is visible.  The static carriers (access token, session key, *)
(* cookie) are configured once at top level and belong to no account.      *)
(***************************************************************************)
EXTENDS Naturals, FiniteSets

CONSTANTS Sessioners,      \* concurrent tool calls
          Aliases,         \* server aliases, NoAlias among them
          NoAlias,
          ConsoleConfigs,  \* configurations a reload may bring
          Nobody,          \* no account, no value, no key
          MaxKeys          \* session keys the server mints

\* A secret of the configuration belongs to the account it is configured with.
Account(cfg, entry) == IF entry.email # Nobody THEN entry.email ELSE cfg.email
Owned(secret, account) == secret = Nobody \/ secret.owner = account

ASSUME ConsoleConstants ==
  \A cfg \in ConsoleConfigs :
    /\ Owned(cfg.password, cfg.email) /\ Owned(cfg.totpCommand, cfg.email)
    /\ Owned(cfg.totpSecret, cfg.email)
    /\ \A alias \in Aliases \ {NoAlias} :
         /\ Owned(cfg.servers[alias].password, Account(cfg, cfg.servers[alias]))
         /\ Owned(cfg.servers[alias].totpCommand, Account(cfg, cfg.servers[alias]))
         /\ Owned(cfg.servers[alias].totpSecret, Account(cfg, cfg.servers[alias]))

VARIABLES consoleConfig,   \* the configuration in force
          kept,            \* SessionCache: (url, account) -> key
          liveKeys,        \* the keys the server still accepts
          mintedFor,       \* history: key -> the (url, account) it was minted for
          seat             \* the tool calls in progress

consoleVars == <<consoleConfig, kept, liveKeys, mintedFor, seat>>

----------------------------------------------------------------------------
(* A configuration is the top-level keys and one entry per alias; an entry *)
(* field is Nobody when it is absent, blank or not there at all.           *)

BlankEntry(url) ==
  [url |-> url, email |-> Nobody, password |-> Nobody,
   totpCommand |-> Nobody, totpSecret |-> Nobody]

EntryOf(cfg, alias) ==
  IF alias = NoAlias THEN BlankEntry(cfg.url) ELSE cfg.servers[alias]

\* Without the rule below a server that names its own account would still
\* inherit the secrets of the top-level account.
InheritAlways(entry, own, top) == IF own # Nobody THEN own ELSE top

\* A server that names its own account inherits none of the secrets of the
\* top-level account; any other server inherits field by field.
Inherit(entry, own, top) ==
  IF own # Nobody THEN own ELSE IF entry.email # Nobody THEN Nobody ELSE top

LoginConfig(cfg, alias) ==
  LET entry == EntryOf(cfg, alias)
  IN [url         |-> entry.url,
      email       |-> Account(cfg, entry),
      password    |-> Inherit(entry, entry.password, cfg.password),
      totpCommand |-> Inherit(entry, entry.totpCommand, cfg.totpCommand),
      totpSecret  |-> Inherit(entry, entry.totpSecret, cfg.totpSecret)]

\* A configured secret is [owner, form].  An absent one, like the word
\* "keychain", stands for the slot of the account that logs in; the keychain
\* of the configuration is the set of (kind, account) it holds.
ResolveSecret(cfg, kind, secret, email) ==
  IF secret = Nobody \/ secret.form = "keychain"
  THEN IF <<kind, email>> \in cfg.keychain THEN email ELSE Nobody
  ELSE secret.owner

\* The word "keychain" over an empty slot refuses the login.
Dangling(cfg, kind, secret, email) ==
  /\ secret # Nobody
  /\ secret.form = "keychain"
  /\ <<kind, email>> \notin cfg.keychain

\* The one-time code: the caller's, else the command's, else from the seed.
MfaCode(cfg, login, explicit) ==
  IF explicit THEN login.email
  ELSE IF login.totpCommand # Nobody THEN login.totpCommand.owner
       ELSE ResolveSecret(cfg, "totp-secret", login.totpSecret, login.email)

\* A command that fails, times out or prints no code refuses the login, and
\* so does a seed that does not parse; `yields` says whether it does yield.
MfaRefused(cfg, login, explicit, yields) ==
  /\ ~explicit
  /\ \/ MfaCode(cfg, login, explicit) # Nobody /\ ~yields
     \/ /\ login.totpCommand = Nobody
        /\ Dangling(cfg, "totp-secret", login.totpSecret, login.email)

\* The static carriers as vendor_secret resolves them: Nobody, Unresolved when
\* the configured one names an empty keychain slot, or the carrier's value.
\* The session key comes before the cookie.
Unresolved == "unresolved"
Static(cfg) == IF cfg.sessionKey # Nobody THEN cfg.sessionKey ELSE cfg.cookie
Carriers(cfg) == [access |-> cfg.access, static |-> Static(cfg)]

----------------------------------------------------------------------------

Resting == [pc |-> "idle", login |-> Nobody, code |-> Nobody,
            password |-> Nobody, key |-> Nobody, id |-> Nobody, recaptcha |-> FALSE,
            carriers |-> Nobody, source |-> Nobody]

ConsoleInit ==
  /\ consoleConfig \in ConsoleConfigs
  /\ kept = <<>>
  /\ liveKeys = {}
  /\ mintedFor = <<>>
  /\ seat = [c \in Sessioners |-> Resting]

Sit(c, next) == seat' = [seat EXCEPT ![c] = next]
Leave(c) == Sit(c, Resting)

\* ninjaone_login: account, password and one-time code are resolved before
\* anything is sent; what is missing ends the call.
StartLogin(c) ==
  /\ seat[c].pc = "idle"
  /\ \E alias \in Aliases, explicit, recaptcha, yields \in BOOLEAN :
       LET login == LoginConfig(consoleConfig, alias)
           owner == ResolveSecret(consoleConfig, "password", login.password, login.email)
       IN /\ login.email # Nobody
          /\ owner # Nobody
          /\ ~MfaRefused(consoleConfig, login, explicit, yields)
          /\ Sit(c, [Resting EXCEPT !.pc = "state", !.login = login,
                                    !.password = owner, !.recaptcha = recaptcha,
                                    !.carriers = Carriers(consoleConfig),
                                    !.code = MfaCode(consoleConfig, login, explicit)])
  /\ UNCHANGED <<consoleConfig, kept, liveKeys, mintedFor>>

\* authentication-state: a host without the endpoint (404) is not an error,
\* a federated account, a missing reCAPTCHA token and any other failure are.
AuthState(c) ==
  /\ seat[c].pc = "state"
  /\ \E answer \in {"native", "absent", "captcha", "failed"} :
       IF \/ answer \in {"native", "absent"}
          \/ answer = "captcha" /\ seat[c].recaptcha
       THEN Sit(c, [seat[c] EXCEPT !.pc = "password", !.recaptcha = FALSE])
       ELSE Leave(c)
  /\ UNCHANGED <<consoleConfig, kept, liveKeys, mintedFor>>

Identity(login) == <<login.url, login.email>>

\* The session the server mints; a success without a key is an error.
Mint(c) ==
  LET key == Cardinality(DOMAIN mintedFor) + 1
  IN /\ key <= MaxKeys
     /\ mintedFor' = [k \in DOMAIN mintedFor \cup {key} |->
                        IF k = key THEN Identity(seat[c].login) ELSE mintedFor[k]]
     /\ liveKeys' = liveKeys \cup {key}
     /\ Sit(c, [seat[c] EXCEPT !.pc = "minted", !.key = key])

PostPassword(c) ==
  /\ seat[c].pc = "password"
  /\ \/ Mint(c)
     \/ /\ seat[c].code # Nobody
        /\ Sit(c, [seat[c] EXCEPT !.pc = "code"])
        /\ UNCHANGED <<liveKeys, mintedFor>>
     \/ /\ Leave(c)
        /\ UNCHANGED <<liveKeys, mintedFor>>
  /\ UNCHANGED <<consoleConfig, kept>>

PostCode(c) ==
  /\ seat[c].pc = "code"
  /\ \/ Mint(c)
     \/ /\ Leave(c)
        /\ UNCHANGED <<liveKeys, mintedFor>>
  /\ UNCHANGED <<consoleConfig, kept>>

\* The key is cached whatever was there; the session-properties request that
\* follows uses the configuration the call started with.
KeepKey(c) ==
  LET id == Identity(seat[c].login)
  IN /\ seat[c].pc = "minted"
     /\ kept' = [i \in DOMAIN kept \cup {id} |-> IF i = id THEN seat[c].key ELSE kept[i]]
     /\ Sit(c, [Resting EXCEPT !.pc = "lookup", !.login = seat[c].login, !.id = id,
                               !.carriers = seat[c].carriers])
     /\ UNCHANGED <<consoleConfig, liveKeys, mintedFor>>

\* A request of a tool, or the one that warms the cache after a login, works
\* on the configuration the call started with.
StartRequest(c) ==
  /\ seat[c].pc = "idle"
  /\ \E alias \in Aliases :
       LET login == LoginConfig(consoleConfig, alias)
       IN Sit(c, [Resting EXCEPT !.pc = "lookup", !.login = login,
                                 !.id = Identity(login), !.carriers = Carriers(consoleConfig)])
  /\ UNCHANGED <<consoleConfig, kept, liveKeys, mintedFor>>

\* resolve_auth: the access token, else the session kept for the alias's
\* server and account, else the static session key or cookie, whichever alias
\* is asked for.  A carrier that does not resolve ends the call.
Carry(c, source, key) == Sit(c, [seat[c] EXCEPT !.pc = "asked", !.source = source, !.key = key])

LookUp(c) ==
  /\ seat[c].pc = "lookup"
  /\ LET access == seat[c].carriers.access
         static == seat[c].carriers.static
     IN CASE access \notin {Nobody, Unresolved} -> Carry(c, "access", access)
          [] access = Unresolved -> Leave(c)
          [] access = Nobody /\ seat[c].id \in DOMAIN kept -> Carry(c, "login", kept[seat[c].id])
          [] access = Nobody /\ seat[c].id \notin DOMAIN kept ->
               IF static \in {Nobody, Unresolved} THEN Leave(c) ELSE Carry(c, "static", static)
  /\ UNCHANGED <<consoleConfig, kept, liveKeys, mintedFor>>

\* Without a look at where the credential came from.
EvictAny(c, refused) == refused

\* Only a 401 of a minted session evicts, and it evicts whatever is kept by
\* then; a refused carrier leaves the cache alone.
Evicts(c, refused) == refused /\ seat[c].source = "login"

Answered(c) ==
  /\ seat[c].pc = "asked"
  /\ \E refused \in IF seat[c].source = "login" THEN {seat[c].key \notin liveKeys} ELSE BOOLEAN :
       kept' = IF Evicts(c, refused) THEN [i \in DOMAIN kept \ {seat[c].id} |-> kept[i]] ELSE kept
  /\ Leave(c)
  /\ UNCHANGED <<consoleConfig, liveKeys, mintedFor>>

\* External: the server ends a session, the operator edits the configuration.
Expire == \E k \in liveKeys : /\ liveKeys' = liveKeys \ {k}
                              /\ UNCHANGED <<consoleConfig, kept, mintedFor, seat>>
Reload == /\ consoleConfig' \in ConsoleConfigs \ {consoleConfig}
          /\ UNCHANGED <<kept, liveKeys, mintedFor, seat>>

ConsoleNext ==
  \/ \E c \in Sessioners : \/ StartLogin(c)   \/ AuthState(c) \/ PostPassword(c)
                           \/ PostCode(c)     \/ KeepKey(c)   \/ StartRequest(c)
                           \/ LookUp(c)       \/ Answered(c)
  \/ Expire
  \/ Reload

ConsoleSpec == ConsoleInit /\ [][ConsoleNext]_consoleVars

----------------------------------------------------------------------------
\* A password or one-time code is only ever sent for the account it belongs
\* to (login_config's rule that a scoped entry inherits nothing).
OwnSecrets(c) ==
  /\ seat[c].pc = "password" => seat[c].password = seat[c].login.email
  /\ seat[c].pc = "code" => seat[c].code = seat[c].login.email

\* A request carries a minted session only to the server and for the account
\* it was minted for (the (base_url, email) key of SessionCache).  The static
\* carriers have no account and go to every alias, one with an account of its
\* own included, but only as the call's configuration has them, and the
\* session key and the cookie never when that configuration has an access
\* token.
OwnSession(c) ==
  seat[c].pc = "asked" =>
    /\ seat[c].source = "login" => /\ seat[c].key \in DOMAIN mintedFor
                                   /\ mintedFor[seat[c].key] = Identity(seat[c].login)
    /\ seat[c].source = "access" => seat[c].key = seat[c].carriers.access
    /\ seat[c].source = "static" => /\ seat[c].key = seat[c].carriers.static
                                    /\ seat[c].carriers.access = Nobody

\* A session leaves the cache only because the server ended one of the same
\* server and account: the refusal of a static carrier, or of another alias's
\* session, costs nobody a login (only a 401 of AuthSource::LoginSession
\* evicts).
SessionsKept ==
  \A k \in DOMAIN mintedFor :
    \/ mintedFor[k] \in DOMAIN kept
    \/ \E c \in Sessioners : seat[c].pc = "minted" /\ seat[c].key = k
    \/ \E dead \in DOMAIN mintedFor \ liveKeys : mintedFor[dead] = mintedFor[k]

\* Whatever mix of top-level keys, server entries, keychain slots and static
\* carriers is configured, and however logins, requests, reloads and expiries
\* interleave: what is sent belongs to the account it is sent for
\* (OwnSecrets, OwnSession), and no session is thrown away for another's
\* refusal (SessionsKept).
RightAccount == (\A c \in Sessioners : OwnSecrets(c) /\ OwnSession(c)) /\ SessionsKept

=============================================================================
