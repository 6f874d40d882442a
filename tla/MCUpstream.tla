------------------------------ MODULE MCUpstream ------------------------------
(***************************************************************************)
(* Tool calls, what governs them, and the credentials and the bookkeeping  *)
(* of what they send, part by part; `component` says which one a behaviour *)
(* is about, and they share no state in the program either:                *)
(*   calls    two tool calls and their evidence                            *)
(*   bundle   a signed bundle: two good documents, one that is signed and  *)
(*            does not compile, one that compiles and nobody signed        *)
(*   vault    two document reads over one vault session                    *)
(*   tokens   two calls over one bearer cache, two identities              *)
(*   console  two calls over the NinjaOne sessions                         *)
(*   migrate  creds migrate, two of three sites on one keychain slot       *)
(*   rollups  the usage channel, its consumer and the reports              *)
(***************************************************************************)
EXTENDS ToolCall, Bundle, Vault, Tokens, Console, Migrate, Rollups, TLC

CONSTANTS none, d1, d2, dbad, dwild

VARIABLE component

MCDocs == {d1, d2, dbad, dwild}
MCCompiles == {d1, d2, dwild}
MCSigned == {d1, d2, dbad}

(* A server that names its own account beside a configured session, and one  *)
(* that does not, with a code command and an access token.                  *)
Secret(owner) == [owner |-> owner, form |-> "plain"]
Top(entry, keychain, command, access, cookie) ==
  [url |-> "main", email |-> "ann", password |-> Secret("ann"), totpCommand |-> command,
   totpSecret |-> Secret("ann"), access |-> access, sessionKey |-> none, cookie |-> cookie,
   servers |-> [qa |-> entry], keychain |-> keychain]
Server(email, password) == [BlankEntry("qa") EXCEPT !.email = email, !.password = password]
ConsoleAlone == Top(Server(none, none), {}, Secret("ann"), "access", none)
MCConsoleConfigs ==
  {Top(Server("bob", none), {<<"password", "bob">>}, none, none, "cookie"), ConsoleAlone}

MCSites == <<"token", "password", "entry">>
MCSlotOf == [token |-> "token", password |-> "bob", entry |-> "bob"]
MCTrim == [t \in Texts |-> CASE t = " x" -> "x" [] t = " keychain" -> "keychain" [] t = " " -> Absent
                             [] OTHER -> t]
MCFetched == [r \in RefTexts |-> "y"]

\* The third is refused in an environment of a vendor its subject uses in another.
MCKinds == {[allow |-> TRUE, ok |-> TRUE, ms |-> 1, subject |-> "ann", vendor |-> "jira", env |-> "prod"],
            [allow |-> TRUE, ok |-> FALSE, ms |-> 2, subject |-> "bob", vendor |-> "zoom", env |-> "test"],
            [allow |-> FALSE, ok |-> FALSE, ms |-> 0, subject |-> "ann", vendor |-> "jira", env |-> "test"]}

-----------------------------------------------------------------------------
VaultAtRest == method = "token" /\ VaultInit
ConsoleAtRest == consoleConfig = ConsoleAlone /\ ConsoleInit
MigrateAtRest == configs = [s \in SiteSet |-> Absent] /\ chain = [k \in Slots |-> Absent] /\ MigrateInit

MCInit ==
  /\ TokenInit /\ RollupInit /\ Init /\ CallInit
  /\ \/ component \in {"calls", "bundle", "tokens", "rollups"} /\ VaultAtRest /\ ConsoleAtRest /\ MigrateAtRest
     \/ component = "vault" /\ VaultInit /\ ConsoleAtRest /\ MigrateAtRest
     \/ component = "console" /\ ConsoleInit /\ VaultAtRest /\ MigrateAtRest
     \/ component = "migrate" /\ MigrateInit /\ VaultAtRest /\ ConsoleAtRest
          /\ configs["token"] \in {Absent, "x", "vault://x"}

all == <<callVars, vars, vaultVars, tokenVars, consoleVars, migrateVars, rollupVars>>

MCNext ==
  /\ \/ component = "vault" /\ VaultNext
          /\ UNCHANGED <<tokenVars, consoleVars, migrateVars, rollupVars, callVars, vars>>
     \/ component = "tokens" /\ TokenNext
          /\ UNCHANGED <<vaultVars, consoleVars, migrateVars, rollupVars, callVars, vars>>
     \/ component = "console" /\ ConsoleNext
          /\ UNCHANGED <<vaultVars, tokenVars, migrateVars, rollupVars, callVars, vars>>
     \/ component = "migrate" /\ MigrateNext
          /\ UNCHANGED <<vaultVars, tokenVars, consoleVars, rollupVars, callVars, vars>>
     \/ component = "rollups" /\ RollupNext
          /\ UNCHANGED <<vaultVars, tokenVars, consoleVars, migrateVars, callVars, vars>>
     \/ component = "calls" /\ CallNext
          /\ UNCHANGED <<vaultVars, tokenVars, consoleVars, migrateVars, rollupVars, vars>>
     \/ component = "bundle" /\ Next
          /\ UNCHANGED <<vaultVars, tokenVars, consoleVars, migrateVars, rollupVars, callVars>>
  /\ UNCHANGED component

MCSpec == MCInit /\ [][MCNext]_<<all, component>>
===============================================================================
