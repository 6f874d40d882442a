------------------------------- MODULE Vault -------------------------------
(***************************************************************************)
(* The vault:// secret source: one client token behind an async mutex,     *)
(* shared by the concurrent document reads of a resolution.  The mutex is  *)
(* held across the renewal or the login it leads to, and released before   *)
(* the document is read, so a token may be revoked, or replaced by another *)
(* reader's login, between a reader's token() and its read.                *)
(***************************************************************************)
EXTENDS Naturals

CONSTANTS
    Readers,      \* concurrent fetches of documents
    MaxTokens,    \* how many tokens Vault may issue
    MaxRefusals   \* how many tokens it revokes, logins, renewals and reads it refuses

VARIABLES
    method,       \* VaultAuth: "token" (given, kept by an agent) or a login
    session,      \* [token, age, renewable]; token 0: no session yet
    valid,        \* the tokens Vault still accepts
    lock,         \* the reader holding the session mutex, or "free"
    reader,       \* [pc, token, refused] of every fetch; refused: the token
                  \* of its first read when that was answered 403, else 0
    issued,       \* tokens issued so far
    refusals

vaultVars == <<method, session, valid, lock, reader, issued, refusals>>

NoSession == [token |-> 0, age |-> "fresh", renewable |-> FALSE]

(* Session::expired, Session::due_for_renewal: the age is "fresh", "due"    *)
(* (two thirds of the lease are over), "expired", or "endless" (no lease).  *)
Usable(s) == s.token # 0 /\ s.age # "expired"
DueForRenewal(s) == s.renewable /\ s.age = "due"

VaultInit ==
    /\ method \in {"token", "login"}
    /\ session = NoSession /\ lock = "free"
    /\ issued = (IF method = "token" THEN 1 ELSE 0) /\ valid = 1..issued
    /\ reader = [r \in Readers |-> [pc |-> "token", token |-> 0, refused |-> 0]]
    /\ refusals = 0

----------------------------------------------------------------------------
(* token(): under the mutex, the session's token if it is usable (and this  *)
(* is not the retry after a refusal), renewed when due.                     *)
KeepsAnySession(r) == Usable(session)
KeepsSession(r) == Usable(session) /\ reader[r].refused = 0

Token(r) ==
    /\ reader[r].pc = "token" /\ lock = "free"
    /\ IF KeepsSession(r) /\ ~DueForRenewal(session)
       THEN /\ reader' = [reader EXCEPT ![r].pc = "read",
                                        ![r].token = session.token]
            /\ UNCHANGED lock
       ELSE /\ lock' = r
            /\ reader' = [reader EXCEPT
                 ![r].pc = IF KeepsSession(r) THEN "renew" ELSE "login"]
    /\ UNCHANGED <<method, session, valid, issued, refusals>>

(* renew-self: a new lease of the same token; a refusal falls through to a  *)
(* login under the same lock.                                               *)
Renew(r) ==
    /\ reader[r].pc = "renew"
    /\ \/ /\ session.token \in valid
          /\ \E renewable \in BOOLEAN :
                session' = [session EXCEPT !.age = "fresh",
                                           !.renewable = renewable]
          /\ reader' = [reader EXCEPT ![r].pc = "read",
                                      ![r].token = session.token]
          /\ lock' = "free"
          /\ UNCHANGED refusals
       \/ /\ \/ session.token \notin valid /\ UNCHANGED refusals
             \/ refusals < MaxRefusals /\ refusals' = refusals + 1
          /\ reader' = [reader EXCEPT ![r].pc = "login"]
          /\ UNCHANGED <<session, lock>>
    /\ UNCHANGED <<method, valid, issued>>

(* login(): a given token is read again, and used as it is when lookup-self *)
(* does not tell its lease; AppRole and Kubernetes obtain a new one.  On    *)
(* failure the old session stays in place and the fetch fails.              *)
LoggedIn(token) ==
    \E age \in {"fresh", "endless"}, renewable \in BOOLEAN :
        session' = [token |-> token, age |-> age,
                    renewable |-> renewable /\ age # "endless"]

Login(r) ==
    /\ reader[r].pc = "login"
    /\ lock' = "free"
    /\ \/ /\ method = "token" \/ issued < MaxTokens
          /\ issued' = IF method = "token" THEN issued ELSE issued + 1
          /\ valid' = IF method = "token" THEN valid ELSE valid \cup {issued + 1}
          /\ LoggedIn(issued')
          /\ reader' = [reader EXCEPT ![r].pc = "read", ![r].token = issued']
          /\ UNCHANGED refusals
       \/ /\ refusals < MaxRefusals /\ refusals' = refusals + 1
          /\ reader' = [reader EXCEPT ![r].pc = "unavailable"]
          /\ UNCHANGED <<session, valid, issued>>
    /\ UNCHANGED method

(* read_once: 200 is the document, of which 404 or a null version says that *)
(* there is none; 403, for a token revoked or a policy that changed, asks   *)
(* for one fresh login and one retry, and a second 403 is the answer; a     *)
(* sealed Vault, another status or a broken transport ends the fetch.       *)
RefusedOnce(rd) ==
    IF rd.refused # 0 THEN [rd EXCEPT !.pc = "forbidden"]
    ELSE [rd EXCEPT !.pc = "token", !.refused = rd.token]

Read(r) ==
    /\ reader[r].pc = "read"
    /\ \/ /\ \E answer \in {"done", "missing", "unavailable"} :
                /\ reader[r].token \in valid \/ answer = "unavailable"
                /\ reader' = [reader EXCEPT ![r].pc = answer]
          /\ UNCHANGED refusals
       \/ /\ reader' = [reader EXCEPT ![r] = RefusedOnce(@)]
          /\ \/ reader[r].token \notin valid /\ UNCHANGED refusals
             \/ refusals < MaxRefusals /\ refusals' = refusals + 1
    /\ UNCHANGED <<method, session, valid, lock, issued>>

(* The next resolution reads the document again. *)
FetchAgain(r) ==
    /\ reader[r].pc \in {"done", "missing", "forbidden", "unavailable"}
    /\ reader' = [reader EXCEPT ![r] = [pc |-> "token", token |-> 0, refused |-> 0]]
    /\ UNCHANGED <<method, session, valid, lock, issued, refusals>>

(* Vault: a lease runs out, a token is revoked; an agent renews the file.   *)
Lapse ==
    /\ session.age \in {"fresh", "due"} /\ session.token # 0 /\ lock = "free"
    /\ session' = [session EXCEPT !.age = IF @ = "fresh" THEN "due" ELSE "expired"]
    /\ valid' = IF session.age = "due" THEN valid \ {session.token} ELSE valid
    /\ UNCHANGED <<method, lock, reader, issued, refusals>>

Revoke(t) ==
    /\ t \in valid /\ refusals < MaxRefusals
    /\ valid' = valid \ {t} /\ refusals' = refusals + 1
    /\ UNCHANGED <<method, session, lock, reader, issued>>

AgentRenews ==
    /\ method = "token" /\ issued < MaxTokens
    /\ issued' = issued + 1 /\ valid' = valid \cup {issued'}
    /\ UNCHANGED <<method, session, lock, reader, refusals>>

VaultNext ==
    \/ \E r \in Readers : Token(r) \/ Renew(r) \/ Login(r) \/ Read(r) \/ FetchAgain(r)
    \/ Lapse \/ AgentRenews
    \/ \E t \in 1..MaxTokens : Revoke(t)

VaultSpec == VaultInit /\ [][VaultNext]_vaultVars

----------------------------------------------------------------------------
(* With AppRole or Kubernetes, a fetch that answers "forbidden" was refused *)
(* with a token newer than the one its first read was refused with: a       *)
(* retry never presents again the revoked token that readers share, however *)
(* their logins and reads interleave.                                       *)
ForbiddenIsFresh ==
    \A r \in Readers : reader[r].pc = "forbidden" /\ method = "login"
                        => reader[r].token > reader[r].refused
=============================================================================
