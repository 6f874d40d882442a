-------------------------- MODULE CredentialProofs --------------------------
(***************************************************************************)
(* Proofs about the shared credentials: the vault session (Vault), the     *)
(* bearer caches (Tokens), the secrets in force (Secrets), the console     *)
(* sessions (Console) and the credential migration (Migrate), for any      *)
(* number of readers, callers, identities, tokens, configurations,         *)
(* documents and sites.                                                    *)
(***************************************************************************)
EXTENDS Vault, Tokens, Secrets, Console, Migrate, FiniteSetTheorems, SequenceTheorems, TLAPS

-----------------------------------------------------------------------------
(* Vault.  A token is its number, so a newer one is a greater one.  What   *)
(* ForbiddenIsFresh needs is known where the read starts: the second read  *)
(* of a fetch has a token of a login of its own.                           *)

ReaderSteps == {"token", "renew", "login", "read", "done", "missing", "forbidden", "unavailable"}

Session == [token : Nat, age : {"fresh", "due", "expired", "endless"}, renewable : BOOLEAN]

VaultTypes ==
    /\ issued \in Nat
    /\ session \in Session /\ session.token <= issued
    /\ reader \in [Readers -> [pc : ReaderSteps, token : Nat, refused : Nat]]

\* A refusal names a token that has been issued, and renewing is for first reads.
RefusedIssued ==
    \A r \in Readers :
        /\ reader[r].token <= issued /\ reader[r].refused <= issued
        /\ reader[r].pc = "renew" => reader[r].refused = 0

\* The retry of a fetch carries a token newer than the one refused.
RetryIsFresh ==
    \A r \in Readers :
        /\ method = "login" /\ reader[r].pc \in {"read", "forbidden"} /\ reader[r].refused # 0
             => reader[r].token > reader[r].refused
        /\ reader[r].pc = "forbidden" => reader[r].refused # 0

VaultInv == VaultTypes /\ RefusedIssued /\ RetryIsFresh

LEMMA VaultInitial == VaultInit => VaultInv
<1> SUFFICES ASSUME VaultInit PROVE VaultInv
  OBVIOUS
<1> USE DEF VaultInit, NoSession, Session, ReaderSteps
<1>1. VaultTypes
  BY DEF VaultTypes
<1>2. RefusedIssued /\ RetryIsFresh
  BY DEF RefusedIssued, RetryIsFresh
<1> QED
  BY <1>1, <1>2 DEF VaultInv

LEMMA VaultStep == VaultInv /\ [VaultNext]_vaultVars => VaultInv'
<1> SUFFICES ASSUME VaultInv, [VaultNext]_vaultVars PROVE VaultInv'
  OBVIOUS
<1> USE DEF VaultInv, VaultTypes, RefusedIssued, RetryIsFresh, Session, ReaderSteps
<1>1. ASSUME NEW r \in Readers, Token(r) PROVE VaultInv'
  BY <1>1 DEF Token, KeepsSession, Usable, DueForRenewal
<1>2. ASSUME NEW r \in Readers, Renew(r) PROVE VaultInv'
  <2>1. CASE /\ session.token \in valid
             /\ \E renewable \in BOOLEAN :
                  session' = [session EXCEPT !.age = "fresh", !.renewable = renewable]
             /\ reader' = [reader EXCEPT ![r].pc = "read", ![r].token = session.token]
    <3>1. session' \in Session /\ session'.token = session.token
      BY <2>1
    <3>2. issued' = issued /\ method' = method /\ reader[r].refused = 0
      BY <1>2 DEF Renew
    <3>3. VaultTypes'
      <4>1. [reader[r] EXCEPT !.pc = "read", !.token = session.token]
              \in [pc : ReaderSteps, token : Nat, refused : Nat]
        BY ZenonT(60)
      <4>2. reader' \in [Readers -> [pc : ReaderSteps, token : Nat, refused : Nat]]
        BY <2>1, <4>1
      <4> QED
        BY <3>1, <3>2, <4>2
    <3>4. RefusedIssued' /\ RetryIsFresh'
      BY <2>1, <3>2
    <3> QED
      BY <3>3, <3>4
  <2>2. CASE reader' = [reader EXCEPT ![r].pc = "login"] /\ UNCHANGED session
    <3>1. issued' = issued /\ method' = method
      BY <1>2 DEF Renew
    <3> QED
      BY <2>2, <3>1
  <2> QED
    BY <1>2, <2>1, <2>2 DEF Renew
<1>3. ASSUME NEW r \in Readers, Login(r) PROVE VaultInv'
  <2>1. method' = method
    BY <1>3 DEF Login
  <2>2. CASE /\ issued' = IF method = "token" THEN issued ELSE issued + 1
             /\ LoggedIn(issued')
             /\ reader' = [reader EXCEPT ![r].pc = "read", ![r].token = issued']
    <3>1. issued' \in Nat /\ issued <= issued' /\ (method = "login" => issued < issued')
      BY <2>2
    <3>2. session' \in Session /\ session'.token = issued'
      BY <2>2, <3>1 DEF LoggedIn
    <3>3. VaultTypes'
      <4>1. [reader[r] EXCEPT !.pc = "read", !.token = issued']
              \in [pc : ReaderSteps, token : Nat, refused : Nat]
        BY <3>1, ZenonT(60)
      <4>2. reader' \in [Readers -> [pc : ReaderSteps, token : Nat, refused : Nat]]
        BY <2>2, <4>1
      <4> QED
        BY <3>1, <3>2, <4>2
    <3>4. RefusedIssued'
      BY <2>2, <3>1
    <3>5. RetryIsFresh'
      BY <2>1, <2>2, <3>1
    <3> QED
      BY <3>3, <3>4, <3>5
  <2>3. CASE /\ reader' = [reader EXCEPT ![r].pc = "unavailable"]
             /\ UNCHANGED <<session, issued>>
    BY <2>1, <2>3
  <2> QED
    BY <1>3, <2>2, <2>3 DEF Login
<1>4. ASSUME NEW r \in Readers, Read(r) PROVE VaultInv'
  <2>1. UNCHANGED <<method, session, issued>>
    BY <1>4 DEF Read
  <2>2. CASE \E answer \in {"done", "missing", "unavailable"} : reader' = [reader EXCEPT ![r].pc = answer]
    BY <2>1, <2>2
  <2>3. CASE reader' = [reader EXCEPT ![r] = RefusedOnce(@)]
    BY <1>4, <2>1, <2>3, ZenonT(60) DEF Read, RefusedOnce
  <2> QED
    BY <1>4, <2>2, <2>3 DEF Read
<1>5. ASSUME NEW r \in Readers, FetchAgain(r) PROVE VaultInv'
  BY <1>5 DEF FetchAgain
<1>6. CASE Lapse
  BY <1>6 DEF Lapse
<1>7. CASE AgentRenews
  BY <1>7 DEF AgentRenews
<1>8. ASSUME NEW t \in 1..MaxTokens, Revoke(t) PROVE VaultInv'
  BY <1>8 DEF Revoke
<1>9. CASE UNCHANGED vaultVars
  BY <1>9 DEF vaultVars
<1> QED
  BY <1>1, <1>2, <1>3, <1>4, <1>5, <1>6, <1>7, <1>8, <1>9 DEF VaultNext

(* A fetch that answers "forbidden" was refused twice with different       *)
(* tokens, the second newer than the first (Vault's fetch, token, login),  *)
(* for any number of concurrent readers and revocations.                   *)
THEOREM VaultRetries == VaultSpec => []ForbiddenIsFresh
<1>1. VaultInv => ForbiddenIsFresh
  BY DEF VaultInv, RetryIsFresh, ForbiddenIsFresh
<1> QED
  BY <1>1, VaultInitial, VaultStep, PTL DEF VaultSpec

-----------------------------------------------------------------------------
(* Tokens.  The cache claims a token only from the moment its answer       *)
(* arrived and for the effective lifetime of what that answer said.  Only  *)
(* the holder of the lock has an answer on the way; its token is in nobody *)
(* else's hands yet, and the refresh token it brings is not spent.         *)

OnTheWay == {"loggedIn", "refreshed"}

Caller == [pc : {"idle", "lock", "exchange", "refresh", "done"} \cup OnTheWay,
           key : Identities \cup {NoKey}, bearer : Nat, at : Nat, refresh : Nat]

TokenGrant == [key : Identities \cup {NoKey}, from : Nat, ttl : Nat, said : Nat, landed : Nat]

CacheEntry == [key : Identities \cup {NoKey}, token : Nat, expires : Nat,
               refresh : Nat, refreshUntil : Nat]

TokenTypes ==
    /\ clock \in Nat
    /\ minted \in [Tokens -> TokenGrant]
    /\ cached \in CacheEntry
    /\ caller \in [Callers -> Caller]

\* A token is of this identity and its answer covers the moment before `end`.
Covers(m, key, end) == m.key = key /\ end <= m.landed + Effective(m.said)

CacheBacked ==
    clock < cached.expires => /\ cached.token \in Tokens /\ cached.key # NoKey
                              /\ Covers(minted[cached.token], cached.key, cached.expires)

\* What a call was handed, and a call that is under way has an identity.
ServedBacked ==
    \A c \in Callers :
        /\ caller[c].pc # "idle" => caller[c].key # NoKey
        /\ caller[c].pc = "done" =>
             /\ caller[c].bearer \in Tokens
             /\ Covers(minted[caller[c].bearer], caller[c].key, caller[c].at + 1)

\* Whoever asks the provider holds the lock.
LockHeld ==
    \A c \in Callers : caller[c].pc \in {"exchange", "refresh"} \cup OnTheWay => writer = c

FlightBacked ==
    \A c \in Callers : caller[c].pc \in OnTheWay =>
        /\ caller[c].bearer \in Tokens /\ minted[caller[c].bearer].key = caller[c].key
        /\ clock < cached.expires => cached.token # caller[c].bearer
        /\ \A d \in Callers : caller[d].pc = "done" => caller[d].bearer # caller[c].bearer

\* A refresh token came with a minted token, and only such a one is spent.
RefreshBacked ==
    /\ cached.refresh \in Minted \cup {0}
    /\ spent \subseteq Minted
    /\ \A c \in Callers :
         /\ caller[c].pc = "refresh" => cached.refresh # 0
         /\ caller[c].pc \in OnTheWay => /\ caller[c].refresh \in Minted \cup {0}
                                         /\ caller[c].refresh \notin spent

TokenInv == /\ TokenTypes /\ CacheBacked /\ ServedBacked /\ LockHeld /\ FlightBacked
            /\ RefreshBacked /\ RotationKept

(* The lifetime in force is positive, at most the floor above what the      *)
(* answer said, and the skew below it when that leaves the floor.           *)
LEMMA EffectiveBounded ==
  ASSUME NEW ttl \in Nat
  PROVE  /\ Effective(ttl) \in Nat \ {0} /\ Effective(ttl) <= ttl + Floor
         /\ ttl >= Skew + Floor => Effective(ttl) + Skew = ttl
BY TokenConstants DEF Effective

LEMMA TokenInitial == TokenInit => TokenInv
BY TokenConstants
   DEF TokenInit, TokenInv, TokenTypes, CacheBacked, ServedBacked, LockHeld, FlightBacked,
       RefreshBacked, RotationKept, OnTheWay, Caller, TokenGrant, CacheEntry, Empty, Rest,
       NoKey, NotMinted, Tokens, Minted

(* A grant: what the exchange and the refresh have in common.              *)
LEMMA GrantKeeps ==
  ASSUME TokenInv, NEW c \in Callers, NEW ttl \in Ttls, NEW t \in Tokens,
         NEW refresh \in Minted \cup {0, t}, NEW next \in OnTheWay,
         caller[c].pc \in {"exchange", "refresh"}, Grant(c, ttl, t, refresh, next),
         refresh \notin spent', spent' \subseteq Minted \cup {cached.refresh},
         cached.refresh # 0 \/ spent' = spent,
         next = "refreshed" \/ spent' = spent, spent' \in {spent, spent \cup {cached.refresh}},
         UNCHANGED <<cached, writer, lost, clock>>
  PROVE  TokenInv'
<1> USE DEF TokenInv
<1>1. PICK said \in {ttl, Fallback} :
        minted' = [minted EXCEPT ![t] = [key |-> caller[c].key, from |-> clock, ttl |-> ttl,
                                         said |-> said, landed |-> 0]]
  BY DEF Grant
<1>2. /\ minted[t].key = NoKey
      /\ caller' = [caller EXCEPT ![c] = [pc |-> next, key |-> caller[c].key, bearer |-> t,
                                          at |-> 0, refresh |-> refresh]]
  BY DEF Grant, Minted
<1>3. /\ ttl \in Nat /\ said \in Nat /\ t \in Nat /\ refresh \in Nat
      /\ caller[c].key \in Identities /\ caller[c].key # NoKey
      /\ writer = c
  BY TokenConstants DEF Tokens, Minted, ServedBacked, TokenTypes, Caller, LockHeld, OnTheWay
<1> DEFINE answer == [pc |-> next, key |-> caller[c].key, bearer |-> t, at |-> 0, refresh |-> refresh]
<1>4. /\ answer \in Caller /\ answer.pc = next /\ answer.key = caller[c].key
      /\ answer.bearer = t /\ answer.refresh = refresh
  BY <1>3 DEF Caller, OnTheWay
<1>5. caller'[c] = answer /\ \A d \in Callers \ {c} : caller'[d] = caller[d]
  BY <1>2 DEF TokenTypes
<1>6. /\ minted'[t].key = caller[c].key
      /\ \A u \in Tokens \ {t} : minted'[u] = minted[u]
  BY <1>1 DEF TokenTypes
<1>7. next # "done" /\ next # "idle" /\ next # "refresh" /\ next # "exchange"
  BY DEF OnTheWay
<1> HIDE DEF answer
<1>9. Minted' = Minted \cup {t}
  BY <1>3, <1>6 DEF Minted
<1>10. TokenTypes'
  <2>1. minted' \in [Tokens -> TokenGrant]
    BY <1>1, <1>3 DEF TokenTypes, TokenGrant
  <2>2. caller' \in [Callers -> Caller]
    BY <1>2, <1>4 DEF TokenTypes, answer
  <2> QED
    BY <2>1, <2>2 DEF TokenTypes
<1>11. CacheBacked'
  <2> SUFFICES ASSUME clock < cached.expires
               PROVE  /\ cached.token \in Tokens /\ cached.key # NoKey
                      /\ Covers(minted'[cached.token], cached.key, cached.expires)
    BY DEF CacheBacked
  <2>1. /\ cached.token \in Tokens /\ cached.key # NoKey
        /\ Covers(minted[cached.token], cached.key, cached.expires)
    BY DEF CacheBacked
  <2>2. cached.token # t
    BY <1>2, <2>1 DEF Covers
  <2> QED
    BY <1>6, <2>1, <2>2
<1>12. ServedBacked'
  <2> SUFFICES ASSUME NEW d \in Callers
               PROVE  /\ caller'[d].pc # "idle" => caller'[d].key # NoKey
                      /\ caller'[d].pc = "done" =>
                           /\ caller'[d].bearer \in Tokens
                           /\ Covers(minted'[caller'[d].bearer], caller'[d].key, caller'[d].at + 1)
    BY DEF ServedBacked
  <2>1. CASE d = c
    BY <1>3, <1>4, <1>5, <1>7, <2>1
  <2>2. CASE d # c
    <3>1. caller'[d] = caller[d]
      BY <1>5, <2>2
    <3>2. CASE caller[d].pc = "done"
      <4>1. /\ caller[d].bearer \in Tokens /\ caller[d].key # NoKey
            /\ Covers(minted[caller[d].bearer], caller[d].key, caller[d].at + 1)
        BY <3>2 DEF ServedBacked
      <4>2. caller[d].bearer # t
        BY <1>2, <4>1 DEF Covers
      <4> QED
        BY <1>6, <3>1, <4>1, <4>2
    <3> QED
      BY <3>1, <3>2 DEF ServedBacked
  <2> QED
    BY <2>1, <2>2
<1>13. LockHeld'
  BY <1>3, <1>5 DEF LockHeld
<1>14. \A d \in Callers : d # c => caller[d].pc \notin OnTheWay
  BY <1>3 DEF LockHeld
<1>15. FlightBacked'
  <2> SUFFICES ASSUME NEW d \in Callers, caller'[d].pc \in OnTheWay
               PROVE  /\ caller'[d].bearer \in Tokens
                      /\ minted'[caller'[d].bearer].key = caller'[d].key
                      /\ clock < cached.expires => cached.token # caller'[d].bearer
                      /\ \A e \in Callers :
                           caller'[e].pc = "done" => caller'[e].bearer # caller'[d].bearer
    BY DEF FlightBacked
  <2>1. d = c
    BY <1>5, <1>14
  <2>2. clock < cached.expires => cached.token # t
    BY <1>2 DEF CacheBacked, Covers
  <2>3. \A e \in Callers : caller'[e].pc = "done" => caller'[e].bearer # t
    BY <1>2, <1>4, <1>5, <1>7 DEF ServedBacked, Covers
  <2> QED
    BY <1>4, <1>5, <1>6, <2>1, <2>2, <2>3
<1>16. RefreshBacked'
  <2>1. cached.refresh \in Minted' \cup {0} /\ spent' \subseteq Minted'
    BY <1>9 DEF RefreshBacked
  <2>2. \A d \in Callers : /\ caller'[d].pc = "refresh" => cached.refresh # 0
                           /\ caller'[d].pc \in OnTheWay => /\ caller'[d].refresh \in Minted' \cup {0}
                                                            /\ caller'[d].refresh \notin spent'
    BY <1>4, <1>5, <1>7, <1>9, <1>14 DEF RefreshBacked
  <2> QED
    BY <2>1, <2>2 DEF RefreshBacked
<1>17. RotationKept'
  <2>1. CASE next = "refreshed"
    BY <1>3, <1>4, <1>5, <2>1 DEF RotationKept
  <2>2. CASE next # "refreshed"
    <3>1. spent' = spent /\ ~\E d \in Callers : caller[d].pc = "refreshed"
      BY <1>14, <2>2 DEF OnTheWay
    <3> QED
      BY <3>1 DEF RotationKept
  <2> QED
    BY <2>1, <2>2
<1> QED
  BY <1>10, <1>11, <1>12, <1>13, <1>15, <1>16, <1>17

LEMMA StoreKeeps ==
  ASSUME TokenInv, NEW c \in Callers, Store(c) PROVE TokenInv'
<1> USE DEF TokenInv
<1> DEFINE t == caller[c].bearer
           said == minted[t].said
           until == IF caller[c].pc = "loggedIn" THEN clock + RefreshTtl ELSE cached.refreshUntil
           given == [pc |-> "done", key |-> caller[c].key, bearer |-> t, at |-> clock, refresh |-> 0]
<1>1. /\ t \in Tokens /\ minted[t].key = caller[c].key /\ t \in Nat
      /\ clock < cached.expires => cached.token # t
      /\ \A d \in Callers : caller[d].pc = "done" => caller[d].bearer # t
      /\ writer = c
  BY DEF Store, FlightBacked, LockHeld, OnTheWay, Tokens
<1>2. /\ caller[c].key \in Identities /\ caller[c].key # NoKey /\ caller[c].refresh \in Nat
      /\ said \in Nat /\ clock \in Nat /\ minted[t] \in TokenGrant /\ until \in Nat
  BY <1>1, TokenConstants DEF Store, ServedBacked, OnTheWay, TokenTypes, Caller, TokenGrant, CacheEntry
<1>3. Effective(said) \in Nat \ {0}
  BY <1>2, EffectiveBounded
<1>4. /\ cached' = [key |-> caller[c].key, token |-> t, expires |-> clock + Effective(said),
                    refresh |-> caller[c].refresh, refreshUntil |-> until]
      /\ minted' = [minted EXCEPT ![t].landed = clock]
      /\ caller' = [caller EXCEPT ![c] = given]
      /\ writer' = "free" /\ UNCHANGED <<spent, lost, clock>>
  BY DEF Store, Served
<1>5. caller'[c] = given /\ \A d \in Callers \ {c} : caller'[d] = caller[d]
  BY <1>4 DEF TokenTypes
<1>6. given \in Caller /\ given.pc = "done" /\ given.key = caller[c].key /\ given.bearer = t
      /\ given.at = clock
  BY <1>1, <1>2 DEF Caller
<1>7. /\ minted'[t] = [key |-> minted[t].key, from |-> minted[t].from, ttl |-> minted[t].ttl,
                       said |-> said, landed |-> clock]
      /\ \A u \in Tokens \ {t} : minted'[u] = minted[u]
  BY <1>1, <1>2, <1>4 DEF TokenTypes, TokenGrant
<1>8. minted'[t].key = caller[c].key /\ minted'[t].said = said /\ minted'[t].landed = clock
  BY <1>1, <1>7
<1>9. /\ cached'.key = caller[c].key /\ cached'.token = t /\ cached'.refresh = caller[c].refresh
      /\ cached'.expires = clock + Effective(said) /\ cached' \in CacheEntry
  BY <1>1, <1>2, <1>3, <1>4 DEF CacheEntry
<1> HIDE DEF t, said, until, given
<1>10. Minted' = Minted
  BY <1>1, <1>7, <1>8 DEF Minted
<1>11. TokenTypes'
  <2>1. minted' \in [Tokens -> TokenGrant]
    <3>1. [key |-> minted[t].key, from |-> minted[t].from, ttl |-> minted[t].ttl,
           said |-> said, landed |-> clock] \in TokenGrant
      BY <1>2 DEF TokenGrant
    <3>2. minted' = [minted EXCEPT ![t] = minted'[t]]
      BY <1>1, <1>4 DEF TokenTypes
    <3> QED
      BY <1>7, <3>1, <3>2 DEF TokenTypes
  <2>2. caller' \in [Callers -> Caller]
    BY <1>4, <1>6 DEF TokenTypes
  <2> QED
    BY <1>2, <1>4, <1>9, <2>1, <2>2 DEF TokenTypes
<1>12. Covers(minted'[t], caller[c].key, clock + Effective(said))
  BY <1>2, <1>3, <1>8 DEF Covers
<1>13. Covers(minted'[t], caller[c].key, clock + 1)
  BY <1>2, <1>3, <1>8 DEF Covers
<1>14. CacheBacked'
  <2> SUFFICES /\ cached'.token \in Tokens /\ cached'.key # NoKey
               /\ Covers(minted'[cached'.token], cached'.key, cached'.expires)
    BY DEF CacheBacked
  <2> QED
    BY <1>1, <1>2, <1>9, <1>12, Zenon
<1>15. ServedBacked'
  <2> SUFFICES ASSUME NEW d \in Callers
               PROVE  /\ caller'[d].pc # "idle" => caller'[d].key # NoKey
                      /\ caller'[d].pc = "done" =>
                           /\ caller'[d].bearer \in Tokens
                           /\ Covers(minted'[caller'[d].bearer], caller'[d].key, caller'[d].at + 1)
    BY DEF ServedBacked
  <2>1. CASE d = c
    <3>1. /\ caller'[d].key = caller[c].key /\ caller'[d].bearer = t /\ caller'[d].at = clock
      BY <1>5, <1>6, <2>1
    <3> QED
      BY <1>1, <1>2, <1>13, <3>1
  <2>2. CASE d # c
    <3>1. caller'[d] = caller[d]
      BY <1>5, <2>2
    <3>2. CASE caller[d].pc = "done"
      <4>1. /\ caller[d].bearer \in Tokens /\ caller[d].key # NoKey
            /\ Covers(minted[caller[d].bearer], caller[d].key, caller[d].at + 1)
        BY <3>2 DEF ServedBacked
      <4>2. caller[d].bearer # t
        BY <1>1, <3>2
      <4> QED
        BY <1>7, <3>1, <4>1, <4>2
    <3> QED
      BY <3>1, <3>2 DEF ServedBacked
  <2> QED
    BY <2>1, <2>2
<1>16. \A d \in Callers : caller'[d].pc \notin {"exchange", "refresh"} \cup OnTheWay
  <2> SUFFICES ASSUME NEW d \in Callers
               PROVE  caller'[d].pc \notin {"exchange", "refresh"} \cup OnTheWay
    OBVIOUS
  <2>1. CASE d = c
    BY <1>5, <1>6, <2>1 DEF OnTheWay
  <2>2. CASE d # c
    BY <1>1, <1>5, <2>2 DEF LockHeld
  <2> QED
    BY <2>1, <2>2
<1>17. LockHeld' /\ FlightBacked'
  BY <1>16 DEF LockHeld, FlightBacked
<1>18. caller[c].refresh \in Minted \cup {0} /\ caller[c].refresh \notin spent
  BY DEF RefreshBacked, Store, OnTheWay
<1>19. RefreshBacked'
  BY <1>4, <1>9, <1>10, <1>16, <1>18 DEF RefreshBacked
<1>20. RotationKept'
  BY <1>4, <1>9, <1>18 DEF RotationKept
<1> QED
  BY <1>11, <1>14, <1>15, <1>17, <1>19, <1>20

(* The steps of the callers that ask the provider nothing.                 *)
LEMMA CallerKeeps ==
  ASSUME TokenInv, NEW c \in Callers, NEW next \in Caller,
         caller' = [caller EXCEPT ![c] = next],
         next.pc # "idle" => next.key # NoKey,
         next.pc = "done" => /\ clock < cached.expires /\ next.bearer = cached.token
                             /\ next.key = cached.key /\ next.at = clock,
         next.pc \in {"exchange", "refresh"} => writer' = c,
         next.pc = "refresh" => cached.refresh # 0,
         next.pc \notin OnTheWay,
         \A d \in Callers \ {c} : writer = d => writer' = d,
         lost \subseteq lost',
         caller[c].pc = "refreshed" => cached.refresh \in lost',
         UNCHANGED <<cached, minted, spent, clock>>
  PROVE  TokenInv'
<1> USE DEF TokenInv
<1>1. caller'[c] = next /\ \A d \in Callers \ {c} : caller'[d] = caller[d]
  BY DEF TokenTypes
<1>2. TokenTypes'
  BY DEF TokenTypes
<1>3. CacheBacked'
  BY DEF CacheBacked
<1>4. ServedBacked'
  <2> SUFFICES ASSUME NEW d \in Callers
               PROVE  /\ caller'[d].pc # "idle" => caller'[d].key # NoKey
                      /\ caller'[d].pc = "done" =>
                           /\ caller'[d].bearer \in Tokens
                           /\ Covers(minted[caller'[d].bearer], caller'[d].key, caller'[d].at + 1)
    BY DEF ServedBacked
  <2>1. CASE d = c /\ next.pc = "done"
    <3>1. /\ cached.token \in Tokens /\ Covers(minted[cached.token], cached.key, cached.expires)
      BY <2>1 DEF CacheBacked
    <3>2. /\ clock \in Nat /\ cached.expires \in Nat /\ minted[cached.token] \in TokenGrant
      BY <3>1 DEF TokenTypes, CacheEntry
    <3>3. Effective(minted[cached.token].said) \in Nat
      BY <3>2, EffectiveBounded DEF TokenGrant
    <3>4. Covers(minted[cached.token], cached.key, clock + 1)
      BY <2>1, <3>1, <3>2, <3>3 DEF Covers, TokenGrant
    <3> QED
      BY <1>1, <2>1, <3>1, <3>4
  <2>2. CASE d = c /\ next.pc # "done"
    BY <1>1, <2>2
  <2>3. CASE d # c
    BY <1>1, <2>3 DEF ServedBacked
  <2> QED
    BY <2>1, <2>2, <2>3
<1>5. LockHeld'
  BY <1>1 DEF LockHeld
<1>6. FlightBacked'
  <2> SUFFICES ASSUME NEW d \in Callers, caller'[d].pc \in OnTheWay
               PROVE  /\ caller'[d].bearer \in Tokens
                      /\ minted[caller'[d].bearer].key = caller'[d].key
                      /\ clock < cached.expires => cached.token # caller'[d].bearer
                      /\ \A e \in Callers :
                           caller'[e].pc = "done" => caller'[e].bearer # caller'[d].bearer
    BY DEF FlightBacked
  <2>1. d # c /\ caller'[d] = caller[d]
    BY <1>1
  <2>2. /\ caller[d].bearer \in Tokens /\ minted[caller[d].bearer].key = caller[d].key
        /\ clock < cached.expires => cached.token # caller[d].bearer
        /\ \A e \in Callers : caller[e].pc = "done" => caller[e].bearer # caller[d].bearer
    BY <2>1 DEF FlightBacked
  <2>3. \A e \in Callers : caller'[e].pc = "done" => caller'[e].bearer # caller'[d].bearer
    BY <1>1, <2>1, <2>2
  <2> QED
    BY <2>1, <2>2, <2>3
<1>7. RefreshBacked'
  <2>1. Minted' = Minted
    BY DEF Minted
  <2> QED
    BY <1>1, <2>1 DEF RefreshBacked
<1>8. RotationKept'
  BY <1>1 DEF RotationKept
<1> QED
  BY <1>2, <1>3, <1>4, <1>5, <1>6, <1>7, <1>8

LEMMA TokenStep == TokenInv /\ [TokenNext]_tokenVars => TokenInv'
<1> SUFFICES ASSUME TokenInv, [TokenNext]_tokenVars PROVE TokenInv'
  OBVIOUS
<1> USE DEF TokenInv
<1>0. Rest \in Caller /\ Rest.pc = "idle"
  BY DEF Rest, Caller, NoKey
<1>1. ASSUME NEW c \in Callers, NEW key \in Identities, Ask(c, key) PROVE TokenInv'
  <2> DEFINE next == IF FreshFor(key)
                     THEN [pc |-> "done", key |-> key, bearer |-> cached.token, at |-> clock, refresh |-> 0]
                     ELSE [pc |-> "lock", key |-> key, bearer |-> 0, at |-> 0, refresh |-> 0]
  <2>1. key # NoKey
    BY TokenConstants DEF NoKey
  <2>2. /\ next \in Caller /\ next.key = key /\ next.pc \in {"done", "lock"}
        /\ next.pc = "done" => FreshFor(key) /\ next.bearer = cached.token /\ next.at = clock
    BY DEF TokenTypes, Caller, CacheEntry
  <2>3. caller' = [caller EXCEPT ![c] = next]
    BY <1>1 DEF Ask
  <2>4. UNCHANGED <<cached, writer, minted, spent, lost, clock>> /\ caller[c].pc = "idle"
    BY <1>1 DEF Ask
  <2> HIDE DEF next
  <2> QED
    BY <2>1, <2>2, <2>3, <2>4, CallerKeeps DEF FreshFor, OnTheWay
<1>2. ASSUME NEW c \in Callers, Locked(c) PROVE TokenInv'
  <2>1. /\ caller[c].pc = "lock" /\ writer = "free" /\ caller[c] \in Caller /\ caller[c].key # NoKey
        /\ UNCHANGED <<cached, minted, spent, lost, clock>>
    BY <1>2 DEF Locked, TokenTypes, ServedBacked
  <2>2. \A d \in Callers : writer # d
    BY <2>1, TokenConstants
  <2>3. CASE FreshFor(caller[c].key)
    <3> DEFINE next == [pc |-> "done", key |-> caller[c].key, bearer |-> cached.token,
                        at |-> clock, refresh |-> 0]
    <3>1. /\ next \in Caller /\ next.pc = "done" /\ next.key = caller[c].key
          /\ next.bearer = cached.token /\ next.at = clock
      BY <2>1 DEF TokenTypes, Caller, CacheEntry
    <3>2. caller' = [caller EXCEPT ![c] = next] /\ UNCHANGED writer
      BY <1>2, <2>3 DEF Locked, Served
    <3> HIDE DEF next
    <3> QED
      BY <2>1, <2>2, <2>3, <3>1, <3>2, CallerKeeps DEF FreshFor, OnTheWay
  <2>4. CASE ~FreshFor(caller[c].key)
    <3>1. PICK pc \in {"refresh", "exchange"} :
            /\ caller' = [caller EXCEPT ![c].pc = pc]
            /\ pc = "refresh" => cached.refresh # 0
      BY <1>2, <2>4 DEF Locked, CanRefresh
    <3> DEFINE next == [pc |-> pc, key |-> caller[c].key, bearer |-> caller[c].bearer,
                        at |-> caller[c].at, refresh |-> caller[c].refresh]
    <3>2. next \in Caller /\ next.pc = pc /\ next.key = caller[c].key
      BY <2>1 DEF Caller
    <3>3. caller' = [caller EXCEPT ![c] = next] /\ writer' = c
      BY <1>2, <2>1, <2>4, <3>1 DEF Locked, Caller, TokenTypes
    <3> HIDE DEF next
    <3> QED
      BY <2>1, <2>2, <3>1, <3>2, <3>3, CallerKeeps DEF OnTheWay
  <2> QED
    BY <2>3, <2>4
<1>3. ASSUME NEW c \in Callers, RefreshRefused(c) PROVE TokenInv'
  <2> DEFINE next == [pc |-> "exchange", key |-> caller[c].key, bearer |-> caller[c].bearer,
                      at |-> caller[c].at, refresh |-> caller[c].refresh]
  <2>1. /\ caller[c] \in Caller /\ caller[c].pc = "refresh" /\ caller[c].key # NoKey /\ writer = c
        /\ UNCHANGED <<cached, writer, minted, spent, lost, clock>>
    BY <1>3 DEF RefreshRefused, TokenTypes, ServedBacked, LockHeld
  <2>2. next \in Caller /\ next.pc = "exchange" /\ next.key = caller[c].key
    BY <2>1 DEF Caller
  <2>3. caller' = [caller EXCEPT ![c] = next]
    <3>1. [caller[c] EXCEPT !.pc = "exchange"] = next
      BY <2>1 DEF Caller
    <3>2. caller' = [caller EXCEPT ![c] = [caller[c] EXCEPT !.pc = "exchange"]]
      BY <1>3 DEF RefreshRefused
    <3> QED
      BY <3>1, <3>2, Zenon
  <2> HIDE DEF next
  <2> QED
    BY <2>1, <2>2, <2>3, CallerKeeps DEF OnTheWay
<1>4. ASSUME NEW c \in Callers, GivesUp(c) PROVE TokenInv'
  BY <1>0, <1>4, CallerKeeps DEF GivesUp, OnTheWay
<1>5. ASSUME NEW c \in Callers, Finish(c) PROVE TokenInv'
  BY <1>0, <1>5, CallerKeeps DEF Finish, OnTheWay
<1>6. ASSUME NEW c \in Callers, NEW ttl \in Ttls, NEW t \in Tokens, Exchange(c, ttl, t)
      PROVE  TokenInv'
  <2>1. PICK refresh \in {0, t} : Grant(c, ttl, t, refresh, "loggedIn")
    BY <1>6 DEF Exchange
  <2>2. t \notin Minted /\ 0 \notin Minted /\ spent \subseteq Minted
    BY <2>1 DEF Grant, RefreshBacked, Minted, Tokens
  <2>3. /\ caller[c].pc = "exchange" /\ UNCHANGED <<cached, writer, spent, lost, clock>>
    BY <1>6 DEF Exchange
  <2>4. "loggedIn" \in OnTheWay
    BY DEF OnTheWay
  <2> QED
    BY <2>1, <2>2, <2>3, <2>4, GrantKeeps
<1>7. ASSUME NEW c \in Callers, NEW ttl \in Ttls, NEW t \in Tokens, Refresh(c, ttl, t)
      PROVE  TokenInv'
  <2>1. PICK refresh \in {cached.refresh, t} :
          /\ Grant(c, ttl, t, refresh, "refreshed")
          /\ spent' = IF refresh = t THEN spent \cup {cached.refresh} ELSE spent
    BY <1>7 DEF Refresh
  <2>2. /\ caller[c].pc = "refresh" /\ cached.refresh \notin spent /\ cached.refresh # 0
        /\ cached.refresh \in Minted \cup {0} /\ spent \subseteq Minted
        /\ UNCHANGED <<cached, writer, lost, clock>>
    BY <1>7 DEF Refresh, RefreshBacked
  <2>3. t \notin Minted
    BY <2>1 DEF Grant
  <2>4. "refreshed" \in OnTheWay
    BY DEF OnTheWay
  <2> QED
    BY <2>1, <2>2, <2>3, <2>4, GrantKeeps
<1>8. ASSUME NEW c \in Callers, Store(c) PROVE TokenInv'
  BY <1>8, StoreKeeps
<1>9. CASE TimePasses
  <2>1. /\ clock' = clock + 1 /\ clock \in Nat /\ cached.expires \in Nat
        /\ UNCHANGED <<cached, writer, caller, minted, spent, lost>>
    BY <1>9 DEF TimePasses, TokenTypes, CacheEntry
  <2>2. clock' \in Nat /\ (clock' < cached'.expires => clock < cached.expires)
    BY <2>1
  <2>3. TokenTypes' /\ ServedBacked' /\ LockHeld'
    BY <2>1, <2>2 DEF TokenTypes, ServedBacked, LockHeld
  <2>4. CacheBacked' /\ FlightBacked'
    BY <2>1, <2>2 DEF CacheBacked, FlightBacked
  <2>5. RefreshBacked' /\ RotationKept'
    BY <2>1 DEF RefreshBacked, RotationKept, Minted
  <2> QED
    BY <2>3, <2>4, <2>5
<1>10. CASE UNCHANGED tokenVars
  BY <1>10 DEF tokenVars, TokenTypes, CacheBacked, ServedBacked, LockHeld, FlightBacked,
               RefreshBacked, RotationKept, Minted
<1> QED
  BY <1>1, <1>2, <1>3, <1>4, <1>5, <1>6, <1>7, <1>8, <1>9, <1>10 DEF TokenNext

(* A call is only ever handed a token of its own identity; the provider    *)
(* still accepts it when its stated lifetime covers the skew and the floor *)
(* and its answer came within the skew, and otherwise the overrun is       *)
(* bounded; a rotated refresh token is lost only with the call that        *)
(* rotated it.  bearer() of both caches, for any number of callers and     *)
(* identities and whatever lifetimes the provider grants, zero included.   *)
THEOREM BearersHold == TokenSpec => []BearerUsable
<1>1. TokenInv => BearerUsable
  <2> SUFFICES ASSUME TokenInv, NEW c \in Callers, caller[c].pc = "done"
               PROVE  OwnToken(c) /\ StillAccepted(c) /\ BoundedOverrun(c)
    BY DEF BearerUsable, TokenInv
  <2> DEFINE m == minted[caller[c].bearer]
  <2>1. /\ m \in TokenGrant /\ caller[c].at \in Nat /\ m.key = caller[c].key
        /\ caller[c].at + 1 <= m.landed + Effective(m.said)
    BY DEF TokenInv, TokenTypes, ServedBacked, Covers, Caller
  <2>2. /\ m.said \in Nat /\ m.ttl \in Nat /\ m.landed \in Nat /\ m.from \in Nat
    BY <2>1 DEF TokenGrant
  <2>3. /\ Effective(m.said) \in Nat /\ Effective(m.said) <= m.said + Floor
        /\ m.said >= Skew + Floor => Effective(m.said) + Skew = m.said
    BY <2>2, EffectiveBounded
  <2> HIDE DEF m
  <2>4. m.said <= m.ttl /\ m.said >= Skew + Floor /\ m.landed <= m.from + Skew
          => caller[c].at < m.from + m.ttl
    BY <2>1, <2>2, <2>3, TokenConstants
  <2>5. caller[c].at < m.landed + m.said + Floor
    BY <2>1, <2>2, <2>3, TokenConstants
  <2> QED
    BY <2>1, <2>4, <2>5 DEF OwnToken, StillAccepted, BoundedOverrun, m
<1> QED
  BY <1>1, TokenInitial, TokenStep, PTL DEF TokenSpec

-----------------------------------------------------------------------------
(* Secrets.  Before the startup resolution has ended, the handle is either *)
(* still the configuration that resolution works on, or one the watcher    *)
(* has put there whole; so what startup attaches leaves no hole.           *)

Filled(h) == RefsOf(h.cfg) \subseteq DOMAIN h.secrets

\* A writer's task is a record; what it resolves is left open.
IsTask(t) == \E pc, c, base, got : t = [pc |-> pc, cfg |-> c, base |-> base, got |-> got]

IsHandle(h) == \E c, secrets : h = [cfg |-> c, secrets |-> secrets]

SecretsInv ==
    /\ task = [w \in Writers |-> task[w]] /\ \A w \in Writers : IsTask(task[w])
    /\ IsHandle(handle)
    /\ phase = "serving" => Filled(handle)
    /\ phase = "starting" => handle.cfg = task["startup"].cfg \/ Filled(handle)

(* An update adds what it resolved and drops nothing another writer put    *)
(* there.                                                                  *)
LEMMA AttachFills ==
  ASSUME NEW h, IsHandle(h), NEW t
  PROVE  /\ IsHandle(Attach(h, Snapshot(t))) /\ Attach(h, Snapshot(t)).cfg = h.cfg
         /\ DOMAIN Attach(h, Snapshot(t)).secrets = RefsOf(t.cfg) \cup DOMAIN h.secrets
<1>1. PICK snap : snap = Snapshot(t)
  OBVIOUS
<1>2. DOMAIN snap = RefsOf(t.cfg)
  BY <1>1 DEF Snapshot
<1>3. PICK c, secrets : h = [cfg |-> c, secrets |-> secrets]
  BY DEF IsHandle
<1>4. PICK merged : merged = MergedWith(secrets, snap)
  OBVIOUS
<1>5. DOMAIN merged = DOMAIN snap \cup DOMAIN secrets
  BY <1>4 DEF MergedWith
<1>6. Attach(h, snap) = [cfg |-> c, secrets |-> merged]
  BY <1>3, <1>4 DEF Attach
<1>7. IsHandle(Attach(h, snap))
  BY <1>6 DEF IsHandle
<1> QED
  BY <1>1, <1>2, <1>3, <1>5, <1>6, <1>7

LEMMA StartIsTask ==
  ASSUME NEW c, NEW base
  PROVE  /\ IsTask(StartTask(c, base)) /\ StartTask(c, base).cfg = c
         /\ IsTask(NoTask(c)) /\ NoTask(c).cfg = c
BY DEF StartTask, NoTask, IsTask

LEMMA AnswerKeepsTask ==
  ASSUME NEW t, IsTask(t), NEW d, NEW a
  PROVE  IsTask(WithAnswer(t, d, a)) /\ WithAnswer(t, d, a).cfg = t.cfg
<1>1. PICK pc, c, base, got : t = [pc |-> pc, cfg |-> c, base |-> base, got |-> got]
  BY DEF IsTask
<1> DEFINE got2 == t.got @@ (d :> a)
           pc2 == IF DOMAIN got2 = DocsOf(t.cfg) THEN "resolved" ELSE t.pc
<1>2. WithAnswer(t, d, a) = [t EXCEPT !.got = got2, !.pc = pc2]
  BY DEF WithAnswer
<1> HIDE DEF got2, pc2
<1>3. WithAnswer(t, d, a) = [pc |-> pc2, cfg |-> c, base |-> base, got |-> got2]
  BY <1>1, <1>2
<1>4. IsTask(WithAnswer(t, d, a))
  BY <1>3 DEF IsTask
<1> QED
  BY <1>1, <1>3, <1>4

(* A step that leaves the handle and the phase alone, and the              *)
(* configuration startup resolves.                                         *)
LEMMA TaskMoves ==
  ASSUME SecretsInv, UNCHANGED <<handle, phase>>, NEW w \in Writers, NEW new,
         task' = [task EXCEPT ![w] = new], IsTask(new),
         w = "startup" => new.cfg = task["startup"].cfg
  PROVE  SecretsInv'
<1>1. /\ task' = [x \in Writers |-> task'[x]]
      /\ \A x \in Writers : task'[x] = IF x = w THEN new ELSE task[x]
  BY DEF SecretsInv
<1>2. \A x \in Writers : IsTask(task'[x])
  BY <1>1 DEF SecretsInv
<1>3. task'["startup"].cfg = task["startup"].cfg
  BY <1>1 DEF Writers
<1> QED
  BY <1>1, <1>2, <1>3 DEF SecretsInv, Filled

LEMMA TaskRests ==
  ASSUME SecretsInv, UNCHANGED <<handle, phase, task>>
  PROVE  SecretsInv'
BY DEF SecretsInv, Filled

LEMMA SecretsInitial == SecretsInit => SecretsInv
<1> SUFFICES ASSUME SecretsInit PROVE SecretsInv
  OBVIOUS
<1>1. \A w \in Writers : task[w] = StartTask(file, None) \/ task[w] = NoTask(file)
  BY DEF SecretsInit
<1>2. /\ task = [w \in Writers |-> task[w]]
      /\ task["startup"].cfg = file /\ handle.cfg = file /\ phase = "starting"
  BY StartIsTask DEF SecretsInit, Writers
<1>3. IsHandle(handle)
  BY DEF SecretsInit, IsHandle
<1>4. \A w \in Writers : IsTask(task[w])
  BY <1>1, StartIsTask
<1> QED
  BY <1>2, <1>3, <1>4 DEF SecretsInv

(* Another writer has put a whole configuration there, or startup or the   *)
(* refresher has added to the one that is there.                           *)
LEMMA HandleMoves ==
  ASSUME SecretsInv, NEW w \in Writers, task' = [task EXCEPT ![w] = NoTask(task[w].cfg)],
         IsHandle(handle'),
         \/ Filled(handle')
         \/ phase' = "refused"
         \/ handle'.cfg = handle.cfg /\ DOMAIN handle.secrets \subseteq DOMAIN handle'.secrets /\ phase' = phase
  PROVE  SecretsInv'
<1>1. /\ task' = [x \in Writers |-> task'[x]]
      /\ \A x \in Writers : task'[x] = IF x = w THEN NoTask(task[w].cfg) ELSE task[x]
  BY DEF SecretsInv
<1>2. \A x \in Writers : IsTask(task'[x])
  BY <1>1, StartIsTask DEF SecretsInv
<1>3. task'["startup"].cfg = task["startup"].cfg
  BY <1>1, StartIsTask DEF Writers
<1>4. CASE Filled(handle')
  BY <1>1, <1>2, <1>4 DEF SecretsInv, Filled
<1>5. CASE phase' = "refused"
  BY <1>1, <1>2, <1>5 DEF SecretsInv, Filled
<1>6. CASE /\ handle'.cfg = handle.cfg /\ DOMAIN handle.secrets \subseteq DOMAIN handle'.secrets
           /\ phase' = phase
  <2>1. Filled(handle) => Filled(handle')
    BY <1>6 DEF Filled
  <2> QED
    BY <1>1, <1>2, <1>3, <1>6, <2>1 DEF SecretsInv, Filled
<1> QED
  BY <1>4, <1>5, <1>6

LEMMA StepStartup == SecretsInv /\ Startup => SecretsInv'
<1> SUFFICES ASSUME SecretsInv, Startup PROVE SecretsInv'
  OBVIOUS
<1> DEFINE t == task["startup"]
<1>1. /\ task' = [task EXCEPT !["startup"] = NoTask(task["startup"].cfg)] /\ phase = "starting"
      /\ "startup" \in Writers /\ IsHandle(handle)
  BY DEF Startup, SecretsInv, Writers
<1>2. CASE Failed(t)
  <2>1. phase' = "refused" /\ handle' = handle
    BY <1>2 DEF Startup
  <2> QED
    BY <1>1, <2>1, HandleMoves
<1>3. CASE ~Failed(t)
  <2>1. handle' = Attach(handle, Snapshot(t))
    BY <1>3 DEF Startup
  <2>2. /\ IsHandle(handle') /\ handle'.cfg = handle.cfg
        /\ DOMAIN handle'.secrets = RefsOf(t.cfg) \cup DOMAIN handle.secrets
    BY <1>1, <2>1, AttachFills
  <2>3. handle.cfg = t.cfg \/ Filled(handle)
    BY <1>1 DEF SecretsInv
  <2>4. Filled(handle')
    BY <2>2, <2>3 DEF Filled
  <2> QED
    BY <1>1, <2>2, <2>4, HandleMoves
<1> QED
  BY <1>2, <1>3

LEMMA StepWatchSwap == SecretsInv /\ WatchSwap => SecretsInv'
<1> SUFFICES ASSUME SecretsInv, WatchSwap PROVE SecretsInv'
  OBVIOUS
<1> DEFINE t == task["watcher"]
<1>1. /\ task' = [task EXCEPT !["watcher"] = NoTask(task["watcher"].cfg)] /\ phase' = phase
      /\ "watcher" \in Writers /\ IsHandle(handle)
  BY DEF WatchSwap, SecretsInv, Writers
<1>2. CASE Failed(t)
  <2>1. handle' = handle
    BY <1>2 DEF WatchSwap
  <2> QED
    BY <1>1, <2>1, HandleMoves
<1>3. CASE ~Failed(t)
  <2>1. PICK c, snap : c = t.cfg /\ snap = Snapshot(t) /\ handle' = [cfg |-> c, secrets |-> snap]
    BY <1>3 DEF WatchSwap
  <2>2. DOMAIN snap = RefsOf(c)
    BY <2>1 DEF Snapshot
  <2>3. IsHandle(handle') /\ handle'.cfg = c /\ handle'.secrets = snap
    BY <2>1 DEF IsHandle
  <2>4. Filled(handle')
    BY <2>2, <2>3 DEF Filled
  <2> QED
    BY <1>1, <2>3, <2>4, HandleMoves
<1> QED
  BY <1>2, <1>3

LEMMA StepRefreshDone == SecretsInv /\ RefreshDone => SecretsInv'
<1> SUFFICES ASSUME SecretsInv, RefreshDone PROVE SecretsInv'
  OBVIOUS
<1> DEFINE t == task["refresher"]
<1>1. /\ task' = [task EXCEPT !["refresher"] = NoTask(task["refresher"].cfg)] /\ phase' = phase
      /\ "refresher" \in Writers /\ IsHandle(handle)
  BY DEF RefreshDone, SecretsInv, Writers
<1>2. handle' = handle \/ handle' = Attach(handle, Snapshot(t))
  BY DEF RefreshDone
<1>3. /\ IsHandle(handle') /\ handle'.cfg = handle.cfg
      /\ DOMAIN handle.secrets \subseteq DOMAIN handle'.secrets
  BY <1>1, <1>2, AttachFills
<1> QED
  BY <1>1, <1>3, HandleMoves

(* Starting a resolution, or an answer of one.                             *)
LEMMA StepTask ==
  ASSUME SecretsInv,
         \/ WatchTick \/ RefreshTick \/ RefreshEarly
         \/ \E w \in Writers, d \in Docs : Fetch(w, d)
  PROVE  SecretsInv'
<1>1. UNCHANGED <<handle, phase>>
  BY DEF WatchTick, RefreshTick, RefreshEarly, Fetch
<1>2. CASE WatchTick
  <2>1. task' = task \/ task' = [task EXCEPT !["watcher"] = StartTask(file, None)]
    BY <1>2 DEF WatchTick
  <2> QED
    BY <1>1, <2>1, TaskRests, TaskMoves, StartIsTask DEF Writers
<1>3. CASE RefreshTick \/ RefreshEarly
  <2>1. task' = task \/ task' = [task EXCEPT !["refresher"] = StartTask(handle.cfg, handle.secrets)]
    BY <1>3 DEF RefreshTick, RefreshEarly, Refreshing
  <2> QED
    BY <1>1, <2>1, TaskRests, TaskMoves, StartIsTask DEF Writers
<1>4. ASSUME NEW w \in Writers, NEW d, Fetch(w, d) PROVE SecretsInv'
  <2>1. IsTask(task[w])
    BY <1>4 DEF SecretsInv
  <2>2. ASSUME NEW a, task' = [task EXCEPT ![w] = WithAnswer(task[w], d, a)] PROVE SecretsInv'
    BY <1>1, <1>4, <2>1, <2>2, AnswerKeepsTask, TaskMoves
  <2>3. \/ task' = [task EXCEPT ![w] = WithAnswer(task[w], d, Response(d, task[w].cfg))]
        \/ \E e \in Faulty : task' = [task EXCEPT ![w] = WithAnswer(task[w], d, Answer(0, e))]
    BY <1>4 DEF Fetch
  <2> QED
    BY <2>2, <2>3
<1> QED
  BY <1>2, <1>3, <1>4

LEMMA SecretsStep == SecretsInv /\ [SecretsNext]_secretVars => SecretsInv'
<1> SUFFICES ASSUME SecretsInv, [SecretsNext]_secretVars PROVE SecretsInv'
  OBVIOUS
<1>1. CASE \/ UNCHANGED secretVars \/ Unauthorized \/ GapPasses \/ Edit
           \/ \E d \in Docs : Rotate(d)
  BY <1>1, TaskRests DEF secretVars, Unauthorized, GapPasses, Edit, Rotate
<1> QED
  BY <1>1, StepStartup, StepWatchSwap, StepRefreshDone, StepTask DEF SecretsNext

(* Once the server serves, every reference of the configuration in force   *)
(* has a value (resolve_startup, the config watcher and refresh_once all   *)
(* write one handle), for any configurations, documents and faults.        *)
THEOREM SecretsFilled == SecretsSpec => []NoHoles
<1>1. SecretsInv => NoHoles
  BY DEF SecretsInv, NoHoles, Filled
<1> QED
  BY <1>1, SecretsInitial, SecretsStep, PTL DEF SecretsSpec

-----------------------------------------------------------------------------
(* Console sessions.  RightAccount is about what is sent; what is sent was *)
(* decided when the call began, and a key found in the cache was minted    *)
(* for the very server and account it is filed under.  A call that holds a *)
(* key it has not filed yet accounts for the key in SessionsKept.          *)

IsSeat(s) ==
  \E pc, login, code, password, key, id, recaptcha, carriers, source :
    s = [pc |-> pc, login |-> login, code |-> code, password |-> password, key |-> key,
         id |-> id, recaptcha |-> recaptcha, carriers |-> carriers, source |-> source]

MintedAs(given, key, id) == key \in DOMAIN given /\ given[key] = id

SeatSound(s) ==
  /\ s.pc \in {"state", "password", "code"} =>
       s.password = s.login.email /\ s.code \in {Nobody, s.login.email}
  /\ s.pc = "code" => s.code # Nobody
  /\ s.pc = "minted" => MintedAs(mintedFor, s.key, Identity(s.login))
  /\ s.pc \in {"lookup", "asked"} => s.id = Identity(s.login)
  /\ s.pc = "asked" /\ s.source = "login" => MintedAs(mintedFor, s.key, s.id)
  /\ s.pc = "asked" /\ s.source = "access" => s.key = s.carriers.access
  /\ s.pc = "asked" /\ s.source = "static" =>
       s.key = s.carriers.static /\ s.carriers.access = Nobody

KeptSound == \A id \in DOMAIN kept : MintedAs(mintedFor, kept[id], id)

MintedInOrder == \E n \in Nat : DOMAIN mintedFor = 1..n

ConsoleInv ==
  /\ consoleConfig \in ConsoleConfigs
  /\ seat = [c \in Sessioners |-> seat[c]]
  /\ \A c \in Sessioners : IsSeat(seat[c]) /\ SeatSound(seat[c])
  /\ KeptSound /\ MintedInOrder

(* The rule login_config follows: what a server inherits belongs to the    *)
(* account it logs in with.                                                *)
LEMMA InheritOwned ==
  ASSUME NEW entry, NEW account, NEW top, NEW own, NEW secret,
         account = IF entry.email # Nobody THEN entry.email ELSE top,
         Owned(own, account), Owned(secret, top)
  PROVE  Owned(Inherit(entry, own, secret), account)
BY DEF Owned, Inherit

LEMMA LoginOwned ==
  ASSUME NEW cfg \in ConsoleConfigs, NEW alias \in Aliases
  PROVE  /\ Owned(LoginConfig(cfg, alias).password, LoginConfig(cfg, alias).email)
         /\ Owned(LoginConfig(cfg, alias).totpCommand, LoginConfig(cfg, alias).email)
         /\ Owned(LoginConfig(cfg, alias).totpSecret, LoginConfig(cfg, alias).email)
<1>1. PICK entry : entry = EntryOf(cfg, alias)
  OBVIOUS
<1>2. PICK account : account = Account(cfg, entry)
  OBVIOUS
<1>3. account = IF entry.email # Nobody THEN entry.email ELSE cfg.email
  BY <1>2 DEF Account
<1>4. /\ Owned(entry.password, account) /\ Owned(entry.totpCommand, account)
      /\ Owned(entry.totpSecret, account)
  <2>1. CASE alias = NoAlias
    BY <1>1, <2>1 DEF EntryOf, BlankEntry, Owned
  <2>2. CASE alias # NoAlias
    BY <1>1, <1>2, <2>2, ConsoleConstants DEF EntryOf
  <2> QED
    BY <2>1, <2>2
<1>5. /\ Owned(cfg.password, cfg.email) /\ Owned(cfg.totpCommand, cfg.email)
      /\ Owned(cfg.totpSecret, cfg.email)
  BY ConsoleConstants
<1>6. /\ Owned(Inherit(entry, entry.password, cfg.password), account)
      /\ Owned(Inherit(entry, entry.totpCommand, cfg.totpCommand), account)
      /\ Owned(Inherit(entry, entry.totpSecret, cfg.totpSecret), account)
  BY <1>3, <1>4, <1>5, InheritOwned
<1>7. /\ LoginConfig(cfg, alias).email = account
      /\ LoginConfig(cfg, alias).password = Inherit(entry, entry.password, cfg.password)
      /\ LoginConfig(cfg, alias).totpCommand = Inherit(entry, entry.totpCommand, cfg.totpCommand)
      /\ LoginConfig(cfg, alias).totpSecret = Inherit(entry, entry.totpSecret, cfg.totpSecret)
  BY <1>1, <1>2 DEF LoginConfig
<1> QED
  BY <1>6, <1>7

(* So do the password and the one-time code that are resolved for it.      *)
LEMMA ResolvedOwned ==
  ASSUME NEW cfg, NEW kind, NEW secret, NEW email, Owned(secret, email)
  PROVE  ResolveSecret(cfg, kind, secret, email) \in {Nobody, email}
BY DEF ResolveSecret, Owned

LEMMA CodeOwned ==
  ASSUME NEW cfg, NEW login, NEW explicit \in BOOLEAN, Owned(login.totpCommand, login.email),
         Owned(login.totpSecret, login.email)
  PROVE  MfaCode(cfg, login, explicit) \in {Nobody, login.email}
<1>1. ResolveSecret(cfg, "totp-secret", login.totpSecret, login.email) \in {Nobody, login.email}
  BY ResolvedOwned
<1> QED
  BY <1>1 DEF MfaCode, Owned

(* One call moves; the keys minted so far stay minted.                     *)
LEMMA SeatMoves ==
  ASSUME ConsoleInv, NEW c \in Sessioners, NEW new, Sit(c, new), IsSeat(new), SeatSound(new)',
         \A k, id : MintedAs(mintedFor, k, id) => MintedAs(mintedFor', k, id),
         consoleConfig' = consoleConfig, KeptSound', MintedInOrder'
  PROVE  ConsoleInv'
<1>1. /\ seat' = [x \in Sessioners |-> seat'[x]] /\ seat'[c] = new
      /\ \A x \in Sessioners : x # c => seat'[x] = seat[x]
  BY DEF ConsoleInv, Sit
<1>2. \A x \in Sessioners : IsSeat(seat'[x])
  BY <1>1 DEF ConsoleInv
<1>3. ASSUME NEW x \in Sessioners PROVE SeatSound(seat[x])'
  <2>1. CASE x = c
    BY <1>1, <2>1 DEF SeatSound
  <2>2. CASE x # c
    <3>1. SeatSound(seat[x]) /\ seat'[x] = seat[x]
      BY <1>1, <2>2 DEF ConsoleInv
    <3> QED
      BY <3>1 DEF SeatSound
  <2> QED
    BY <2>1, <2>2
<1> QED
  BY <1>1, <1>2, <1>3 DEF ConsoleInv

(* No key is minted and none filed.                                        *)
LEMMA SeatOnly ==
  ASSUME ConsoleInv, NEW c \in Sessioners, NEW new, Sit(c, new), IsSeat(new), SeatSound(new),
         UNCHANGED <<consoleConfig, kept, mintedFor>>
  PROVE  ConsoleInv'
<1>1. SeatSound(new)' /\ KeptSound' /\ MintedInOrder'
  BY DEF SeatSound, ConsoleInv, KeptSound, MintedInOrder
<1> QED
  BY <1>1, SeatMoves

LEMMA RestingSound == IsSeat(Resting) /\ Resting.pc = "idle" /\ SeatSound(Resting)
<1>1. IsSeat(Resting) /\ Resting.pc = "idle"
  BY DEF IsSeat, Resting
<1> QED
  BY <1>1 DEF SeatSound

LEMMA StepStartLogin ==
  ASSUME ConsoleInv, NEW c \in Sessioners, StartLogin(c)
  PROVE  ConsoleInv'
<1>1. PICK alias \in Aliases, explicit \in BOOLEAN, recaptcha \in BOOLEAN, yields \in BOOLEAN :
        /\ ResolveSecret(consoleConfig, "password", LoginConfig(consoleConfig, alias).password,
                         LoginConfig(consoleConfig, alias).email) # Nobody
        /\ Sit(c, [Resting EXCEPT !.pc = "state",
                     !.login = LoginConfig(consoleConfig, alias),
                     !.password = ResolveSecret(consoleConfig, "password",
                                                LoginConfig(consoleConfig, alias).password,
                                                LoginConfig(consoleConfig, alias).email),
                     !.recaptcha = recaptcha, !.carriers = Carriers(consoleConfig),
                     !.code = MfaCode(consoleConfig, LoginConfig(consoleConfig, alias), explicit)])
  BY DEF StartLogin
<1>2. PICK cfg, login : cfg = consoleConfig /\ login = LoginConfig(cfg, alias)
  OBVIOUS
<1>3. PICK password, code, carriers :
        /\ password = ResolveSecret(cfg, "password", login.password, login.email)
        /\ code = MfaCode(cfg, login, explicit)
        /\ carriers = Carriers(cfg)
  OBVIOUS
<1>4. /\ Owned(login.password, login.email) /\ Owned(login.totpCommand, login.email)
      /\ Owned(login.totpSecret, login.email)
  BY <1>2, LoginOwned DEF ConsoleInv
<1>5. password = login.email /\ code \in {Nobody, login.email}
  BY <1>1, <1>2, <1>3, <1>4, ResolvedOwned, CodeOwned
<1>6. PICK new : new = [Resting EXCEPT !.pc = "state", !.login = login, !.password = password,
                          !.recaptcha = recaptcha, !.carriers = carriers, !.code = code]
  OBVIOUS
<1>7. new = [pc |-> "state", login |-> login, code |-> code, password |-> password,
             key |-> Nobody, id |-> Nobody, recaptcha |-> recaptcha, carriers |-> carriers,
             source |-> Nobody]
  BY <1>6 DEF Resting
<1>8. IsSeat(new)
  BY <1>7 DEF IsSeat
<1>9. new.pc = "state" /\ new.password = password /\ new.code = code /\ new.login = login
  BY <1>7
<1>10. SeatSound(new)
  BY <1>5, <1>9 DEF SeatSound
<1>11. Sit(c, new) /\ UNCHANGED <<consoleConfig, kept, mintedFor>>
  BY <1>1, <1>2, <1>3, <1>6 DEF StartLogin
<1> QED
  BY <1>8, <1>10, <1>11, SeatOnly

(* A request begins with a look-up.                                        *)
Looking(login, id, carriers) ==
  [Resting EXCEPT !.pc = "lookup", !.login = login, !.id = id, !.carriers = carriers]

LEMMA LookingSeat ==
  ASSUME NEW login, NEW id, NEW carriers
  PROVE  /\ IsSeat(Looking(login, id, carriers)) /\ Looking(login, id, carriers).pc = "lookup"
         /\ Looking(login, id, carriers).id = id /\ Looking(login, id, carriers).login = login
<1>1. PICK new : new = [Resting EXCEPT !.pc = "lookup", !.login = login, !.id = id,
                                       !.carriers = carriers]
  OBVIOUS
<1>2. new = [pc |-> "lookup", login |-> login, code |-> Nobody, password |-> Nobody,
             key |-> Nobody, id |-> id, recaptcha |-> FALSE, carriers |-> carriers,
             source |-> Nobody]
  BY <1>1 DEF Resting
<1>3. IsSeat(new)
  BY <1>2 DEF IsSeat
<1> QED
  BY <1>1, <1>2, <1>3 DEF Looking

LEMMA StepStartRequest ==
  ASSUME ConsoleInv, NEW c \in Sessioners, StartRequest(c)
  PROVE  ConsoleInv'
<1>1. PICK alias \in Aliases :
        Sit(c, Looking(LoginConfig(consoleConfig, alias),
                       Identity(LoginConfig(consoleConfig, alias)), Carriers(consoleConfig)))
  BY DEF StartRequest, Looking
<1>2. PICK login, id, carriers :
        /\ login = LoginConfig(consoleConfig, alias) /\ id = Identity(login)
        /\ carriers = Carriers(consoleConfig)
  OBVIOUS
<1>3. PICK new : new = Looking(login, id, carriers)
  OBVIOUS
<1>4. IsSeat(new) /\ new.pc = "lookup" /\ new.id = id /\ new.login = login
  BY <1>3, LookingSeat
<1>5. SeatSound(new)
  BY <1>2, <1>4 DEF SeatSound
<1>6. Sit(c, new) /\ UNCHANGED <<consoleConfig, kept, mintedFor>>
  BY <1>1, <1>2, <1>3 DEF StartRequest
<1> QED
  BY <1>4, <1>5, <1>6, SeatOnly

(* A call keeps what it resolved: only its step, its key and where the key *)
(* comes from change.                                                      *)
AtStep(s, pc) == [s EXCEPT !.pc = pc]
Cleared(s) == [s EXCEPT !.pc = "password", !.recaptcha = FALSE]
WithKey(s, key) == [s EXCEPT !.pc = "minted", !.key = key]
Carrying(s, source, key) == [s EXCEPT !.pc = "asked", !.source = source, !.key = key]

LEMMA SeatStep ==
  ASSUME NEW s, IsSeat(s), NEW pc
  PROVE  /\ IsSeat(AtStep(s, pc)) /\ AtStep(s, pc).pc = pc
         /\ AtStep(s, pc).login = s.login
         /\ AtStep(s, pc).code = s.code
         /\ AtStep(s, pc).password = s.password
         /\ AtStep(s, pc).carriers = s.carriers
         /\ AtStep(s, pc).id = s.id
         /\ AtStep(s, pc).key = s.key
<1>1. PICK pc0, login, code, password, key0, id, recaptcha0, carriers, source0 :
        s = [pc |-> pc0, login |-> login, code |-> code, password |-> password, key |-> key0,
             id |-> id, recaptcha |-> recaptcha0, carriers |-> carriers, source |-> source0]
  BY DEF IsSeat
<1>2. PICK new : new = [s EXCEPT !.pc = pc]
  OBVIOUS
<1>3. new = [pc |-> pc, login |-> login, code |-> code, password |-> password, key |-> key0,
             id |-> id, recaptcha |-> recaptcha0, carriers |-> carriers, source |-> source0]
  BY <1>1, <1>2
<1>4. IsSeat(new)
  BY <1>3 DEF IsSeat
<1> QED
  BY <1>1, <1>2, <1>3, <1>4 DEF AtStep

LEMMA SeatCleared ==
  ASSUME NEW s, IsSeat(s)
  PROVE  /\ IsSeat(Cleared(s)) /\ Cleared(s).pc = "password"
         /\ Cleared(s).login = s.login
         /\ Cleared(s).code = s.code
         /\ Cleared(s).password = s.password
         /\ Cleared(s).carriers = s.carriers
<1>1. PICK pc0, login, code, password, key0, id, recaptcha0, carriers, source0 :
        s = [pc |-> pc0, login |-> login, code |-> code, password |-> password, key |-> key0,
             id |-> id, recaptcha |-> recaptcha0, carriers |-> carriers, source |-> source0]
  BY DEF IsSeat
<1>2. PICK new : new = [s EXCEPT !.pc = "password", !.recaptcha = FALSE]
  OBVIOUS
<1>3. new = [pc |-> "password", login |-> login, code |-> code, password |-> password, key |-> key0,
             id |-> id, recaptcha |-> FALSE, carriers |-> carriers, source |-> source0]
  BY <1>1, <1>2
<1>4. IsSeat(new)
  BY <1>3 DEF IsSeat
<1> QED
  BY <1>1, <1>2, <1>3, <1>4 DEF Cleared

LEMMA SeatKey ==
  ASSUME NEW s, IsSeat(s), NEW key
  PROVE  /\ IsSeat(WithKey(s, key)) /\ WithKey(s, key).pc = "minted"
         /\ WithKey(s, key).login = s.login
         /\ WithKey(s, key).key = key
<1>1. PICK pc0, login, code, password, key0, id, recaptcha0, carriers, source0 :
        s = [pc |-> pc0, login |-> login, code |-> code, password |-> password, key |-> key0,
             id |-> id, recaptcha |-> recaptcha0, carriers |-> carriers, source |-> source0]
  BY DEF IsSeat
<1>2. PICK new : new = [s EXCEPT !.pc = "minted", !.key = key]
  OBVIOUS
<1>3. new = [pc |-> "minted", login |-> login, code |-> code, password |-> password, key |-> key,
             id |-> id, recaptcha |-> recaptcha0, carriers |-> carriers, source |-> source0]
  BY <1>1, <1>2
<1>4. IsSeat(new)
  BY <1>3 DEF IsSeat
<1> QED
  BY <1>1, <1>2, <1>3, <1>4 DEF WithKey

LEMMA SeatCarrying ==
  ASSUME NEW s, IsSeat(s), NEW source, NEW key
  PROVE  /\ IsSeat(Carrying(s, source, key)) /\ Carrying(s, source, key).pc = "asked"
         /\ Carrying(s, source, key).login = s.login
         /\ Carrying(s, source, key).id = s.id
         /\ Carrying(s, source, key).key = key
         /\ Carrying(s, source, key).source = source
         /\ Carrying(s, source, key).carriers = s.carriers
<1>1. PICK pc0, login, code, password, key0, id, recaptcha0, carriers, source0 :
        s = [pc |-> pc0, login |-> login, code |-> code, password |-> password, key |-> key0,
             id |-> id, recaptcha |-> recaptcha0, carriers |-> carriers, source |-> source0]
  BY DEF IsSeat
<1>2. PICK new : new = [s EXCEPT !.pc = "asked", !.source = source, !.key = key]
  OBVIOUS
<1>3. new = [pc |-> "asked", login |-> login, code |-> code, password |-> password, key |-> key,
             id |-> id, recaptcha |-> recaptcha0, carriers |-> carriers, source |-> source]
  BY <1>1, <1>2
<1>4. IsSeat(new)
  BY <1>3 DEF IsSeat
<1> QED
  BY <1>1, <1>2, <1>3, <1>4 DEF Carrying

LEMMA StepAuthState ==
  ASSUME ConsoleInv, NEW c \in Sessioners, AuthState(c)
  PROVE  ConsoleInv'
<1>1. IsSeat(seat[c]) /\ SeatSound(seat[c]) /\ seat[c].pc = "state"
      /\ UNCHANGED <<consoleConfig, kept, mintedFor>>
  BY DEF ConsoleInv, AuthState
<1>2. Sit(c, Cleared(seat[c])) \/ Sit(c, Resting)
  BY DEF AuthState, Leave, Cleared
<1>3. CASE Sit(c, Cleared(seat[c]))
  <2>1. PICK new : new = Cleared(seat[c])
    OBVIOUS
  <2>2. /\ IsSeat(new) /\ new.pc = "password" /\ new.login = seat[c].login
        /\ new.code = seat[c].code /\ new.password = seat[c].password
    BY <1>1, <2>1, SeatCleared
  <2>3. SeatSound(new)
    BY <1>1, <2>2 DEF SeatSound
  <2> QED
    BY <1>1, <1>3, <2>1, <2>2, <2>3, SeatOnly
<1>4. CASE Sit(c, Resting)
  BY <1>1, <1>4, RestingSound, SeatOnly
<1> QED
  BY <1>2, <1>3, <1>4

LEMMA CountTo == ASSUME NEW n \in Nat PROVE Cardinality(1..n) = n
<1>1. Cardinality(1..n) = IF 1 > n THEN 0 ELSE n - 1 + 1
  BY FS_Interval
<1> QED
  BY <1>1

(* A key is new, and what was minted before keeps its owner.               *)
LEMMA StepMint ==
  ASSUME ConsoleInv, NEW c \in Sessioners, Mint(c), UNCHANGED <<consoleConfig, kept>>
  PROVE  ConsoleInv'
<1>1. PICK n \in Nat : DOMAIN mintedFor = 1..n
  BY DEF ConsoleInv, MintedInOrder
<1>2. Cardinality(DOMAIN mintedFor) = n
  BY <1>1, CountTo
<1>3. /\ mintedFor' = [k \in 1..n \cup {n + 1} |->
                         IF k = n + 1 THEN Identity(seat[c].login) ELSE mintedFor[k]]
      /\ Sit(c, WithKey(seat[c], n + 1))
  BY <1>1, <1>2 DEF Mint, WithKey
<1>4. DOMAIN mintedFor' = 1..(n + 1)
  BY <1>1, <1>3
<1>5. \A k, id : MintedAs(mintedFor, k, id) => MintedAs(mintedFor', k, id)
  BY <1>1, <1>3 DEF MintedAs
<1>6. MintedAs(mintedFor', n + 1, Identity(seat[c].login))
  BY <1>3 DEF MintedAs
<1>7. PICK new : new = WithKey(seat[c], n + 1)
  OBVIOUS
<1>8. IsSeat(new) /\ new.pc = "minted" /\ new.login = seat[c].login /\ new.key = n + 1
  BY <1>7, SeatKey DEF ConsoleInv
<1>9. SeatSound(new)'
  BY <1>6, <1>8 DEF SeatSound
<1>10. KeptSound'
  BY <1>5 DEF ConsoleInv, KeptSound
<1>11. MintedInOrder'
  BY <1>1, <1>4 DEF MintedInOrder
<1> QED
  BY <1>3, <1>5, <1>7, <1>8, <1>9, <1>10, <1>11, SeatMoves

LEMMA StepPostPassword ==
  ASSUME ConsoleInv, NEW c \in Sessioners, PostPassword(c)
  PROVE  ConsoleInv'
<1>1. /\ IsSeat(seat[c]) /\ SeatSound(seat[c]) /\ seat[c].pc = "password"
      /\ UNCHANGED <<consoleConfig, kept>>
  BY DEF ConsoleInv, PostPassword
<1>2. CASE Mint(c)
  BY <1>1, <1>2, StepMint
<1>3. CASE /\ seat[c].code # Nobody /\ Sit(c, AtStep(seat[c], "code"))
           /\ UNCHANGED mintedFor
  <2>1. PICK new : new = AtStep(seat[c], "code")
    OBVIOUS
  <2>2. /\ IsSeat(new) /\ new.pc = "code" /\ new.login = seat[c].login
        /\ new.code = seat[c].code /\ new.password = seat[c].password
    BY <1>1, <2>1, SeatStep
  <2>3. SeatSound(new)
    BY <1>1, <1>3, <2>2 DEF SeatSound
  <2> QED
    BY <1>1, <1>3, <2>1, <2>2, <2>3, SeatOnly
<1>4. CASE Sit(c, Resting) /\ UNCHANGED mintedFor
  BY <1>1, <1>4, RestingSound, SeatOnly
<1> QED
  BY <1>2, <1>3, <1>4 DEF PostPassword, Leave, AtStep

LEMMA StepPostCode ==
  ASSUME ConsoleInv, NEW c \in Sessioners, PostCode(c)
  PROVE  ConsoleInv'
<1>1. UNCHANGED <<consoleConfig, kept>>
  BY DEF PostCode
<1>2. CASE Mint(c)
  BY <1>1, <1>2, StepMint
<1>3. CASE Sit(c, Resting) /\ UNCHANGED mintedFor
  BY <1>1, <1>3, RestingSound, SeatOnly
<1> QED
  BY <1>2, <1>3 DEF PostCode, Leave

LEMMA StepKeepKey ==
  ASSUME ConsoleInv, NEW c \in Sessioners, KeepKey(c)
  PROVE  ConsoleInv'
<1>1. PICK id : id = Identity(seat[c].login)
  OBVIOUS
<1>2. /\ IsSeat(seat[c]) /\ MintedAs(mintedFor, seat[c].key, id)
      /\ UNCHANGED <<consoleConfig, mintedFor>>
  BY <1>1 DEF ConsoleInv, SeatSound, KeepKey
<1>3. /\ kept' = [i \in DOMAIN kept \cup {id} |-> IF i = id THEN seat[c].key ELSE kept[i]]
      /\ Sit(c, Looking(seat[c].login, id, seat[c].carriers))
  BY <1>1 DEF KeepKey, Looking
<1>4. KeptSound'
  BY <1>2, <1>3 DEF ConsoleInv, KeptSound
<1>5. PICK new : new = Looking(seat[c].login, id, seat[c].carriers)
  OBVIOUS
<1>6. IsSeat(new) /\ new.pc = "lookup" /\ new.login = seat[c].login /\ new.id = id
  BY <1>2, <1>5, LookingSeat
<1>7. SeatSound(new)'
  BY <1>1, <1>6 DEF SeatSound
<1>8. MintedInOrder'
  BY <1>2 DEF ConsoleInv, MintedInOrder
<1> QED
  BY <1>2, <1>3, <1>4, <1>5, <1>6, <1>7, <1>8, SeatMoves

LEMMA StepCarry ==
  ASSUME ConsoleInv, NEW c \in Sessioners, NEW source, NEW key, Carry(c, source, key),
         seat[c].pc = "lookup", UNCHANGED <<consoleConfig, kept, mintedFor>>,
         source = "login" => MintedAs(mintedFor, key, seat[c].id),
         source = "access" => key = seat[c].carriers.access,
         source = "static" => key = seat[c].carriers.static /\ seat[c].carriers.access = Nobody
  PROVE  ConsoleInv'
<1>1. IsSeat(seat[c]) /\ SeatSound(seat[c])
  BY DEF ConsoleInv
<1>2. PICK new : new = Carrying(seat[c], source, key)
  OBVIOUS
<1>3. /\ IsSeat(new) /\ new.pc = "asked" /\ new.login = seat[c].login /\ new.id = seat[c].id
      /\ new.key = key /\ new.source = source /\ new.carriers = seat[c].carriers
  BY <1>1, <1>2, SeatCarrying
<1>4. SeatSound(new)
  BY <1>1, <1>3 DEF SeatSound
<1>5. Sit(c, new)
  BY <1>2 DEF Carry, Carrying
<1> QED
  BY <1>3, <1>4, <1>5, SeatOnly

LEMMA StepLookUp ==
  ASSUME ConsoleInv, NEW c \in Sessioners, LookUp(c)
  PROVE  ConsoleInv'
<1>1. PICK access, static, id : /\ access = seat[c].carriers.access
                                /\ static = seat[c].carriers.static /\ id = seat[c].id
  OBVIOUS
<1>2. seat[c].pc = "lookup" /\ UNCHANGED <<consoleConfig, kept, mintedFor>>
  BY DEF LookUp
<1>3. \/ Carry(c, "access", access)
      \/ Leave(c)
      \/ id \in DOMAIN kept /\ Carry(c, "login", kept[id])
      \/ access = Nobody /\ Carry(c, "static", static)
  BY <1>1 DEF LookUp
<1>4. CASE Carry(c, "access", access)
  BY <1>1, <1>2, <1>4, StepCarry
<1>5. CASE Leave(c)
  BY <1>2, <1>5, RestingSound, SeatOnly DEF Leave
<1>6. CASE id \in DOMAIN kept /\ Carry(c, "login", kept[id])
  <2>1. MintedAs(mintedFor, kept[id], id)
    BY <1>6 DEF ConsoleInv, KeptSound
  <2> QED
    BY <1>1, <1>2, <1>6, <2>1, StepCarry
<1>7. CASE access = Nobody /\ Carry(c, "static", static)
  BY <1>1, <1>2, <1>7, StepCarry
<1> QED
  BY <1>3, <1>4, <1>5, <1>6, <1>7

LEMMA AnswerEvicts ==
  ASSUME NEW c \in Sessioners, Answered(c)
  PROVE  \/ kept' = kept
         \/ /\ seat[c].source = "login" /\ seat[c].key \notin liveKeys
            /\ kept' = [i \in DOMAIN kept \ {seat[c].id} |-> kept[i]]
BY DEF Answered, Evicts

LEMMA StepAnswered ==
  ASSUME ConsoleInv, NEW c \in Sessioners, Answered(c)
  PROVE  ConsoleInv'
<1>1. Sit(c, Resting) /\ UNCHANGED <<consoleConfig, mintedFor>>
  BY DEF Answered, Leave
<1>2. KeptSound'
  <2>1. CASE kept' = kept
    BY <1>1, <2>1 DEF ConsoleInv, KeptSound
  <2>2. CASE kept' = [i \in DOMAIN kept \ {seat[c].id} |-> kept[i]]
    BY <1>1, <2>2 DEF ConsoleInv, KeptSound
  <2> QED
    BY <2>1, <2>2, AnswerEvicts
<1>3. MintedInOrder' /\ SeatSound(Resting)'
  BY <1>1, RestingSound DEF ConsoleInv, MintedInOrder, SeatSound
<1> QED
  BY <1>1, <1>2, <1>3, RestingSound, SeatMoves

LEMMA ConsoleInitial == ConsoleInit => ConsoleInv
<1> SUFFICES ASSUME ConsoleInit PROVE ConsoleInv
  OBVIOUS
<1>1. /\ seat = [c \in Sessioners |-> Resting]
      /\ \A c \in Sessioners : IsSeat(seat[c]) /\ SeatSound(seat[c])
  BY RestingSound DEF ConsoleInit
<1>2. DOMAIN kept = {} /\ DOMAIN mintedFor = 1..0
  BY DEF ConsoleInit
<1>3. seat = [c \in Sessioners |-> seat[c]]
  BY <1>1
<1> QED
  BY <1>1, <1>2, <1>3 DEF ConsoleInit, ConsoleInv, KeptSound, MintedInOrder

LEMMA ConsoleStep == ConsoleInv /\ [ConsoleNext]_consoleVars => ConsoleInv'
<1> SUFFICES ASSUME ConsoleInv, [ConsoleNext]_consoleVars PROVE ConsoleInv'
  OBVIOUS
<1>1. ASSUME UNCHANGED <<kept, mintedFor, seat>>, consoleConfig' \in ConsoleConfigs
      PROVE  ConsoleInv'
  BY <1>1 DEF ConsoleInv, SeatSound, KeptSound, MintedInOrder
<1>2. CASE Expire \/ Reload \/ UNCHANGED consoleVars
  BY <1>1, <1>2 DEF Expire, Reload, consoleVars, ConsoleInv
<1>3. CASE \E c \in Sessioners : \/ StartLogin(c)   \/ AuthState(c) \/ PostPassword(c)
                                 \/ PostCode(c)     \/ KeepKey(c)   \/ StartRequest(c)
                                 \/ LookUp(c)       \/ Answered(c)
  BY <1>3, StepStartLogin, StepAuthState, StepPostPassword, StepPostCode, StepKeepKey,
     StepStartRequest, StepLookUp, StepAnswered
<1> QED
  BY <1>2, <1>3 DEF ConsoleNext

(* The cache side of RightAccount.  A step that files no key, drops none   *)
(* and leaves no call without the key it has just been given.              *)
Filing(k) == \E c \in Sessioners : seat[c].pc = "minted" /\ seat[c].key = k

LEMMA SessionsStay ==
  ASSUME SessionsKept, UNCHANGED <<kept, mintedFor>>, liveKeys' \subseteq liveKeys,
         \A k : Filing(k) => Filing(k)'
  PROVE  SessionsKept'
BY DEF SessionsKept, Filing

LEMMA FilingStays ==
  ASSUME ConsoleInv, NEW c \in Sessioners, seat[c].pc # "minted", NEW new, Sit(c, new)
  PROVE  \A k : Filing(k) => Filing(k)'
<1>1. \A x \in Sessioners : x # c => seat'[x] = seat[x]
  BY DEF ConsoleInv, Sit
<1> QED
  BY <1>1 DEF Filing

LEMMA MintKeeps ==
  ASSUME ConsoleInv, SessionsKept, NEW c \in Sessioners, seat[c].pc # "minted", Mint(c),
         UNCHANGED kept
  PROVE  SessionsKept'
<1>1. PICK n \in Nat : DOMAIN mintedFor = 1..n
  BY DEF ConsoleInv, MintedInOrder
<1>2. Cardinality(DOMAIN mintedFor) = n
  BY <1>1, CountTo
<1>3. /\ mintedFor' = [k \in 1..n \cup {n + 1} |->
                         IF k = n + 1 THEN Identity(seat[c].login) ELSE mintedFor[k]]
      /\ liveKeys' = liveKeys \cup {n + 1}
      /\ Sit(c, WithKey(seat[c], n + 1))
  BY <1>1, <1>2 DEF Mint, WithKey
<1>4. Filing(n + 1)'
  <2>1. PICK new : new = WithKey(seat[c], n + 1)
    OBVIOUS
  <2>2. new.pc = "minted" /\ new.key = n + 1
    BY <2>1, SeatKey DEF ConsoleInv
  <2>3. seat'[c] = new
    BY <1>3, <2>1 DEF ConsoleInv, Sit
  <2> QED
    BY <2>2, <2>3 DEF Filing
<1>5. \A k : Filing(k) => Filing(k)'
  BY <1>3, FilingStays
<1>6. n + 1 \notin 1..n /\ \A k \in 1..n : mintedFor'[k] = mintedFor[k]
  BY <1>3
<1> SUFFICES ASSUME NEW k \in DOMAIN mintedFor'
             PROVE  \/ mintedFor'[k] \in DOMAIN kept
                    \/ Filing(k)'
                    \/ \E dead \in DOMAIN mintedFor' \ liveKeys' : mintedFor'[dead] = mintedFor'[k]
  BY DEF SessionsKept, Filing
<1>7. CASE k = n + 1
  BY <1>4, <1>7
<1>8. CASE k # n + 1
  <2>1. k \in 1..n
    BY <1>3, <1>8
  <2>2. \/ mintedFor[k] \in DOMAIN kept
        \/ Filing(k)
        \/ \E dead \in 1..n \ liveKeys : mintedFor[dead] = mintedFor[k]
    BY <1>1, <2>1 DEF SessionsKept, Filing
  <2>3. ASSUME NEW dead \in 1..n \ liveKeys, mintedFor[dead] = mintedFor[k]
        PROVE  dead \in DOMAIN mintedFor' \ liveKeys' /\ mintedFor'[dead] = mintedFor'[k]
    BY <1>3, <1>6, <2>1, <2>3
  <2> QED
    BY <1>5, <1>6, <2>1, <2>2, <2>3
<1> QED
  BY <1>7, <1>8

LEMMA KeepKeyKeeps ==
  ASSUME ConsoleInv, SessionsKept, NEW c \in Sessioners, KeepKey(c)
  PROVE  SessionsKept'
<1>1. PICK id : id = Identity(seat[c].login)
  OBVIOUS
<1>2. /\ DOMAIN kept' = DOMAIN kept \cup {id} /\ UNCHANGED <<mintedFor, liveKeys>>
      /\ MintedAs(mintedFor, seat[c].key, id)
  BY <1>1 DEF KeepKey, ConsoleInv, SeatSound
<1>3. \A x \in Sessioners : x # c => seat'[x] = seat[x]
  BY DEF ConsoleInv, KeepKey, Sit
<1>4. \A k \in DOMAIN mintedFor : Filing(k) => Filing(k)' \/ mintedFor[k] = id
  BY <1>2, <1>3 DEF Filing, MintedAs
<1> QED
  BY <1>2, <1>4 DEF SessionsKept, Filing

LEMMA AnsweredKeeps ==
  ASSUME ConsoleInv, SessionsKept, NEW c \in Sessioners, Answered(c)
  PROVE  SessionsKept'
<1>1. /\ seat[c].pc = "asked" /\ UNCHANGED <<mintedFor, liveKeys>> /\ Sit(c, Resting)
  BY DEF Answered, Leave
<1>2. \A k : Filing(k) => Filing(k)'
  BY <1>1, FilingStays
<1>3. CASE kept' = kept
  BY <1>1, <1>2, <1>3, SessionsStay
<1>4. CASE /\ seat[c].source = "login" /\ seat[c].key \notin liveKeys
           /\ kept' = [i \in DOMAIN kept \ {seat[c].id} |-> kept[i]]
  <2>1. MintedAs(mintedFor, seat[c].key, seat[c].id)
    BY <1>1, <1>4 DEF ConsoleInv, SeatSound
  <2>2. seat[c].key \in DOMAIN mintedFor \ liveKeys /\ mintedFor[seat[c].key] = seat[c].id
    BY <1>4, <2>1 DEF MintedAs
  <2>3. DOMAIN kept' = DOMAIN kept \ {seat[c].id}
    BY <1>4
  <2> QED
    BY <1>1, <1>2, <2>2, <2>3 DEF SessionsKept, Filing
<1> QED
  BY <1>3, <1>4, AnswerEvicts

LEMMA SessionsStep ==
  ConsoleInv /\ SessionsKept /\ [ConsoleNext]_consoleVars => SessionsKept'
<1> SUFFICES ASSUME ConsoleInv, SessionsKept, [ConsoleNext]_consoleVars PROVE SessionsKept'
  OBVIOUS
<1>1. ASSUME NEW c \in Sessioners, NEW new, Sit(c, new), seat[c].pc # "minted",
             UNCHANGED <<kept, mintedFor, liveKeys>>
      PROVE  SessionsKept'
  <2>1. \A k : Filing(k) => Filing(k)'
    BY <1>1, FilingStays
  <2> QED
    BY <1>1, <2>1, SessionsStay
<1>2. ASSUME NEW c \in Sessioners, StartLogin(c) PROVE SessionsKept'
  <2>1. PICK new : Sit(c, new)
    BY <1>2 DEF StartLogin
  <2> QED
    BY <1>1, <1>2, <2>1 DEF StartLogin
<1>3. ASSUME NEW c \in Sessioners, AuthState(c) PROVE SessionsKept'
  <2>1. PICK new : Sit(c, new)
    BY <1>3 DEF AuthState, Leave
  <2> QED
    BY <1>1, <1>3, <2>1 DEF AuthState
<1>4. ASSUME NEW c \in Sessioners, PostPassword(c) \/ PostCode(c) PROVE SessionsKept'
  <2>1. CASE Mint(c)
    BY <1>4, <2>1, MintKeeps DEF PostPassword, PostCode
  <2>2. CASE ~Mint(c)
    <3>1. /\ UNCHANGED <<kept, mintedFor, liveKeys>> /\ seat[c].pc # "minted"
          /\ Sit(c, AtStep(seat[c], "code")) \/ Sit(c, Resting)
      BY <1>4, <2>2 DEF PostPassword, PostCode, Leave, AtStep
    <3> QED
      BY <1>1, <3>1
  <2> QED
    BY <2>1, <2>2
<1>5. ASSUME NEW c \in Sessioners, StartRequest(c) PROVE SessionsKept'
  <2>1. PICK new : Sit(c, new)
    BY <1>5 DEF StartRequest
  <2> QED
    BY <1>1, <1>5, <2>1 DEF StartRequest
<1>6. ASSUME NEW c \in Sessioners, LookUp(c) PROVE SessionsKept'
  <2>1. PICK new : Sit(c, new)
    BY <1>6 DEF LookUp, Carry, Leave
  <2> QED
    BY <1>1, <1>6, <2>1 DEF LookUp
<1>7. CASE Expire \/ Reload \/ UNCHANGED consoleVars
  <2>1. UNCHANGED <<kept, mintedFor, seat>> /\ liveKeys' \subseteq liveKeys
    BY <1>7 DEF Expire, Reload, consoleVars
  <2>2. \A k : Filing(k) => Filing(k)'
    BY <2>1 DEF Filing
  <2> QED
    BY <2>1, <2>2, SessionsStay
<1> QED
  BY <1>2, <1>3, <1>4, <1>5, <1>6, <1>7, KeepKeyKeeps, AnsweredKeeps DEF ConsoleNext

(* In every configuration and every interleaving of logins, requests,      *)
(* reloads and expiries, RightAccount holds: a password or a one-time code *)
(* is sent only for the account it belongs to, a request carries a minted  *)
(* key only of its own server and account and otherwise a static carrier   *)
(* of its configuration, and only the end of a session of its own evicts   *)
(* one (login_config, resolve_auth, SessionCache).                         *)
THEOREM RightAccounts == ConsoleSpec => []RightAccount
<1>1. ConsoleInv /\ SessionsKept => RightAccount
  BY DEF ConsoleInv, SeatSound, RightAccount, OwnSecrets, OwnSession, MintedAs
<1>2. ConsoleInit => SessionsKept
  BY DEF ConsoleInit, SessionsKept
<1> QED
  BY <1>1, <1>2, ConsoleInitial, ConsoleStep, SessionsStep, PTL DEF ConsoleSpec

-----------------------------------------------------------------------------
(* Migrate.  The file is the one of the beginning or the one of a finished *)
(* run, and nothing in between; a slot holds what it held or a secret that *)
(* the file has for it.  That the second is harmless rests on the conflict *)
(* check: all the secrets the file has for one slot are the same.          *)

IsPlain(texts, s) == ToWrite(s, texts[s])
FiledText(texts, s) == PlanText(s, texts[s])

NoConflictIn(texts) ==
    \A s, t \in SiteSet :
        IsPlain(texts, s) /\ IsPlain(texts, t) /\ SlotOf[s] = SlotOf[t]
          => FiledText(texts, s) = FiledText(texts, t)

Held == Values \cup Texts \cup {Absent}
Entries == [slot : Slots, prior : Held]

MigrateTypes ==
    /\ configs \in [SiteSet -> Texts \cup {Absent}]
    /\ DOMAIN chain = Slots
    /\ before = [file |-> before.file, chain |-> before.chain, forced |-> before.forced]
    /\ before.file \in [SiteSet -> Texts \cup {Absent}]
    /\ DOMAIN before.chain = Slots
    /\ before.forced \in BOOLEAN
    /\ mig = [pc |-> mig.pc, through |-> mig.through, force |-> mig.force,
              applied |-> mig.applied, rewrite |-> mig.rewrite]
    /\ mig.force \in BOOLEAN
    /\ mig.applied \in Seq(Entries)
    /\ \A k \in Slots : chain[k] \in Held

\* Every secret of the first file is in its slot, and the file says so.
Migrated ==
    /\ NoConflictIn(before.file)
    /\ \A s \in SiteSet : configs[s] = IF IsPlain(before.file, s) THEN Sentinel ELSE before.file[s]
    /\ \A s \in SiteSet : IsPlain(before.file, s) => chain[SlotOf[s]] = FiledText(before.file, s)
    /\ mig.pc \in {"slot", "undo"} => mig.applied = << >>

FileSound == configs = before.file \/ Migrated

ChainSound == \A k \in Slots : MayHold(chain[k], k)

\* What a run has written so far could be put back.
RollbackReady ==
    mig.pc \in {"slot", "undo"} =>
        \A i \in DOMAIN mig.applied : MayHold(mig.applied[i].prior, mig.applied[i].slot)

\* What a run in progress has done so far.
RunSound ==
    mig.pc = "slot" =>
        /\ mig.force => before.forced
        /\ NoConflictIn(configs)
        /\ mig.through \subseteq DOMAIN Sites
        /\ \A i \in mig.through :
             IsPlain(configs, Sites[i]) => /\ Sites[i] \in mig.rewrite
                                           /\ chain[SlotOf[Sites[i]]] = FiledText(configs, Sites[i])
        /\ \A s \in mig.rewrite : IsPlain(configs, s)

MigrateInv == MigrateTypes /\ FileSound /\ ChainSound /\ RollbackReady /\ RunSound

LEMMA NothingApplied == << >> \in Seq(Entries)
  OBVIOUS

LEMMA PlanTexts ==
  /\ \A s \in SiteSet, text \in Texts \cup {Absent} : PlanText(s, text) \in Texts \cup {Absent}
  /\ Sentinel \in Texts /\ Sentinel # Absent
  /\ \A s \in SiteSet : PlanText(s, Sentinel) = Sentinel /\ ~ToWrite(s, Sentinel)
  BY MigrateConstants DEF PlanText, ToWrite

LEMMA MigrateInitial == MigrateInit => MigrateInv
<1> SUFFICES ASSUME MigrateInit PROVE MigrateInv
  OBVIOUS
<1>1. /\ before.file = configs /\ before.chain = chain /\ before.forced = FALSE
      /\ before = [file |-> before.file, chain |-> before.chain, forced |-> before.forced]
  BY DEF MigrateInit
<1>2. /\ mig.pc = "idle" /\ mig.force = FALSE /\ mig.applied = << >>
      /\ mig = [pc |-> mig.pc, through |-> mig.through, force |-> mig.force,
              applied |-> mig.applied, rewrite |-> mig.rewrite]
  BY DEF MigrateInit, NotRunning
<1>3. MigrateTypes
  <2>1. \A k \in Slots : chain[k] \in Held
    BY DEF MigrateInit, Held
  <2>2. configs \in [SiteSet -> Texts \cup {Absent}] /\ DOMAIN chain = Slots
    BY DEF MigrateInit
  <2> QED
    BY <1>1, <1>2, <2>1, <2>2, NothingApplied DEF MigrateTypes
<1> QED
  BY <1>1, <1>2, <1>3 DEF MigrateInv, FileSound, ChainSound, RollbackReady, RunSound, MayHold

LEMMA SlotsOfSites ==
  /\ \A i \in DOMAIN Sites : Sites[i] \in SiteSet
  /\ \A s \in SiteSet : SlotOf[s] \in Slots
  /\ \A s \in SiteSet : \E i \in DOMAIN Sites : s = Sites[i]
  BY DEF SiteSet, Slots

\* A run that leaves file and keychain alone, and does not go on writing.
LEMMA StopSound ==
  ASSUME MigrateInv, UNCHANGED <<configs, chain, before>>,
         mig'.pc # "slot", mig'.pc = "undo" => mig.pc \in {"slot", "undo"},
         mig'.force \in BOOLEAN,
         mig'.applied = mig.applied \/ mig'.applied = << >>,
         mig' = [pc |-> mig'.pc, through |-> mig'.through, force |-> mig'.force,
                 applied |-> mig'.applied, rewrite |-> mig'.rewrite]
  PROVE  MigrateInv'
<1>1. MigrateTypes'
  BY NothingApplied DEF MigrateInv, MigrateTypes
<1>2. FileSound'
  BY DEF MigrateInv, FileSound, Migrated, FiledText, IsPlain, NoConflictIn
<1>3. ChainSound' /\ RunSound'
  BY DEF MigrateInv, ChainSound, RunSound, MayHold
<1>4. RollbackReady'
  BY DEF MigrateInv, RollbackReady, MayHold
<1> QED
  BY <1>1, <1>2, <1>3, <1>4 DEF MigrateInv

\* Giving a run up before its first file is replaced, with a sound keychain.
LEMMA UndoSound ==
  ASSUME MigrateInv, mig.pc = "slot", Undo, UNCHANGED <<configs, before>>,
         DOMAIN chain' = Slots,
         \A k \in Slots : MayHold(chain'[k], k) /\ chain'[k] \in Held,
         configs = before.file \/ chain' = chain
  PROVE  MigrateInv'
<1>1. /\ mig'.pc = "undo" /\ mig'.force = mig.force /\ mig'.applied = mig.applied
      /\ mig' = [pc |-> mig'.pc, through |-> mig'.through, force |-> mig'.force,
              applied |-> mig'.applied, rewrite |-> mig'.rewrite]
  BY DEF Undo, MigrateInv, MigrateTypes
<1>2. CASE chain' = chain
  BY <1>1, <1>2, StopSound DEF MigrateInv, MigrateTypes
<1>3. CASE configs = before.file
  <2>1. MigrateTypes'
    BY <1>1 DEF MigrateInv, MigrateTypes
  <2>2. FileSound'
    BY <1>3 DEF FileSound
  <2>3. ChainSound' /\ RunSound'
    BY <1>1 DEF ChainSound, RunSound, MayHold
  <2>4. RollbackReady'
    BY <1>1 DEF MigrateInv, RollbackReady, MayHold
  <2> QED
    BY <2>1, <2>2, <2>3, <2>4 DEF MigrateInv
<1> QED
  BY <1>2, <1>3

LEMMA SlotsSound ==
  ASSUME MigrateInv
  PROVE  DOMAIN chain = Slots /\ \A k \in Slots : MayHold(chain[k], k) /\ chain[k] \in Held
  BY DEF MigrateInv, MigrateTypes, ChainSound

\* One entry of the rollback put back, or passed over.
LEMMA StepRestore == ASSUME MigrateInv, Restore PROVE MigrateInv'
<1> DEFINE ln == Len(mig.applied)
           tip == mig.applied[ln]
<1>1. /\ mig.pc = "undo" /\ mig.applied # << >>
      /\ mig' = [mig EXCEPT !.applied = Front(mig.applied)]
      /\ UNCHANGED <<configs, before>>
      /\ chain' = [chain EXCEPT ![tip.slot] = tip.prior] \/ chain' = chain
  BY DEF Restore
<1>2. mig.applied \in Seq(Entries)
  BY DEF MigrateInv, MigrateTypes
<1>3. ln \in DOMAIN mig.applied /\ tip \in Entries /\ MayHold(tip.prior, tip.slot)
  <2>1. ln \in DOMAIN mig.applied /\ tip \in Entries
    BY <1>1, <1>2
  <2> HIDE DEF ln
  <2> QED
    BY <1>1, <2>1 DEF MigrateInv, RollbackReady
<1>4. PICK f \in Seq(Entries) :
        /\ f = Front(mig.applied) /\ DOMAIN f \subseteq DOMAIN mig.applied
        /\ \A j \in DOMAIN f : f[j] = mig.applied[j]
  <2>1. 1 \in Int /\ ln - 1 \in Int /\ 1 >= 1 /\ ln - 1 <= ln /\ ln \in Nat \ {0} /\ DOMAIN mig.applied = 1..ln
    BY <1>1, <1>2
  <2> DEFINE fr == SubSeq(mig.applied, 1, ln - 1)
  <2>2. fr \in Seq(Entries) /\ Len(fr) = ln - 1 /\ \A j \in 1..(ln - 1) : fr[j] = mig.applied[j]
    BY <1>2, <2>1, SubSeqProperties
  <2>3. fr = Front(mig.applied)
    BY DEF Front
  <2> HIDE DEF fr, ln
  <2>4. DOMAIN fr = 1..(ln - 1) /\ 1..(ln - 1) \subseteq 1..ln
    BY <2>1, <2>2
  <2> QED
    BY <2>1, <2>2, <2>3, <2>4
<1>5. /\ mig'.pc = "undo" /\ mig'.force = mig.force /\ mig'.applied = f
      /\ mig' = [pc |-> mig'.pc, through |-> mig'.through, force |-> mig'.force,
              applied |-> mig'.applied, rewrite |-> mig'.rewrite]
  BY <1>1, <1>4 DEF MigrateInv, MigrateTypes
<1>6. configs = before.file
  BY <1>1 DEF MigrateInv, FileSound, Migrated
<1> HIDE DEF tip, ln
<1>7. tip.slot \in Slots /\ tip.prior \in Held
  BY <1>3 DEF Entries
<1>8. PICK k0 \in Slots : k0 = tip.slot
  BY <1>7
<1>9. DOMAIN chain' = Slots /\ \A k \in Slots : MayHold(chain'[k], k) /\ chain'[k] \in Held
  <2>1. CASE chain' = chain
    BY <2>1, SlotsSound
  <2>2. CASE chain' = [chain EXCEPT ![k0] = tip.prior]
    <3>1. DOMAIN chain' = Slots /\ chain'[k0] = tip.prior /\ \A k \in Slots : k # k0 => chain'[k] = chain[k]
      BY <2>2, SlotsSound
    <3>2. MayHold(chain'[k0], k0) /\ chain'[k0] \in Held
      BY <1>3, <1>7, <1>8, <3>1, Zenon
    <3>3. ASSUME NEW k \in Slots, k # k0 PROVE MayHold(chain'[k], k) /\ chain'[k] \in Held
      BY <3>1, <3>3, SlotsSound, Zenon
    <3> QED
      BY <3>1, <3>2, <3>3
  <2> QED
    BY <1>1, <1>8, <2>1, <2>2
<1>10. MigrateTypes'
  BY <1>1, <1>5, <1>9 DEF MigrateInv, MigrateTypes
<1>11. FileSound'
  BY <1>1, <1>6 DEF FileSound
<1>12. ChainSound' /\ RunSound'
  BY <1>1, <1>5, <1>9 DEF ChainSound, RunSound, MayHold
<1>13. RollbackReady'
  BY <1>1, <1>4, <1>5 DEF MigrateInv, RollbackReady, MayHold
<1> QED
  BY <1>10, <1>11, <1>12, <1>13 DEF MigrateInv

LEMMA StepUndone == ASSUME MigrateInv, Undone PROVE MigrateInv'
<1>1. mig' = [mig EXCEPT !.pc = "failed"] /\ UNCHANGED <<configs, chain, before>>
  BY DEF Undone
<1>2. /\ mig'.pc = "failed" /\ mig'.force = mig.force /\ mig'.applied = mig.applied
      /\ mig' = [pc |-> mig'.pc, through |-> mig'.through, force |-> mig'.force,
                 applied |-> mig'.applied, rewrite |-> mig'.rewrite]
  BY <1>1 DEF MigrateInv, MigrateTypes
<1>3. mig.force \in BOOLEAN
  BY DEF MigrateInv, MigrateTypes
<1> QED
  BY <1>1, <1>2, <1>3, StopSound

LEMMA StepPreReadFails ==
  ASSUME MigrateInv, NEW i \in DOMAIN Sites, PreReadFails(i)
  PROVE  MigrateInv'
<1>1. mig' = [mig EXCEPT !.pc = "failed"] /\ UNCHANGED <<configs, chain, before>>
  BY DEF PreReadFails
<1>2. /\ mig'.pc = "failed" /\ mig'.force = mig.force /\ mig'.applied = mig.applied
      /\ mig' = [pc |-> mig'.pc, through |-> mig'.through, force |-> mig'.force,
                 applied |-> mig'.applied, rewrite |-> mig'.rewrite]
  BY <1>1 DEF MigrateInv, MigrateTypes
<1>3. mig.force \in BOOLEAN
  BY DEF MigrateInv, MigrateTypes
<1> QED
  BY <1>1, <1>2, <1>3, StopSound

LEMMA StepKill == ASSUME MigrateInv, Kill PROVE MigrateInv'
<1>1. mig' = [mig EXCEPT !.pc = "killed"] /\ UNCHANGED <<configs, chain, before>>
  BY DEF Kill
<1>2. /\ mig'.pc = "killed" /\ mig'.force = mig.force /\ mig'.applied = mig.applied
      /\ mig' = [pc |-> mig'.pc, through |-> mig'.through, force |-> mig'.force,
                 applied |-> mig'.applied, rewrite |-> mig'.rewrite]
  BY <1>1 DEF MigrateInv, MigrateTypes
<1>3. mig.force \in BOOLEAN
  BY DEF MigrateInv, MigrateTypes
<1> QED
  BY <1>1, <1>2, <1>3, StopSound

LEMMA StepAgain == ASSUME MigrateInv, Again PROVE MigrateInv'
<1>1. mig' = NotRunning /\ UNCHANGED <<configs, chain, before>>
  BY DEF Again
<1>2. /\ mig'.pc = "idle" /\ mig'.force = FALSE /\ mig'.applied = << >>
      /\ mig' = [pc |-> mig'.pc, through |-> mig'.through, force |-> mig'.force,
                 applied |-> mig'.applied, rewrite |-> mig'.rewrite]
  BY <1>1 DEF NotRunning
<1> QED
  BY <1>1, <1>2, StopSound

LEMMA StepBegin ==
  ASSUME MigrateInv, NEW f \in BOOLEAN, Begin(f)
  PROVE  MigrateInv'
<1> USE DEF MigrateInv
<1>1. /\ UNCHANGED <<configs, chain>>
      /\ before' = [before EXCEPT !.forced = @ \/ f]
      /\ mig' = [NotRunning EXCEPT !.force = f,
                         !.pc = IF PrincipalConflict THEN "failed" ELSE "slot"]
  BY DEF Begin
<1>2. /\ before'.file = before.file /\ before'.chain = before.chain
      /\ before'.forced = (before.forced \/ f)
      /\ before' = [file |-> before'.file, chain |-> before'.chain, forced |-> before'.forced]
  BY <1>1 DEF MigrateTypes
<1>3. /\ mig'.pc = IF PrincipalConflict THEN "failed" ELSE "slot"
      /\ mig'.through = {} /\ mig'.force = f /\ mig'.applied = << >> /\ mig'.rewrite = {}
      /\ mig' = [pc |-> mig'.pc, through |-> mig'.through, force |-> mig'.force,
                 applied |-> mig'.applied, rewrite |-> mig'.rewrite]
  BY <1>1 DEF NotRunning
<1>4. before'.forced \in BOOLEAN /\ (before.forced => before'.forced) /\ (f => before'.forced)
  BY <1>2 DEF MigrateTypes
<1>5. MigrateTypes'
  BY <1>1, <1>2, <1>3, <1>4, NothingApplied DEF MigrateTypes
<1>6. FileSound'
  BY <1>1, <1>2, <1>3 DEF FileSound, Migrated, NoConflictIn, IsPlain, FiledText
<1>7. ChainSound' /\ RollbackReady'
  BY <1>1, <1>2, <1>3, <1>4 DEF ChainSound, RollbackReady, MayHold
<1>8. mig'.pc = "slot" => NoConflictIn(configs)
  BY <1>3 DEF PrincipalConflict, NoConflictIn, IsPlain, Writes, FiledText, Filed
<1>9. RunSound'
  BY <1>1, <1>2, <1>3, <1>4, <1>8 DEF RunSound, NoConflictIn, IsPlain, FiledText
<1> QED
  BY <1>5, <1>6, <1>7, <1>9

\* The site at hand in a run.
LEMMA SiteAtHand ==
  ASSUME MigrateInv, NEW i \in DOMAIN Sites, AtSlot(i)
  PROVE  /\ mig.pc = "slot"
         /\ Sites[i] \in SiteSet /\ SlotOf[Sites[i]] \in Slots
         /\ Writes(Sites[i]) => /\ IsPlain(configs, Sites[i])
                                /\ configs = before.file
                                /\ Filed(Sites[i]) = FiledText(configs, Sites[i])
                                /\ Filed(Sites[i]) \in Held
         /\ ~Writes(Sites[i]) => ~IsPlain(configs, Sites[i])
<1>1. Sites[i] \in SiteSet /\ SlotOf[Sites[i]] \in Slots
  BY SlotsOfSites
<1>2. ASSUME Writes(Sites[i]) PROVE configs = before.file
  <2>1. CASE Migrated
    <3>1. configs[Sites[i]] = Sentinel \/ ~ToWrite(Sites[i], configs[Sites[i]])
      BY <1>1, <2>1 DEF Migrated, IsPlain
    <3> QED
      BY <1>1, <1>2, <3>1, PlanTexts DEF Writes
  <2> QED
    BY <2>1 DEF MigrateInv, FileSound
<1>3. configs[Sites[i]] \in Texts \cup {Absent}
  BY <1>1 DEF MigrateInv, MigrateTypes
<1>4. Filed(Sites[i]) \in Held
  BY <1>1, <1>3, PlanTexts DEF Filed, Held
<1> QED
  BY <1>1, <1>2, <1>4 DEF AtSlot, Writes, IsPlain, Filed, FiledText

LEMMA StepVerifySentinel ==
  ASSUME MigrateInv, NEW i \in DOMAIN Sites, VerifySentinel(i)
  PROVE  MigrateInv'
<1>1. /\ AtSlot(i) /\ ~Writes(Sites[i]) /\ UNCHANGED <<configs, chain, before>>
      /\ Undo \/ mig' = Advance(i, {})
  BY DEF VerifySentinel, ToVerify, Writes, ToWrite
<1>2. mig.pc = "slot" /\ ~IsPlain(configs, Sites[i])
  BY <1>1, SiteAtHand
<1>3. CASE Undo
  BY <1>1, <1>2, <1>3, SlotsSound, UndoSound
<1>4. CASE mig' = Advance(i, {})
  <2>1. /\ mig'.pc = mig.pc /\ mig'.through = mig.through \cup {i} /\ mig'.force = mig.force
        /\ mig'.applied = mig.applied /\ mig'.rewrite = mig.rewrite
        /\ mig' = [pc |-> mig'.pc, through |-> mig'.through, force |-> mig'.force,
                   applied |-> mig'.applied, rewrite |-> mig'.rewrite]
    BY <1>4 DEF Advance, MigrateInv, MigrateTypes
  <2>2. MigrateTypes'
    BY <1>1, <2>1 DEF MigrateInv, MigrateTypes
  <2>3. FileSound' /\ ChainSound' /\ RollbackReady'
    BY <1>1, <2>1 DEF MigrateInv, FileSound, ChainSound, RollbackReady, Migrated, MayHold,
                      IsPlain, NoConflictIn, FiledText
  <2>4. RunSound'
    BY <1>1, <1>2, <2>1 DEF MigrateInv, RunSound, IsPlain, NoConflictIn, FiledText
  <2> QED
    BY <2>2, <2>3, <2>4 DEF MigrateInv
<1> QED
  BY <1>1, <1>3, <1>4

LEMMA StepInSync ==
  ASSUME MigrateInv, NEW i \in DOMAIN Sites, InSync(i)
  PROVE  MigrateInv'
<1>1. AtSlot(i) /\ Writes(Sites[i]) /\ UNCHANGED <<configs, chain, before>>
  BY DEF InSync
<1>2. mig.pc = "slot" /\ IsPlain(configs, Sites[i]) /\ chain[SlotOf[Sites[i]]] = FiledText(configs, Sites[i])
  BY <1>1, SiteAtHand DEF InSync, Prior
<1>3. /\ mig'.pc = mig.pc /\ mig'.through = mig.through \cup {i} /\ mig'.force = mig.force
      /\ mig'.applied = mig.applied /\ mig'.rewrite = mig.rewrite \cup {Sites[i]}
      /\ mig' = [pc |-> mig'.pc, through |-> mig'.through, force |-> mig'.force,
                 applied |-> mig'.applied, rewrite |-> mig'.rewrite]
  BY DEF InSync, Advance, MigrateInv, MigrateTypes
<1>4. MigrateTypes'
  BY <1>1, <1>3 DEF MigrateInv, MigrateTypes
<1>5. FileSound' /\ ChainSound' /\ RollbackReady'
  BY <1>1, <1>3 DEF MigrateInv, FileSound, ChainSound, RollbackReady, Migrated, MayHold,
                    IsPlain, NoConflictIn, FiledText
<1>6. RunSound'
  BY <1>1, <1>2, <1>3 DEF MigrateInv, RunSound, IsPlain, NoConflictIn, FiledText
<1> QED
  BY <1>4, <1>5, <1>6 DEF MigrateInv

LEMMA StepClash ==
  ASSUME MigrateInv, NEW i \in DOMAIN Sites, Clash(i)
  PROVE  MigrateInv'
  BY SlotsSound, SiteAtHand, UndoSound DEF Clash

\* The keychain after a write is one the slots may hold.
LEMMA WriteSound ==
  ASSUME MigrateInv, NEW i \in DOMAIN Sites, AtSlot(i), Writes(Sites[i]), MayOverwrite(Sites[i])
  PROVE  /\ configs = before.file
         /\ DOMAIN Written(Sites[i]) = Slots
         /\ \A k \in Slots : /\ MayHold(Written(Sites[i])[k], k)
                             /\ Written(Sites[i])[k] \in Held
<1> DEFINE s == Sites[i]
           w == Written(s)
<1>1. /\ mig.pc = "slot" /\ s \in SiteSet /\ SlotOf[s] \in Slots /\ IsPlain(configs, s)
      /\ configs = before.file /\ Filed(s) = FiledText(configs, s) /\ Filed(s) \in Held
  BY SiteAtHand
<1>2. DOMAIN chain = Slots /\ \A k \in Slots : MayHold(chain[k], k) /\ chain[k] \in Held
  BY DEF MigrateInv, MigrateTypes, ChainSound
<1>3. /\ DOMAIN w = Slots /\ w[SlotOf[s]] = Filed(s)
      /\ \A k \in Slots : k # SlotOf[s] => w[k] = chain[k]
  BY <1>1, <1>2 DEF Written
<1>4. MayHold(Filed(s), SlotOf[s])
  <2>1. CASE mig.force
    BY <1>1, <2>1 DEF MigrateInv, RunSound, MayHold, IsPlain, FiledText
  <2>2. CASE chain[SlotOf[s]] = Absent
    <3>1. before.chain[SlotOf[s]] = Absent \/ before.forced
      BY <1>1, <1>2, <2>2 DEF MayHold, ToWrite
    <3> QED
      BY <1>1, <3>1 DEF MayHold, IsPlain, FiledText
  <2> QED
    BY <2>1, <2>2 DEF MayOverwrite, Prior
<1> HIDE DEF s, w
<1>5. \A k \in Slots : MayHold(w[k], k) /\ w[k] \in Held
  <2> SUFFICES ASSUME NEW k \in Slots
               PROVE  MayHold(w[k], k) /\ w[k] \in Held
    OBVIOUS
  <2>1. CASE k = SlotOf[s]
    BY <1>1, <1>3, <1>4, <2>1
  <2>2. CASE k # SlotOf[s]
    BY <1>2, <1>3, <2>2
  <2> QED
    BY <2>1, <2>2
<1> QED
  BY <1>1, <1>3, <1>5 DEF s, w

LEMMA StepStoreSecret ==
  ASSUME MigrateInv, NEW i \in DOMAIN Sites, StoreSecret(i)
  PROVE  MigrateInv'
<1> DEFINE s == Sites[i]
<1>1. /\ AtSlot(i) /\ Writes(s) /\ MayOverwrite(s) /\ UNCHANGED <<configs, before>>
      /\ \/ /\ chain' = Written(s)
            /\ mig' = [Advance(i, {s}) EXCEPT !.applied =
                         Append(@, Applied(SlotOf[s], Prior(s)))]
         \/ Undo /\ chain' \in {chain, Written(s)}
  BY DEF StoreSecret
<1>2. /\ mig.pc = "slot" /\ s \in SiteSet /\ SlotOf[s] \in Slots /\ IsPlain(configs, s)
      /\ configs = before.file /\ Filed(s) = FiledText(configs, s)
  BY <1>1, SiteAtHand
<1>3. DOMAIN chain = Slots /\ \A k \in Slots : MayHold(chain[k], k) /\ chain[k] \in Held
  BY DEF MigrateInv, MigrateTypes, ChainSound
<1>4. /\ DOMAIN Written(s) = Slots
      /\ \A k \in Slots : MayHold(Written(s)[k], k) /\ Written(s)[k] \in Held
  BY <1>1, WriteSound
<1>5. CASE Undo /\ chain' = chain
  BY <1>1, <1>2, <1>3, <1>5, UndoSound
<1>6. CASE Undo /\ chain' = Written(s)
  BY <1>1, <1>2, <1>4, <1>6, UndoSound
<1>7. CASE /\ chain' = Written(s)
           /\ mig' = [Advance(i, {s}) EXCEPT !.applied = Append(@, Applied(SlotOf[s], Prior(s)))]
  <2> DEFINE e == [slot |-> SlotOf[s], prior |-> chain[SlotOf[s]]]
  <2>1. /\ mig'.pc = mig.pc /\ mig'.through = mig.through \cup {i} /\ mig'.force = mig.force
        /\ mig'.applied = Append(mig.applied, e) /\ mig'.rewrite = mig.rewrite \cup {s}
        /\ mig' = [pc |-> mig'.pc, through |-> mig'.through, force |-> mig'.force,
                   applied |-> mig'.applied, rewrite |-> mig'.rewrite]
    BY <1>7 DEF Advance, Applied, Prior, MigrateInv, MigrateTypes
  <2>2. e \in Entries
    BY <1>2, <1>3 DEF Entries
  <2>3. MigrateTypes'
    <3> HIDE DEF e
    <3>1. mig'.applied \in Seq(Entries)
      BY <2>1, <2>2 DEF MigrateInv, MigrateTypes
    <3> QED
      BY <1>1, <1>4, <1>7, <2>1, <3>1 DEF MigrateInv, MigrateTypes
  <2>4. FileSound' /\ ChainSound'
    BY <1>1, <1>2, <1>4, <1>7 DEF FileSound, ChainSound, MayHold
  <2>5. /\ chain'[SlotOf[s]] = FiledText(configs, s)
        /\ \A k \in Slots : k # SlotOf[s] => chain'[k] = chain[k]
    BY <1>2, <1>3, <1>7 DEF Written
  <2>6. \A j \in DOMAIN mig'.applied : MayHold(mig'.applied[j].prior, mig'.applied[j].slot)
    <3> SUFFICES ASSUME NEW j \in DOMAIN mig'.applied
                 PROVE  MayHold(mig'.applied[j].prior, mig'.applied[j].slot)
      OBVIOUS
    <3>1. MayHold(e.prior, e.slot)
      BY <1>2, <1>3
    <3> HIDE DEF e
    <3>2. mig'.applied[j] = e \/ (j \in DOMAIN mig.applied /\ mig'.applied[j] = mig.applied[j])
      BY <2>1 DEF MigrateInv, MigrateTypes
    <3> QED
      BY <1>2, <3>1, <3>2 DEF MigrateInv, RollbackReady
  <2>7. \A j \in mig'.through :
             IsPlain(configs, Sites[j]) => /\ Sites[j] \in mig'.rewrite
                                           /\ chain'[SlotOf[Sites[j]]] = FiledText(configs, Sites[j])
    <3> SUFFICES ASSUME NEW j \in mig'.through, IsPlain(configs, Sites[j])
                 PROVE  /\ Sites[j] \in mig'.rewrite
                        /\ chain'[SlotOf[Sites[j]]] = FiledText(configs, Sites[j])
      OBVIOUS
    <3>1. CASE j = i
      BY <2>1, <2>5, <3>1
    <3>2. CASE j # i
      <4>1. /\ j \in mig.through /\ Sites[j] \in SiteSet /\ SlotOf[Sites[j]] \in Slots
            /\ Sites[j] \in mig.rewrite /\ chain[SlotOf[Sites[j]]] = FiledText(configs, Sites[j])
        BY <1>2, <2>1, <3>2, SlotsOfSites DEF MigrateInv, RunSound
      <4>2. SlotOf[Sites[j]] = SlotOf[s] => FiledText(configs, Sites[j]) = FiledText(configs, s)
        BY <1>2, <4>1 DEF MigrateInv, RunSound, NoConflictIn
      <4> QED
        BY <2>1, <2>5, <4>1, <4>2
    <3> QED
      BY <3>1, <3>2
  <2>8. RunSound' /\ RollbackReady'
    BY <1>1, <1>2, <2>1, <2>6, <2>7 DEF MigrateInv, RunSound, RollbackReady, MayHold, IsPlain, NoConflictIn, FiledText
  <2> QED
    BY <2>3, <2>4, <2>8 DEF MigrateInv
<1> QED
  BY <1>1, <1>5, <1>6, <1>7

LEMMA StepRewrite ==
  ASSUME MigrateInv, Rewrite
  PROVE  MigrateInv'
<1>1. AllStored /\ mig.pc = "slot" /\ UNCHANGED before
  BY DEF Rewrite, AllStored
<1>2. DOMAIN chain = Slots /\ \A k \in Slots : MayHold(chain[k], k) /\ chain[k] \in Held
  BY DEF MigrateInv, MigrateTypes, ChainSound
<1>3. CASE Undo /\ UNCHANGED <<configs, chain>>
  BY <1>1, <1>2, <1>3, UndoSound
<1>4. CASE /\ configs' = RewriteToSentinel(configs)
           /\ mig' = [mig EXCEPT !.pc = "done"]
           /\ UNCHANGED chain
  <2>1. /\ mig'.pc = "done" /\ mig'.force = mig.force /\ mig'.applied = mig.applied
        /\ mig' = [pc |-> mig'.pc, through |-> mig'.through, force |-> mig'.force,
                   applied |-> mig'.applied, rewrite |-> mig'.rewrite]
    BY <1>4 DEF MigrateInv, MigrateTypes
  <2>2. \A s \in SiteSet : IsPlain(configs, s) => s \in mig.rewrite /\ chain[SlotOf[s]] = FiledText(configs, s)
    <3> SUFFICES ASSUME NEW s \in SiteSet, IsPlain(configs, s)
                 PROVE  s \in mig.rewrite /\ chain[SlotOf[s]] = FiledText(configs, s)
      OBVIOUS
    <3>1. PICK i \in DOMAIN Sites : s = Sites[i]
      BY SlotsOfSites
    <3>2. i \in mig.through
      BY <1>1, <3>1 DEF AllStored, Planned, IsPlain, ToWrite
    <3> QED
      BY <1>1, <3>1, <3>2 DEF MigrateInv, RunSound
  <2>3. \A s \in mig.rewrite : IsPlain(configs, s)
    BY <1>1 DEF MigrateInv, RunSound
  <2>4. \A s \in SiteSet : configs'[s] = IF IsPlain(configs, s) THEN Sentinel ELSE configs[s]
    BY <1>4, <2>2, <2>3 DEF RewriteToSentinel
  <2>5. Migrated'
    <3>1. CASE configs = before.file
      BY <1>1, <1>4, <2>1, <2>2, <2>4, <3>1 DEF MigrateInv, RunSound, Migrated, NoConflictIn, IsPlain, FiledText
    <3>2. CASE Migrated
      <4>1. \A s \in SiteSet : configs'[s] = configs[s]
        BY <2>4, <3>2, PlanTexts DEF Migrated, IsPlain
      <4> QED
        BY <1>1, <1>4, <2>1, <3>2, <4>1 DEF Migrated, NoConflictIn, IsPlain, FiledText
    <3> QED
      BY <3>1, <3>2 DEF MigrateInv, FileSound
  <2>6. configs' \in [SiteSet -> Texts \cup {Absent}]
    BY <1>4, PlanTexts DEF RewriteToSentinel, MigrateInv, MigrateTypes
  <2>7. MigrateTypes'
    BY <1>1, <1>4, <2>1, <2>6 DEF MigrateInv, MigrateTypes
  <2>8. FileSound' /\ ChainSound' /\ RollbackReady' /\ RunSound'
    BY <1>1, <1>4, <2>1, <2>5 DEF MigrateInv, FileSound, ChainSound, RollbackReady, RunSound, MayHold
  <2> QED
    BY <2>7, <2>8 DEF MigrateInv
<1> QED
  BY <1>3, <1>4 DEF Rewrite

LEMMA MigrateStep == MigrateInv /\ [MigrateNext]_migrateVars => MigrateInv'
<1> SUFFICES ASSUME MigrateInv, [MigrateNext]_migrateVars PROVE MigrateInv'
  OBVIOUS
<1>1. CASE UNCHANGED migrateVars
  BY <1>1 DEF migrateVars, MigrateInv, MigrateTypes, FileSound, ChainSound, RollbackReady,
              RunSound, Migrated, MayHold, IsPlain, NoConflictIn, FiledText
<1>2. CASE \E i \in DOMAIN Sites :
             PreReadFails(i) \/ VerifySentinel(i) \/ InSync(i) \/ Clash(i) \/ StoreSecret(i)
  BY <1>2, StepPreReadFails, StepVerifySentinel, StepInSync, StepClash, StepStoreSecret
<1>3. CASE Restore \/ Undone \/ Rewrite \/ Kill \/ Again \/ \E f \in BOOLEAN : Begin(f)
  BY <1>3, StepRestore, StepUndone, StepRewrite, StepKill, StepAgain, StepBegin
<1> QED
  BY <1>1, <1>2, <1>3 DEF MigrateNext

(* For any file, any keychain, any sharing of slots and any number of      *)
(* faults, kills and runs, NoSecretLost holds: migrate_with, its rollback  *)
(* included, loses no secret that resolved before it, but for the texts it *)
(* misreads.                                                               *)
THEOREM SecretsSurvive == MigrateSpec => []NoSecretLost
<1>1. MigrateInv => NoSecretLost
  <2> SUFFICES ASSUME MigrateInv, NEW s \in SiteSet, ~Misfiled(s, before.file[s]),
                      Resolves(before.file, before.chain, s) # Absent,
                      ~(before.forced /\ UsesSlot(before.file[s]))
               PROVE  Resolves(configs, chain, s) = Resolves(before.file, before.chain, s)
    BY SlotsSound DEF NoSecretLost
  <2>1. /\ SlotOf[s] \in Slots /\ MayHold(chain[SlotOf[s]], SlotOf[s])
        /\ before.file[s] \in Texts \cup {Absent}
    BY SlotsOfSites, SlotsSound DEF MigrateInv, MigrateTypes
  <2>2. configs[s] = before.file[s] \/ (Migrated /\ IsPlain(before.file, s) /\ configs[s] = Sentinel)
    BY DEF MigrateInv, FileSound, Migrated
  <2>3. CASE configs[s] = before.file[s]
    <3>1. UsesSlot(before.file[s]) => chain[SlotOf[s]] = before.chain[SlotOf[s]]
      BY <2>1 DEF MayHold, Resolves
    <3> QED
      BY <2>3, <3>1 DEF Resolves
  <2>4. CASE Migrated /\ IsPlain(before.file, s) /\ configs[s] = Sentinel
    <3>1. ~UsesSlot(before.file[s]) /\ Literal(s, before.file[s]) = FiledText(before.file, s)
      BY <2>4 DEF Misfiled, IsPlain, FiledText
    <3>2. chain[SlotOf[s]] = FiledText(before.file, s)
      BY <2>4 DEF Migrated
    <3>3. UsesSlot(configs[s])
      BY <2>4, MigrateConstants DEF UsesSlot, IsKeychainSentinel
    <3> QED
      BY <3>1, <3>2, <3>3 DEF Resolves
  <2> QED
    BY <2>2, <2>3, <2>4
<1> QED
  BY <1>1, MigrateInitial, MigrateStep, PTL DEF MigrateSpec

=============================================================================
