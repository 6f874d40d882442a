------------------------------- MODULE Tokens -------------------------------
(***************************************************************************)
(* The bearer caches of the Zoom and Mend vendors.  A cache holds one      *)
(* token under the identity it was minted for (a fingerprint of the secret *)
(* included); callers read it under a shared lock and exchange credentials *)
(* under the exclusive one, held across the exchange.  A caller may be     *)
(* dropped at any await, also after the provider has granted what it asked *)
(* for; time passes between the grant and the answer's arrival.            *)
(***************************************************************************)
EXTENDS Naturals

CONSTANTS
    Callers,      \* concurrent tool calls
    Identities,   \* configured identities; a rotated secret is another one
    Ttls,         \* the lifetimes a provider grants
    Fallback,     \* the lifetime assumed when Mend's answer does not state one
    Skew,         \* EXPIRY_SKEW
    Floor,        \* the least lifetime the cache gives a token (a second)
    RefreshTtl,   \* how long Mend's refresh token is used
    MaxMinted, MaxClock

(* Nothing is asked of a provider: it may grant a lifetime of zero, or one  *)
(* below the floor.  The empty key and the free lock are nobody.            *)
ASSUME TokenConstants ==
    /\ Ttls \subseteq Nat /\ Fallback \in Nat
    /\ Skew \in Nat /\ Floor \in Nat \ {0} /\ RefreshTtl \in Nat
    /\ "none" \notin Identities /\ "free" \notin Callers
    /\ MaxMinted \in Nat

VARIABLES
    cached,       \* TokenCache.inner: [key, token, expires, refresh, refreshUntil]
    writer,       \* the holder of the write lock, or "free"
    caller,       \* every call: its answer on the way, then the bearer it was handed and when
    minted,       \* history: token -> what the provider granted, and when the answer was stored
    spent,        \* the refresh tokens the provider has rotated away
    lost,         \* history: those whose successor never reached the cache
    clock

tokenVars == <<cached, writer, caller, minted, spent, lost, clock>>

NoKey == "none"
Empty == [key |-> NoKey, token |-> 0, expires |-> 0, refresh |-> 0, refreshUntil |-> 0]
Rest == [pc |-> "idle", key |-> NoKey, bearer |-> 0, at |-> 0, refresh |-> 0]
Tokens == 1..MaxMinted
NotMinted == [key |-> NoKey, from |-> 0, ttl |-> 0, said |-> 0, landed |-> 0]
Minted == {t \in Tokens : minted[t].key # NoKey}

TokenInit ==
    /\ cached = Empty /\ writer = "free"
    /\ caller = [c \in Callers |-> Rest]
    /\ minted = [t \in Tokens |-> NotMinted]
    /\ spent = {} /\ lost = {} /\ clock = 0

(* The identity covers account, client, endpoint and secret fingerprint. *)
FreshForAnyone(key) == clock < cached.expires
FreshFor(key) == cached.key = key /\ clock < cached.expires

Served(c, token) ==
    [caller EXCEPT ![c] = [pc |-> "done", key |-> caller[c].key, bearer |-> token,
                           at |-> clock, refresh |-> 0]]

(* bearer(): the fast path under the read lock. *)
Ask(c, key) ==
    /\ caller[c].pc = "idle" /\ writer = "free"
    /\ caller' = [caller EXCEPT ![c] =
         IF FreshFor(key)
         THEN [pc |-> "done", key |-> key, bearer |-> cached.token, at |-> clock, refresh |-> 0]
         ELSE [pc |-> "lock", key |-> key, bearer |-> 0, at |-> 0, refresh |-> 0]]
    /\ UNCHANGED <<cached, writer, minted, spent, lost, clock>>

(* The slow path: another caller may have refreshed while this one waited. *)
CanRefresh(key) ==
    cached.key = key /\ cached.refresh # 0 /\ clock < cached.refreshUntil
Locked(c) ==
    /\ caller[c].pc = "lock" /\ writer = "free"
    /\ IF FreshFor(caller[c].key)
       THEN caller' = Served(c, cached.token) /\ UNCHANGED writer
       ELSE /\ writer' = c
            /\ caller' = [caller EXCEPT
                 ![c].pc = IF CanRefresh(caller[c].key) THEN "refresh" ELSE "exchange"]
    /\ UNCHANGED <<cached, minted, spent, lost, clock>>

(* The provider grants t for ttl from now on and sets out to answer; the    *)
(* answer may leave the lifetime out.                                       *)
Grant(c, ttl, t, refresh, next) ==
    /\ t \notin Minted /\ \A u \in Tokens : u < t => u \in Minted
    /\ \E said \in {ttl, Fallback} :
          minted' = [minted EXCEPT ![t] = [key |-> caller[c].key, from |-> clock, ttl |-> ttl,
                                           said |-> said, landed |-> 0]]
    /\ caller' = [caller EXCEPT ![c] = [pc |-> next, key |-> caller[c].key, bearer |-> t,
                                        at |-> 0, refresh |-> refresh]]

(* Zoom's exchange, Mend's login: with or without a refresh token (the      *)
(* token itself stands for the one issued with it).  Mend's login spends    *)
(* its first refresh token at once, and no other call ever sees that one.   *)
Exchange(c, ttl, t) ==
    /\ caller[c].pc = "exchange"
    /\ \E refresh \in {0, t} : Grant(c, ttl, t, refresh, "loggedIn")
    /\ UNCHANGED <<cached, writer, spent, lost, clock>>

(* Mend's refresh: the provider may rotate the refresh token. *)
Refresh(c, ttl, t) ==
    /\ caller[c].pc = "refresh" /\ cached.refresh \notin spent
    /\ \E refresh \in {cached.refresh, t} :
          /\ Grant(c, ttl, t, refresh, "refreshed")
          /\ spent' = IF refresh = t THEN spent \cup {cached.refresh} ELSE spent
    /\ UNCHANGED <<cached, writer, lost, clock>>

(* A refused refresh token means a login; any other error is the caller's.  *)
RefreshRefused(c) ==
    /\ caller[c].pc = "refresh"
    /\ caller' = [caller EXCEPT ![c].pc = "exchange"]
    /\ UNCHANGED <<cached, writer, minted, spent, lost, clock>>

(* The lifetime in force: the skew off, but never less than the floor. *)
EffectiveNoSkew(ttl) == IF ttl > Floor THEN ttl ELSE Floor
Effective(ttl) == IF ttl > Skew + Floor THEN ttl - Skew ELSE Floor

(* The answer is here: only now is the expiry stamped, and with it that of  *)
(* the refresh token of a login; a refreshed one keeps its own.             *)
Store(c) ==
    /\ caller[c].pc \in {"loggedIn", "refreshed"}
    /\ cached' = [key |-> caller[c].key, token |-> caller[c].bearer,
                  expires |-> clock + Effective(minted[caller[c].bearer].said),
                  refresh |-> caller[c].refresh,
                  refreshUntil |-> IF caller[c].pc = "loggedIn" THEN clock + RefreshTtl
                                                               ELSE cached.refreshUntil]
    /\ minted' = [minted EXCEPT ![caller[c].bearer].landed = clock]
    /\ caller' = Served(c, caller[c].bearer)
    /\ writer' = "free"
    /\ UNCHANGED <<spent, lost, clock>>

(* A provider error, an answer cut short, or the call is dropped: the lock  *)
(* is released and nothing is stored, a rotated refresh token included.     *)
GivesUp(c) ==
    /\ caller[c].pc \in {"lock", "exchange", "refresh", "loggedIn", "refreshed"}
    /\ caller' = [caller EXCEPT ![c] = Rest]
    /\ writer' = IF writer = c THEN "free" ELSE writer
    /\ lost' = IF caller[c].pc = "refreshed" THEN lost \cup {cached.refresh} ELSE lost
    /\ UNCHANGED <<cached, minted, spent, clock>>

Finish(c) ==
    /\ caller[c].pc = "done"
    /\ caller' = [caller EXCEPT ![c] = Rest]
    /\ UNCHANGED <<cached, writer, minted, spent, lost, clock>>

TimePasses ==
    /\ clock < MaxClock /\ clock' = clock + 1
    /\ UNCHANGED <<cached, writer, caller, minted, spent, lost>>

TokenNext ==
    \/ \E c \in Callers :
         \/ \E key \in Identities : Ask(c, key)
         \/ Locked(c) \/ RefreshRefused(c) \/ Store(c) \/ GivesUp(c) \/ Finish(c)
         \/ \E ttl \in Ttls, t \in Tokens : Exchange(c, ttl, t) \/ Refresh(c, ttl, t)
    \/ TimePasses

TokenSpec == TokenInit /\ [][TokenNext]_tokenVars

----------------------------------------------------------------------------
(* A call is handed a token minted for its own identity, whichever caller   *)
(* minted it and when secrets rotated in between.                           *)
OwnToken(c) == minted[caller[c].bearer].key = caller[c].key

(* It is still accepted when it is handed out, provided the stated lifetime *)
(* is granted and covers the skew and the floor, and the answer took no     *)
(* longer than the skew to arrive: the skew is all that pays for an expiry  *)
(* counted from the arrival.                                                *)
StillAccepted(c) ==
    LET m == minted[caller[c].bearer] IN
    m.said <= m.ttl /\ m.said >= Skew + Floor /\ m.landed <= m.from + Skew
        => caller[c].at < m.from + m.ttl

(* However short the lifetime or slow the answer, nothing is handed out     *)
(* later than the stated lifetime and the floor after the arrival.          *)
BoundedOverrun(c) ==
    LET m == minted[caller[c].bearer] IN caller[c].at < m.landed + m.said + Floor

(* The cache holds a refresh token the provider has rotated away only while *)
(* the answer is on its way, or when the call that rotated it was cut off.  *)
RotationKept ==
    cached.refresh \in spent =>
        \/ cached.refresh \in lost
        \/ \E c \in Callers : caller[c].pc = "refreshed" /\ writer = c

(* What bearer() of both caches promises (OwnToken, StillAccepted,          *)
(* BoundedOverrun, RotationKept), however long a call waited for the lock   *)
(* and wherever another was dropped.                                        *)
BearerUsable ==
    /\ \A c \in Callers :
         caller[c].pc = "done" => OwnToken(c) /\ StillAccepted(c) /\ BoundedOverrun(c)
    /\ RotationKept
=============================================================================
