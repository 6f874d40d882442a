------------------------------- MODULE MCLoops -------------------------------
(***************************************************************************)
(* The two background loops of the HTTP server; `component` says which one *)
(* a behaviour is about, and they share no state in the program either:    *)
(*   forward   the shipper over a log of three lines, two of them long     *)
(*   sessions  the reaper, a sweep and the admin replacement over one      *)
(*             session id and two requests                                 *)
(***************************************************************************)
EXTENDS Shipper

CONSTANTS Ids, Users, Requests, Nobody, NoEntry, MaxChanges   \* Sessions

VARIABLES component,
          live, owner, idle, req, reaper, changes, sweep, admin, creator, used, orphaned

sessionVars == <<live, owner, idle, req, reaper, changes, sweep, admin, creator, used, orphaned>>
Session == INSTANCE Sessions

MCInit == component \in {"forward", "sessions"} /\ ShipInit /\ Session!Init

MCNext ==
  /\ \/ component = "forward" /\ ShipNext /\ UNCHANGED sessionVars
     \/ component = "sessions" /\ Session!Next /\ UNCHANGED forwardVars
  /\ UNCHANGED component

(* The fairness of each part (FairSpec), while it is the one that runs.    *)
ForwardFair ==
  LET Runs == component = "forward" /\ UNCHANGED <<logVars, lost>> IN
  /\ WF_forwardVars(Ship /\ Runs) /\ SF_forwardVars(ReadBatch /\ Runs)
  /\ SF_forwardVars(DeliverOk /\ Runs) /\ SF_forwardVars(Persist /\ Runs)

SessionsFair ==
  LET Runs == component = "sessions" IN
  /\ \A r \in Requests : WF_sessionVars(Session!RequestStep(r) /\ Runs)
  /\ \A i \in Ids : WF_sessionVars(Session!GoIdle(i) /\ Runs)
  /\ WF_sessionVars(Session!Reap /\ Runs)
  /\ \A n \in 1..MaxChanges : WF_sessionVars(Session!Sweep(n) /\ Runs)

MCSpec == /\ MCInit /\ [][MCNext]_<<component, forwardVars, sessionVars>>
          /\ ForwardFair /\ SessionsFair

-----------------------------------------------------------------------------
(* Sessions nobody touches end (Sessions).                                 *)
IdleSessionsEnd == Session!IdleSessionsEnd
==============================================================================
