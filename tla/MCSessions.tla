----------------------------- MODULE MCSessions -----------------------------
(***************************************************************************)
(* Sessions and the forwarding adapters; `component` says which one a      *)
(* behaviour is about, and they share no state in the program either:      *)
(*   sessions  requests, the reaper, a sweep and the admin replacement     *)
(*   forward   batches to a receiver, under each of the settings           *)
(***************************************************************************)
EXTENDS Sessions, Forwarders, TLC

CONSTANT Components

VARIABLE component

Symmetry == Permutations(Requests) \cup Permutations(Users)

Setting(scheme, path, format, loopback, secret) ==
  [scheme |-> scheme, loopback |-> loopback, userinfo |-> FALSE, path |-> path,
   format |-> format, ca |-> "none", cert |-> "none", key |-> "none", token |-> secret]

Syslog == Setting("syslog+tls", "/", "none", FALSE, "none")
Hec == Setting("https", "/services/collector", "none", FALSE, "t1")
Unusable == Setting("syslog", "/", "none", TRUE, "none")
MCReceivers ==
  {Syslog, [Syslog EXCEPT !.cert = "given"], [Syslog EXCEPT !.userinfo = TRUE],
   Hec, [Hec EXCEPT !.token = "none"], [Hec EXCEPT !.ca = "unreadable"],
   Setting("https", "/in", "none", FALSE, "none"), Setting("https", "/in", "hec", FALSE, "t1"),
   Setting("http", "/in", "json", TRUE, "t1"), Setting("http", "/in", "json", FALSE, "t1"),
   Setting("https", "/in", "xml", FALSE, "t1"), Unusable}

-----------------------------------------------------------------------------
MCInit ==
  /\ component \in Components
  /\ Init /\ ForwarderInit
  /\ component # "forward" => receiver = Unusable

MCNext ==
  /\ \/ component = "sessions" /\ Next /\ UNCHANGED forwarderVars
     \/ component = "forward" /\ ForwarderNext /\ UNCHANGED vars
  /\ UNCHANGED component

MCSpec == MCInit /\ [][MCNext]_<<vars, forwarderVars, component>>
=============================================================================
