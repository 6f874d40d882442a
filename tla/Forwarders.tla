----------------------------- MODULE Forwarders -----------------------------
(***************************************************************************)
(* The adapters that deliver a batch of journal records to a receiver:      *)
(* syslog over one reused TLS stream (src/src/audit/forward/syslog.rs), and *)
(* HTTP as Splunk HEC or JSON (src/src/audit/forward/http.rs).  The shipper *)
(* (Shipper) hands over one batch at a time and repeats it until it is      *)
(* acknowledged.  A frame is one record's message with its octet count.    *)
(* The receiver is external.                                                *)
(***************************************************************************)
EXTENDS Naturals, Sequences

CONSTANTS ReceiverSettings,  \* what MCP_AUDIT_FORWARD_* may say
          Frames,            \* records per batch
          MaxBatches,        \* bound: batches
          MaxConns,          \* bound: connections
          MaxTurns           \* bound: token rotations, and deliveries that fail over HTTP

ASSUME ForwarderConstants ==
  Frames \in Nat \ {0} /\ MaxBatches \in Nat /\ MaxConns \in Nat /\ MaxTurns \in Nat

VARIABLES
  receiver,  \* the settings the process started with
  delivery,  \* [pc, batch, token]: the deliver call in flight, and the token it read
  conn,      \* SyslogForwarder.stream: the connection's number, or 0
  peer,      \* its other end: up, leaving (its close is on its way) or closed
  wire,      \* per connection, the pieces that reached the receiver
  stored,    \* batches the HTTP receiver took
  token,     \* the token configured now, or "none"
  accepted,  \* the token the HTTP receiver accepts
  turns,
  acked,     \* history: batches answered Ok
  missed     \* history: batches written to a peer that had left

forwarderVars ==
  <<receiver, delivery, conn, peer, wire, stored, token, accepted, turns, acked, missed>>

NoDelivery == [pc |-> "idle", batch |-> 1, token |-> "none"]

-----------------------------------------------------------------------------
(* Settings.  A receiver is [scheme, loopback, userinfo, path, format, ca,  *)
(* cert, key, token].                                                       *)

\* SyslogSettings::parse_url, client_config: half a client certificate is refused.
SyslogBuilds(s) ==
  /\ s.scheme = "syslog+tls" /\ ~s.userinfo /\ s.path = "/"
  /\ s.ca # "unreadable" /\ (s.cert = "none") = (s.key = "none")

\* HttpFormat::parse, infer.
FormatOf(s) == CASE s.format # "none" -> s.format
                 [] s.path = "/services/collector" -> "hec"
                 [] OTHER -> "json"

\* HttpForwarder::with_token_source: https, or http to this host; HEC has its token.
HttpBuilds(s) ==
  /\ s.scheme = "https" \/ (s.scheme = "http" /\ s.loopback)
  /\ ~s.userinfo /\ FormatOf(s) \in {"hec", "json"} /\ s.ca # "unreadable"
  /\ FormatOf(s) = "hec" => s.token # "none"

Adapter(s) == CASE SyslogBuilds(s) -> "syslog"
                [] HttpBuilds(s)   -> FormatOf(s)
                [] OTHER           -> "refused"

ForwarderInit ==
  /\ receiver \in ReceiverSettings
  /\ delivery = NoDelivery
  /\ conn = 0 /\ peer = "closed" /\ wire = <<>> /\ stored = {}
  /\ token = receiver.token /\ accepted = receiver.token /\ turns = 0
  /\ acked = {} /\ missed = {}

-----------------------------------------------------------------------------
(* Both adapters.                                                           *)

unmoved == <<receiver, token, accepted, turns>>

\* The batch is delivered: the next one is another call.
Acknowledge ==
  /\ delivery' = [pc |-> "idle", batch |-> delivery.batch + 1, token |-> "none"]
  /\ acked' = acked \cup {delivery.batch}

\* ForwardError: the shipper calls again with the same batch.
Fails == delivery' = [delivery EXCEPT !.pc = "idle", !.token = "none"] /\ UNCHANGED acked

Deliver ==
  /\ delivery.pc = "idle" /\ delivery.batch <= MaxBatches
  /\ Adapter(receiver) # "refused"
  /\ delivery' = [delivery EXCEPT
       !.pc = IF Adapter(receiver) = "syslog" THEN "check" ELSE "request",
       !.token = IF Adapter(receiver) = "syslog" THEN "none" ELSE token]
  /\ UNCHANGED <<unmoved, conn, peer, wire, stored, acked, missed>>

-----------------------------------------------------------------------------
(* Syslog.                                                                  *)

Pieces(n) == [i \in 1..n |-> [batch |-> delivery.batch, frame |-> i, whole |-> TRUE]]
Torn(n) == Append(Pieces(n - 1), [batch |-> delivery.batch, frame |-> n, whole |-> FALSE])

\* peer_closed with no wait, on a connection that is reused; else connect.
CheckPeer ==
  /\ delivery.pc = "check"
  /\ conn' = IF peer = "closed" THEN 0 ELSE conn
  /\ delivery' = [delivery EXCEPT !.pc = IF conn' = 0 THEN "connect" ELSE "write"]
  /\ UNCHANGED <<unmoved, peer, wire, stored, acked, missed>>

\* TCP and TLS, each within the timeout.
Connect ==
  /\ delivery.pc = "connect"
  /\ \/ /\ Len(wire) < MaxConns
        /\ wire' = Append(wire, <<>>)
        /\ conn' = Len(wire') /\ peer' = "up"
        /\ delivery' = [delivery EXCEPT !.pc = "write"]
        /\ UNCHANGED acked
     \/ Fails /\ UNCHANGED <<conn, peer, wire>>
  /\ UNCHANGED <<unmoved, stored, missed>>

Reaches(pieces) == wire' = [wire EXCEPT ![conn] = @ \o pieces]

\* write_all and flush; a peer that has left takes nothing, which the write does
\* not notice.
WriteAll ==
  /\ delivery.pc = "write"
  /\ IF peer = "up" THEN Reaches(Pieces(Frames)) /\ UNCHANGED missed
     ELSE missed' = missed \cup {delivery.batch} /\ UNCHANGED wire
  /\ delivery' = [delivery EXCEPT !.pc = "grace"]
  /\ UNCHANGED <<unmoved, conn, peer, stored, acked>>

\* Mutant: the stream is kept after a write that timed out.
WriteBreaksAndStays ==
  /\ delivery.pc = "write"
  /\ \/ peer # "up" /\ UNCHANGED wire
     \/ peer = "up" /\ \E n \in 1..Frames : Reaches(Torn(n)) \/ Reaches(Pieces(n - 1))
  /\ Fails
  /\ UNCHANGED <<unmoved, conn, peer, stored, missed>>

\* The write fails or times out after any number of octets: the stream is dropped.
WriteBreaks ==
  /\ delivery.pc = "write"
  /\ \/ peer # "up" /\ UNCHANGED wire
     \/ peer = "up" /\ \E n \in 1..Frames : Reaches(Torn(n)) \/ Reaches(Pieces(n - 1))
  /\ conn' = 0
  /\ Fails
  /\ UNCHANGED <<unmoved, peer, stored, missed>>

\* peer_closed with POST_WRITE_GRACE.
Grace ==
  /\ delivery.pc = "grace"
  /\ IF peer = "closed" THEN conn' = 0 /\ Fails ELSE Acknowledge /\ UNCHANGED conn
  /\ UNCHANGED <<unmoved, peer, wire, stored, missed>>

\* The receiver closes the connection, and its close arrives.
PeerLeaves ==
  /\ conn # 0
  /\ \/ peer = "up" /\ peer' = "leaving"
     \/ peer = "leaving" /\ peer' = "closed"
  /\ UNCHANGED <<unmoved, delivery, conn, wire, stored, acked, missed>>

-----------------------------------------------------------------------------
(* HTTP.                                                                    *)

Takes(t) == (Adapter(receiver) = "json" /\ accepted = "none") \/ t = accepted

\* A 2xx acknowledges; another status rejects.  HEC without a token sends nothing.
Request ==
  /\ delivery.pc = "request"
  /\ IF Adapter(receiver) = "hec" /\ delivery.token = "none"
     THEN Fails /\ UNCHANGED stored
     ELSE IF Takes(delivery.token)
          THEN stored' = stored \cup {delivery.batch} /\ Acknowledge
          ELSE Fails /\ UNCHANGED stored
  /\ UNCHANGED <<unmoved, conn, peer, wire, missed>>

\* No answer: the batch may have been taken.
RequestBreaks ==
  /\ delivery.pc = "request" /\ turns < MaxTurns
  /\ turns' = turns + 1
  /\ stored' \in {stored} \cup (IF Takes(delivery.token) THEN {stored \cup {delivery.batch}} ELSE {})
  /\ Fails
  /\ UNCHANGED <<receiver, token, accepted, conn, peer, wire, missed>>

\* The receiver's token is rotated; the secret refresher swaps the configuration, or
\* somebody removes the token from it.
Rotate ==
  /\ Adapter(receiver) \in {"hec", "json"} /\ turns < MaxTurns
  /\ turns' = turns + 1
  /\ \/ accepted' = "t2" /\ UNCHANGED token
     \/ token' \in {accepted, "none"} /\ UNCHANGED accepted
  /\ UNCHANGED <<receiver, delivery, conn, peer, wire, stored, acked, missed>>

ForwarderNext ==
  \/ Deliver \/ CheckPeer \/ Connect \/ WriteAll \/ WriteBreaks \/ Grace \/ PeerLeaves
  \/ Request \/ RequestBreaks \/ Rotate

ForwarderSpec == ForwarderInit /\ [][ForwarderNext]_forwarderVars

-----------------------------------------------------------------------------
(* What reaches the receiver on one connection is whole messages, batch     *)
(* after batch from its first record on: an octet count that lies is the    *)
(* end of the connection (deliver drops the stream on every error), never   *)
(* read as the start of the next message.                                   *)
StreamInFrames ==
  \A c \in 1..Len(wire) : \A i \in 1..Len(wire[c]) - 1 :
    LET this == wire[c][i]
        next == wire[c][i + 1]
    IN  /\ this.whole
        /\ IF this.frame = Frames THEN next.frame = 1
           ELSE next.frame = this.frame + 1 /\ next.batch = this.batch

(* A batch is acknowledged only when the receiver has been handed every     *)
(* record of it, on one connection and in order, but for a syslog peer that *)
(* had left and whose close took longer than the grace (deliver).           *)
AckedIsDelivered ==
  \A b \in acked :
    \/ b \in missed
    \/ b \in stored
    \/ \E c \in 1..Len(wire) : \E k \in 0..Len(wire[c]) - Frames :
         \A i \in 1..Frames : wire[c][k + i] = [batch |-> b, frame |-> i, whole |-> TRUE]

(* The copy of the journal never leaves this host in plain text             *)
(* (build_forwarder, parse_url, with_token_source).                         *)
NeverPlain ==
  Adapter(receiver) # "refused" =>
    receiver.scheme \in {"syslog+tls", "https"} \/ receiver.loopback

(* What a receiver may rely on, over reconnects, broken writes, rotated     *)
(* tokens and repeated batches (the two adapters' deliver).                 *)
DeliveryHonest == StreamInFrames /\ AckedIsDelivered /\ NeverPlain
=============================================================================
