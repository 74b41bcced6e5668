------------------------------ MODULE H3Session ------------------------------
(***************************************************************************)
(* The client's side of HTTP/3 above one stream: h3_client.rs, from the    *)
(* TCP connections sslocal makes to the QUIC sessions that carry them.     *)
(*                                                                         *)
(*   - run() spawns one accept task per connection; it sends an OpenReq    *)
(*     over a bounded channel (open_rx) and waits for the reply, then      *)
(*     bridges;                                                            *)
(*   - manager() takes a request and runs a session() for it; session()    *)
(*     handshakes, then its loop takes the others, parking the one that    *)
(*     cannot be opened yet (pending), until the connection closes.        *)
(*                                                                         *)
(* The runtime and the listener outlive everything here, so the branches   *)
(* for a manager or a requester that is gone cannot be taken.  What        *)
(* happens to the bytes of a stream is in QuicTunnel.                      *)
(***************************************************************************)
EXTENDS Naturals, Sequences, FiniteSets

CONSTANTS
  Requests,            \* connections from sslocal
  OPEN_CHANNEL_CAP,    \* requests the open channel holds
  EGRESS_CHANNEL_CAP,  \* messages a session's egress channel holds
  PeerCredit,          \* streams the peer lets be open at a time
  Failures             \* which of AllFailures happen

\* Resolving or binding fails; the handshake fails or times out; send_request
\* fails for good; the peer resets or refuses a stream; the peer closes; the
\* idle timer closes; the UDP socket fails.
AllFailures == {"setup", "handshake", "request", "stream", "close", "idle", "udp"}

ASSUME H3SessionAssumption ==
  /\ OPEN_CHANNEL_CAP \in Nat \ {0}
  /\ EGRESS_CHANNEL_CAP \in Nat \ {0}
  /\ PeerCredit \in Nat \ {0}
  /\ Failures \subseteq AllFailures

VARIABLES
  task,      \* accept task of each connection
  open_rx,   \* channel of OpenReqs
  arrived,   \* history: the order in which requests entered the channel
  mgr,       \* where manager() and session() are
  pending,   \* the request session() holds: none or one
  conn,      \* the QUIC connection
  settings,  \* the peer's SETTINGS have enabled Extended CONNECT
  credit,    \* streams the peer still lets us open
  epoch,     \* number of the session
  opened,    \* streams opened in this session; the next stream id
  streams,   \* the session's `streams` map
  unsent,    \* streams whose CONNECT is still in quiche, not on the wire
  inflight,  \* something on the wire is not acknowledged yet
  handle,    \* the QuicStream of each accept task
  egress     \* the session's egress channel

requestVars == <<task, open_rx, arrived, pending>>
connVars == <<conn, settings, credit, epoch>>
streamVars == <<opened, streams, unsent, inflight>>
bridgeVars == <<handle, egress>>
vars == <<mgr, requestVars, connVars, streamVars, bridgeVars>>

Handle == [epoch : Nat, sid : Nat]
Message == [epoch : Nat, sid : Nat, from : Requests, out : {"Data", "Closed"}]
Stream == [owner : Requests, closed : BOOLEAN]

\* Every variable keeps its type, neither channel outgrows its capacity, and
\* session() holds at most one request: select! takes another only when none is
\* parked.
TypeOK ==
  /\ task \in [Requests -> {"idle", "sending", "waiting", "bridging", "refused", "ended"}]
  /\ open_rx \in Seq(Requests) /\ Len(open_rx) <= OPEN_CHANNEL_CAP
  /\ arrived \in Seq(Requests)
  /\ mgr \in {"idle", "setup", "handshake", "open", "select", "turn"}
  /\ pending \subseteq Requests
  /\ \A r, q \in pending : r = q
  /\ mgr \in {"setup", "handshake"} => pending # {}
  /\ conn \in {"live", "draining", "closed"}
  /\ settings \in BOOLEAN
  /\ credit \in 0 .. PeerCredit
  /\ epoch \in Nat
  /\ opened \in Nat
  /\ DOMAIN streams \subseteq Nat
  /\ streams \in [DOMAIN streams -> Stream]
  /\ unsent \subseteq Nat
  /\ inflight \in BOOLEAN
  /\ handle \in [Requests -> Handle]
  /\ egress \in Seq(Message) /\ Len(egress) <= EGRESS_CHANNEL_CAP

NoStreams == [sid \in {} |-> [owner |-> sid, closed |-> FALSE]]

Init ==
  /\ task = [r \in Requests |-> "idle"]
  /\ open_rx = <<>> /\ arrived = <<>>
  /\ mgr = "idle"
  /\ pending = {}
  /\ conn = "live" /\ settings = FALSE /\ credit = PeerCredit
  /\ epoch = 0 /\ opened = 0
  /\ streams = NoStreams /\ unsent = {} /\ inflight = FALSE
  /\ handle = [r \in Requests |-> [epoch |-> 0, sid |-> 0]]
  /\ egress = <<>>

-----------------------------------------------------------------------------
(* run(): the accept loop and its tasks.                                   *)

Accept(r) ==
  /\ task[r] = "idle"
  /\ task' = [task EXCEPT ![r] = "sending"]
  /\ UNCHANGED <<mgr, open_rx, arrived, pending, connVars, streamVars,
                 bridgeVars>>

\* open_tx.send waits for a free slot.
SendReq(r) ==
  /\ task[r] = "sending"
  /\ Len(open_rx) < OPEN_CHANNEL_CAP
  /\ task' = [task EXCEPT ![r] = "waiting"]
  /\ open_rx' = Append(open_rx, r)
  /\ arrived' = Append(arrived, r)
  /\ UNCHANGED <<mgr, pending, connVars, streamVars, bridgeVars>>

-----------------------------------------------------------------------------
(* manager() and the beginning of session().                               *)

ManagerRecv ==
  /\ mgr = "idle"
  /\ open_rx # <<>>
  /\ pending' = {Head(open_rx)}
  /\ open_rx' = Tail(open_rx)
  /\ mgr' = "setup"
  /\ UNCHANGED <<task, arrived, connVars, streamVars, bridgeVars>>

\* The request that is dropped with its reply channel: its accept task shuts
\* the sslocal connection down.
Refuse(requests) ==
  task' = [r \in Requests |-> IF r \in requests THEN "refused" ELSE task[r]]

\* session() returns: what it holds is dropped with it, the requests still in
\* the channel wait for the next session.
EndSession ==
  /\ mgr' = "idle"
  /\ Refuse(pending)
  /\ pending' = {}
  /\ streams' = NoStreams
  /\ unsent' = {}
  /\ egress' = <<>>
  /\ UNCHANGED <<open_rx, arrived, connVars, opened, inflight, handle>>

SetupFails ==
  /\ mgr = "setup"
  /\ "setup" \in Failures
  /\ EndSession

\* The socket is bound and quiche::connect done; a new connection.
Setup ==
  /\ mgr = "setup"
  /\ mgr' = "handshake"
  /\ conn' = "live" /\ settings' = FALSE /\ credit' = PeerCredit
  /\ epoch' = epoch + 1
  /\ opened' = 0
  /\ UNCHANGED <<requestVars, streams, unsent, inflight, bridgeVars>>

\* What completed the handshake is on the wire.
HandshakeDone ==
  /\ mgr = "handshake"
  /\ mgr' = "open"
  /\ inflight' = TRUE
  /\ UNCHANGED <<requestVars, connVars, opened, streams, unsent, bridgeVars>>

\* Closed, a socket error, or HANDSHAKE_TIMEOUT.
HandshakeFails ==
  /\ mgr = "handshake"
  /\ "handshake" \in Failures
  /\ EndSession

-----------------------------------------------------------------------------
(* The top of session()'s loop: open_stream, or park.                      *)

Wait == mgr' = "select"

\* Mutant: a request that has to wait goes to the back of the queue.
ParkToBack ==
  /\ mgr = "open"
  /\ pending = {} \/ ~settings
  /\ IF pending # {} /\ open_rx # <<>>
       THEN /\ open_rx' = Append(Tail(open_rx), CHOOSE r \in pending : TRUE)
            /\ pending' = {Head(open_rx)}
       ELSE UNCHANGED <<open_rx, pending>>
  /\ Wait
  /\ UNCHANGED <<task, arrived, connVars, streamVars, bridgeVars>>

\* Nothing is asked for, or the peer's SETTINGS are not there yet.
Park ==
  /\ mgr = "open"
  /\ pending = {} \/ ~settings
  /\ Wait
  /\ UNCHANGED <<requestVars, connVars, streamVars, bridgeVars>>

\* StreamLimit or StreamBlocked: the request comes back and is parked.
Defer ==
  /\ mgr = "open" /\ pending # {} /\ settings
  /\ credit = 0
  /\ Wait
  /\ UNCHANGED <<requestVars, connVars, streamVars, bridgeVars>>

\* send_request failed for good.
OpenFails ==
  /\ mgr = "open" /\ pending # {} /\ settings
  /\ credit > 0
  /\ "request" \in Failures
  /\ Refuse(pending)
  /\ pending' = {}
  /\ Wait
  /\ UNCHANGED <<open_rx, arrived, connVars, streamVars, bridgeVars>>

\* The CONNECT is queued in quiche; the reply wakes the accept task, which
\* starts to bridge.
OpenStream ==
  /\ mgr = "open" /\ settings
  /\ credit > 0
  /\ \E r \in pending :
       /\ task' = [task EXCEPT ![r] = "bridging"]
       /\ handle' = [handle EXCEPT ![r] = [epoch |-> epoch, sid |-> opened]]
       /\ streams' = [sid \in DOMAIN streams \cup {opened} |->
                        IF sid = opened THEN [owner |-> r, closed |-> FALSE]
                                        ELSE streams[sid]]
  /\ pending' = {}
  /\ unsent' = unsent \cup {opened}
  /\ opened' = opened + 1
  /\ credit' = credit - 1
  /\ Wait
  /\ UNCHANGED <<open_rx, arrived, conn, settings, epoch, inflight, egress>>

-----------------------------------------------------------------------------
(* The select! of session()'s loop.                                        *)

Selected == mgr = "select" /\ mgr' = "turn"

\* A datagram that at most acknowledges what was sent, or a timer of loss
\* recovery.
UdpAck ==
  /\ Selected
  /\ inflight' \in {FALSE, inflight}
  /\ UNCHANGED <<requestVars, connVars, opened, streams, unsent, bridgeVars>>

UdpSettings ==
  /\ Selected
  /\ conn = "live"
  /\ ~settings
  /\ settings' = TRUE
  /\ UNCHANGED <<requestVars, conn, credit, epoch, streamVars, bridgeVars>>

\* MAX_STREAMS: the peer makes up for streams that are over.
UdpCredit ==
  /\ Selected
  /\ conn = "live"
  /\ credit + Cardinality(DOMAIN streams) < PeerCredit
  /\ credit' = credit + 1
  /\ UNCHANGED <<requestVars, conn, settings, epoch, streamVars, bridgeVars>>

\* RESET_STREAM, or a response that is not a 2xx: poll_h3 drops the stream.
UdpStreamOver ==
  /\ Selected
  /\ "stream" \in Failures
  /\ conn = "live"
  /\ \E over \in DOMAIN streams \ unsent :
       streams' = [sid \in DOMAIN streams \ {over} |-> streams[sid]]
  /\ UNCHANGED <<requestVars, connVars, opened, unsent, inflight, bridgeVars>>

\* CONNECTION_CLOSE: the connection drains until a timer closes it.
UdpClose ==
  /\ Selected
  /\ "close" \in Failures
  /\ conn = "live"
  /\ conn' = "draining"
  /\ UNCHANGED <<requestVars, settings, credit, epoch, streamVars, bridgeVars>>

\* on_timeout: the end of draining, or of an idle connection.  The timers of
\* loss recovery come first, and a turn with them.
Timer ==
  /\ Selected
  /\ \/ conn = "draining"
     \/ conn = "live" /\ "idle" \in Failures /\ ~(inflight /\ unsent # {})
  /\ conn' = "closed"
  /\ UNCHANGED <<requestVars, settings, credit, epoch, streamVars, bridgeVars>>

\* Mutants: a request is taken although another one is parked, which it
\* replaces, or joins.
SelectOpenAlways ==
  /\ Selected
  /\ open_rx # <<>>
  /\ Refuse(pending)
  /\ pending' = {Head(open_rx)}
  /\ open_rx' = Tail(open_rx)
  /\ UNCHANGED <<arrived, connVars, streamVars, bridgeVars>>

SelectOpenJoins ==
  /\ Selected
  /\ open_rx # <<>>
  /\ pending' = pending \cup {Head(open_rx)}
  /\ open_rx' = Tail(open_rx)
  /\ UNCHANGED <<task, arrived, connVars, streamVars, bridgeVars>>

\* The next request, unless one is parked.
SelectOpen ==
  /\ Selected
  /\ pending = {}
  /\ open_rx # <<>>
  /\ pending' = {Head(open_rx)}
  /\ open_rx' = Tail(open_rx)
  /\ UNCHANGED <<task, arrived, connVars, streamVars, bridgeVars>>

\* One message of a bridge; the stream may be gone by now.
SelectEgress ==
  /\ Selected
  /\ egress # <<>>
  /\ LET msg == Head(egress) IN
       streams' = [sid \in DOMAIN streams |->
         [streams[sid] EXCEPT !.closed = @ \/ (sid = msg.sid /\ msg.out = "Closed")]]
  /\ egress' = Tail(egress)
  /\ inflight' = TRUE
  /\ UNCHANGED <<requestVars, connVars, opened, unsent, handle>>

-----------------------------------------------------------------------------
(* The rest of a turn: poll_h3, the pumps, reap_streams, flush_packets.    *)

Turn ==
  /\ mgr = "turn"
  /\ conn # "closed"
  /\ mgr' = "open"
  /\ streams' = [sid \in {i \in DOMAIN streams : ~streams[i].closed} |-> streams[sid]]
  /\ unsent' = {}
  /\ inflight' = (inflight \/ unsent # {})
  /\ UNCHANGED <<requestVars, connVars, opened, bridgeVars>>

\* Mutant: a closed connection is kept for the streams it still has.
TurnClosedWhenEmpty ==
  /\ mgr = "turn"
  /\ conn = "closed"
  /\ DOMAIN streams = {}
  /\ EndSession

\* is_closed: session() returns.
TurnClosed ==
  /\ mgr = "turn"
  /\ conn = "closed"
  /\ EndSession

\* socket.recv or flush_packets failed: session() returns the error.
UdpError ==
  /\ mgr \in {"select", "turn"}
  /\ "udp" \in Failures
  /\ EndSession

-----------------------------------------------------------------------------
(* The bridge of an accept task; each QuicStream holds the egress_tx of    *)
(* the session that made it.                                               *)

\* Mutant: one egress channel for all sessions.
EgressOpenAlways(r) == mgr \in {"open", "select", "turn"}

EgressOpen(r) ==
  handle[r].epoch = epoch /\ mgr \in {"open", "select", "turn"}

ToLoop(r, out) ==
  [epoch |-> handle[r].epoch, sid |-> handle[r].sid, from |-> r, out |-> out]

Send(r, out) ==
  /\ EgressOpen(r)
  /\ Len(egress) < EGRESS_CHANNEL_CAP
  /\ egress' = Append(egress, ToLoop(r, out))

BridgeSends(r) ==
  /\ task[r] = "bridging"
  /\ Send(r, "Data")
  /\ UNCHANGED <<mgr, requestVars, connVars, streamVars, handle>>

\* copy_bidirectional returned: the close notice, if anyone is there for it.
BridgeEnds(r) ==
  /\ task[r] = "bridging"
  /\ Send(r, "Closed") \/ (~EgressOpen(r) /\ UNCHANGED egress)
  /\ task' = [task EXCEPT ![r] = "ended"]
  /\ UNCHANGED <<mgr, open_rx, arrived, pending, connVars, streamVars, handle>>

-----------------------------------------------------------------------------
Top == Park \/ Defer \/ OpenFails \/ OpenStream

Loop ==
  \/ Top
  \/ UdpAck \/ UdpSettings \/ UdpCredit \/ UdpStreamOver \/ UdpClose
  \/ Timer \/ SelectOpen \/ SelectEgress
  \/ Turn \/ TurnClosed \/ UdpError

Next ==
  \/ ManagerRecv \/ SetupFails \/ Setup \/ HandshakeDone \/ HandshakeFails
  \/ Loop
  \/ \E r \in Requests :
       Accept(r) \/ SendReq(r) \/ BridgeSends(r) \/ BridgeEnds(r)

Spec == Init /\ [][Next]_vars

\* tokio goes on with the tasks and grants the slots of a channel in turn;
\* select! is random among the branches that are ready; the handshake ends,
\* if only by its deadline, and a draining connection closes.
LoopFairness ==
  /\ WF_vars(ManagerRecv)
  /\ WF_vars(Setup \/ SetupFails)
  /\ WF_vars(HandshakeFails)
  /\ WF_vars(Top)
  /\ WF_vars(Turn \/ TurnClosed)
  /\ SF_vars(SelectOpen)
  /\ SF_vars(SelectEgress)
  /\ SF_vars(Timer)
  /\ \A r \in Requests : SF_vars(SendReq(r))

\* The peer, while its connection lives, sends its SETTINGS and replaces
\* streams that are over; the programs at the ends of a tunnel end it.
EnvironmentFairness ==
  /\ SF_vars(UdpSettings)
  /\ SF_vars(UdpCredit)
  /\ \A r \in Requests : SF_vars(BridgeEnds(r))

FairSpec == Spec /\ LoopFairness /\ EnvironmentFairness

-----------------------------------------------------------------------------
(* Safety.                                                                 *)

Answered(r) == task[r] \in {"bridging", "refused", "ended"}

\* "Requests are served strictly in arrival order", although one may be parked
\* for want of SETTINGS or of a stream, across any number of sessions.
ServedInOrder == \A i, j \in DOMAIN arrived :
  i < j /\ Answered(arrived[j]) => Answered(arrived[i])

\* Stream ids start again with every session, but a message of an old bridge
\* never reaches a stream of the next session that has the same id.
NoCrossTalk == \A i \in DOMAIN egress : LET msg == egress[i] IN
  msg.sid \in DOMAIN streams => streams[msg.sid].owner = msg.from

\* A request is refused only together with its session, or because
\* send_request failed: running out of streams, or SETTINGS that are late, only
\* delay it.
RefusedOnlyByFailure == [][\A r \in Requests :
  task[r] = "waiting" /\ task'[r] = "refused" =>
    r \in pending /\ (mgr' = "idle" \/ (mgr = "open" /\ credit > 0 /\ settings))]_vars

-----------------------------------------------------------------------------
(* Liveness.                                                               *)

\* An accept task that asks for a stream is answered, by this session or by a
\* later one: no failed handshake and no parked request leaves it waiting.
EverybodyIsAnswered == \A r \in Requests : task[r] = "sending" ~> Answered(r)

\* open_stream: "Send one WebSocket Extended CONNECT (RFC 9220) request and
\* hand the resulting stream to the waiting accept task."  A connection that
\* dies of idleness has sent the request of every stream it handed over.
ConnectIsSent == mgr = "turn" /\ conn = "closed" => unsent = {}

=============================================================================
