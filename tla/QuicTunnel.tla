----------------------------- MODULE QuicTunnel -----------------------------
(***************************************************************************)
(* One QUIC connection and the tunnels running on it: src/src/quic.rs, as  *)
(* driven by the event loops of h3_client.rs and h3_server.rs.             *)
(*                                                                         *)
(* Two kinds of tokio tasks share the state:                               *)
(*   - the event loop owns the connection and one StreamState per stream   *)
(*     (variables phase, todo, st, rcv, snd, conn_closed);                 *)
(*   - one bridge task per stream runs copy_bidirectional between the      *)
(*     stream's QuicStream and a local TCP socket (bridge, held, tcp).     *)
(* They meet in a bounded inbound channel per stream (rx), in one bounded  *)
(* egress channel for all streams (egress) and in one Notify (read_credit).*)
(*                                                                         *)
(* A turn of the loop is not atomic: the bridges run on other threads, so  *)
(* every iteration of the loops of pump_inbound and pump_outbound is a     *)
(* step, and "phase" forces the turn's order                               *)
(*    select -> [recv] -> poll -> in -> out -> reap -> select.             *)
(*                                                                         *)
(* Payload is abstract: bytes are numbered from 0 in each direction and a  *)
(* chunk is the interval [lo, hi).  What each side really received is      *)
(* recorded by a count and an "intact" flag that is lowered for good when  *)
(* a chunk does not start where the previous one ended.                    *)
(***************************************************************************)
EXTENDS Naturals, Sequences

CONSTANTS
  Streams,              \* QUIC stream ids of the connection
  Role,                 \* "client" (h3_client.rs) or "server" (h3_server.rs)
  INBOUND_CHANNEL_CAP,  \* chunks in one stream's inbound channel
  EGRESS_CHANNEL_CAP,   \* messages in the shared egress channel
  RECV_CHUNK,           \* most bytes one recv_body returns
  COPY_BUF,             \* most bytes one copy_bidirectional write carries
  RecvWindow,           \* unread bytes QUIC flow control lets a peer send
  MaxDown,              \* bound: bytes the QUIC peer sends on a stream
  MaxUp,                \* bound: bytes the local TCP peer sends on a stream
  Failures              \* which of AllFailures the environment produces

\* A refused CONNECT, RESET_STREAM, STOP_SENDING, the end of the connection,
\* and an error of the local socket or of the dial.
AllFailures == {"refusal", "reset", "stop", "close", "local"}

ASSUME QuicTunnelAssumption ==
  /\ Role \in {"client", "server"}
  /\ INBOUND_CHANNEL_CAP \in Nat \ {0}
  /\ EGRESS_CHANNEL_CAP \in Nat \ {0}
  /\ RECV_CHUNK \in Nat \ {0}
  /\ COPY_BUF \in Nat \ {0}
  /\ RecvWindow \in Nat
  /\ MaxDown \in Nat
  /\ MaxUp \in Nat
  /\ Failures \subseteq AllFailures

VARIABLES
  phase,        \* where the event loop is; "gone" once the connection is dropped
  todo,         \* streams the running pump has still to visit
  conn_closed,  \* quiche's is_closed()
  st,           \* the loop's `streams` map: StreamState per stream
  rcv,          \* quiche's receiving half of each stream
  snd,          \* quiche's sending half of each stream
  rx,           \* inbound channel of each stream, loop to bridge
  egress,       \* egress channel, all bridges to loop
  read_credit,  \* the permit stored in the Notify
  bridge,       \* the bridge task of each stream
  held,         \* bytes a bridge has popped from rx and not yet written to TCP
  tcp           \* bytes that crossed the local socket of each stream

loopVars == <<phase, todo, conn_closed, st>>
quicVars == <<rcv, snd>>
taskVars == <<bridge, held, tcp>>
vars == <<loopVars, quicVars, rx, egress, read_credit, taskVars>>

Chunk == [lo : Nat, hi : Nat]
Message == [stream : Streams, out : {"Data", "Fin", "Closed"}, chunk : Chunk]
Nothing == [lo |-> 0, hi |-> 0]

Least(a, b) == IF a < b THEN a ELSE b

NoState == [present |-> FALSE, inbound_tx |-> FALSE, readable |-> FALSE,
            pending |-> <<>>, fin_pending |-> FALSE, fin_sent |-> FALSE,
            closed |-> FALSE]

\* StreamState::tunnel
Tunnel == [NoState EXCEPT !.present = TRUE, !.inbound_tx = TRUE]

StreamState ==
  [present : BOOLEAN, inbound_tx : BOOLEAN, readable : BOOLEAN,
   pending : Seq(Chunk), fin_pending : BOOLEAN, fin_sent : BOOLEAN,
   closed : BOOLEAN]

ReceivingHalf ==
  [hdrs : {"none", "ok", "bad", "seen", "refused"},
   arrived : Nat, read : Nat, fin : BOOLEAN,
   armed : BOOLEAN,         \* the next byte to arrive raises Data
   fin_seen : BOOLEAN,      \* Finished was raised
   reset : {"none", "arrived", "seen"},
   shut : BOOLEAN]          \* stream_shutdown(Read)

SendingHalf ==
  [off : Nat, credit : Nat, intact : BOOLEAN,
   fin : BOOLEAN, reset : BOOLEAN,
   stopped : BOOLEAN]       \* the peer sent STOP_SENDING

BridgeTask ==
  [pc : {"none", "dialing", "copying", "closing", "done"},
   up : {"open", "done"}, down : {"open", "done"}, failed : BOOLEAN]

LocalSocket == [read : Nat, wrote : Nat, intact : BOOLEAN, shut : BOOLEAN]

\* Every variable keeps its type, and neither channel outgrows its capacity:
\* pump_inbound sends only with a permit of try_reserve, poll_write with one of
\* poll_reserve.
TypeOK ==
  /\ phase \in {"select", "recv", "poll", "in", "out", "reap", "gone"}
  /\ todo \subseteq Streams
  /\ conn_closed \in BOOLEAN
  /\ st \in [Streams -> StreamState]
  /\ rcv \in [Streams -> ReceivingHalf]
  /\ snd \in [Streams -> SendingHalf]
  /\ rx \in [Streams -> Seq(Chunk)]
  /\ \A s \in Streams : Len(rx[s]) <= INBOUND_CHANNEL_CAP
  /\ egress \in Seq(Message)
  /\ Len(egress) <= EGRESS_CHANNEL_CAP
  /\ read_credit \in BOOLEAN
  /\ bridge \in [Streams -> BridgeTask]
  /\ held \in [Streams -> Chunk]
  /\ tcp \in [Streams -> LocalSocket]

Init ==
  /\ phase = "select"
  /\ todo = {}
  /\ conn_closed = FALSE
  /\ st = [s \in Streams |-> NoState]
  /\ rcv = [s \in Streams |->
              [hdrs |-> "none", arrived |-> 0, read |-> 0, fin |-> FALSE,
               armed |-> TRUE, fin_seen |-> FALSE, reset |-> "none",
               shut |-> FALSE]]
  /\ snd = [s \in Streams |->
              [off |-> 0, credit |-> 0, intact |-> TRUE, fin |-> FALSE,
               reset |-> FALSE, stopped |-> FALSE]]
  /\ rx = [s \in Streams |-> <<>>]
  /\ egress = <<>>
  /\ read_credit = FALSE
  /\ bridge = [s \in Streams |->
                 [pc |-> "none", up |-> "open", down |-> "open", failed |-> FALSE]]
  /\ held = [s \in Streams |-> Nothing]
  /\ tcp = [s \in Streams |->
              [read |-> 0, wrote |-> 0, intact |-> TRUE, shut |-> FALSE]]

-----------------------------------------------------------------------------
(* What the two kinds of tasks can see of each other.                      *)

\* The bridge still owns the QuicStream, hence the channel's receiver.
ReceiverAlive(s) == bridge[s].pc \in {"dialing", "copying"}

\* Every inbound sender of s is gone: once rx drains, poll_read reports EOF.
SenderGone(s) == ~(st[s].present /\ st[s].inbound_tx)

\* The client's session owns egress_rx; the server's outlives its connections.
EgressOpen == Role = "server" \/ phase # "gone"
EgressRoom == EgressOpen /\ Len(egress) < EGRESS_CHANNEL_CAP

\* quiche's stream_finished: nothing is left to read, now or later.
StreamFinished(s) ==
  \/ rcv[s].reset # "none"
  \/ rcv[s].fin /\ rcv[s].read = rcv[s].arrived

-----------------------------------------------------------------------------
(* The select! of the loop.                                                *)

\* A datagram arrived or the timer fired: quiche takes it in, then the
\* connection is serviced.
SelectUdp ==
  /\ phase = "select"
  /\ phase' = "recv"
  /\ UNCHANGED <<todo, conn_closed, st, quicVars, rx, egress, read_credit, taskVars>>

\* Mutant: the close notice is dropped on the floor.
QueueNoClose(state, msg) ==
  CASE msg.out = "Data" -> [state EXCEPT !.pending = Append(@, msg.chunk)]
    [] msg.out = "Fin" -> [state EXCEPT !.fin_pending = TRUE]
    [] msg.out = "Closed" -> state

\* StreamState::queue
Queue(state, msg) ==
  CASE msg.out = "Data" -> [state EXCEPT !.pending = Append(@, msg.chunk)]
    [] msg.out = "Fin" -> [state EXCEPT !.fin_pending = TRUE]
    [] msg.out = "Closed" -> [state EXCEPT !.closed = TRUE]

\* One egress message is queued on its stream; one for a stream the loop
\* has dropped is discarded.
SelectEgress ==
  /\ phase = "select"
  /\ egress # <<>>
  /\ LET msg == Head(egress) IN
       st' = [st EXCEPT ![msg.stream] =
                IF @.present THEN Queue(@, msg) ELSE @]
  /\ egress' = Tail(egress)
  /\ phase' = "poll"
  /\ UNCHANGED <<todo, conn_closed, quicVars, rx, read_credit, taskVars>>

\* The server's loop goes on without the connection: a message that carries
\* its key finds no Conn.
SelectEgressUnknown ==
  /\ Role = "server"
  /\ phase = "gone"
  /\ egress # <<>>
  /\ egress' = Tail(egress)
  /\ UNCHANGED <<loopVars, quicVars, rx, read_credit, taskVars>>

\* read_credit.notified() consumes the stored permit.
SelectCredit ==
  /\ phase = "select"
  /\ read_credit
  /\ read_credit' = FALSE
  /\ phase' = "poll"
  /\ UNCHANGED <<todo, conn_closed, st, quicVars, rx, egress, taskVars>>

\* client: an error of the UDP socket ends the session on the spot.
UdpError ==
  /\ "close" \in Failures
  /\ Role = "client"
  /\ phase = "select"
  /\ phase' = "gone"
  /\ st' = [s \in Streams |-> NoState]
  /\ egress' = <<>>
  /\ UNCHANGED <<todo, conn_closed, quicVars, rx, read_credit, taskVars>>

\* client: open_stream got a stream from send_request and hands its
\* QuicStream to the accept task, which starts bridging.
OpenStream(s) ==
  /\ Role = "client"
  /\ phase = "select"
  /\ bridge[s].pc = "none"
  /\ st' = [st EXCEPT ![s] = Tunnel]
  /\ bridge' = [bridge EXCEPT ![s].pc = "copying"]
  /\ UNCHANGED <<phase, todo, conn_closed, quicVars, rx, egress, read_credit, held, tcp>>

-----------------------------------------------------------------------------
(* quiche takes in a datagram: any number of frames, for any streams.      *)

Opened(s) == Role = "server" \/ bridge[s].pc # "none"

\* The peer may still send on s.
PeerWrites(s) == rcv[s].reset = "none" /\ ~rcv[s].fin

\* HEADERS: a tunnel request or a 2xx response ("ok"), or anything else.
FrameHeaders(s) ==
  /\ PeerWrites(s)
  /\ rcv[s].hdrs = "none"
  /\ \E h \in {"ok"} \cup (IF "refusal" \in Failures THEN {"bad"} ELSE {}) :
       rcv' = [rcv EXCEPT ![s].hdrs = h]
  /\ UNCHANGED snd

FrameData(s) ==
  /\ PeerWrites(s)
  /\ rcv[s].hdrs # "none"
  /\ rcv[s].arrived < MaxDown
  /\ rcv[s].arrived - rcv[s].read < RecvWindow
  /\ rcv' = [rcv EXCEPT ![s].arrived = @ + 1]
  /\ UNCHANGED snd

FrameFin(s) ==
  /\ PeerWrites(s)
  /\ rcv[s].hdrs # "none"
  /\ rcv' = [rcv EXCEPT ![s].fin = TRUE]
  /\ UNCHANGED snd

\* RESET_STREAM
FrameReset(s) ==
  /\ "reset" \in Failures
  /\ rcv[s].hdrs # "none"
  /\ ~StreamFinished(s)
  /\ rcv' = [rcv EXCEPT ![s].reset = "arrived"]
  /\ UNCHANGED snd

\* STOP_SENDING: from here on send_body fails; quiche answers with a
\* RESET_STREAM of its own.
FrameStop(s) ==
  /\ "stop" \in Failures
  /\ snd' = [snd EXCEPT ![s].stopped = TRUE]
  /\ UNCHANGED rcv

\* MAX_STREAM_DATA / MAX_DATA / ACK: send_body can take one more byte.  The
\* byte beyond MaxUp stands for the room the closing empty frame needs.
FrameCredit(s) ==
  /\ snd[s].credit <= MaxUp
  /\ snd' = [snd EXCEPT ![s].credit = @ + 1]
  /\ UNCHANGED rcv

Network(s) ==
  /\ phase = "recv"
  /\ Opened(s)
  /\ \/ FrameHeaders(s)
     \/ FrameData(s)
     \/ FrameFin(s)
     \/ FrameReset(s)
     \/ FrameStop(s)
     \/ FrameCredit(s)
  /\ UNCHANGED <<loopVars, rx, egress, read_credit, taskVars>>

\* CONNECTION_CLOSE, idle timeout or a connection error.
ConnCloses ==
  /\ "close" \in Failures
  /\ phase = "recv"
  /\ conn_closed' = TRUE
  /\ UNCHANGED <<phase, todo, st, quicVars, rx, egress, read_credit, taskVars>>

RecvDone ==
  /\ phase = "recv"
  /\ phase' = "poll"
  /\ UNCHANGED <<todo, conn_closed, st, quicVars, rx, egress, read_credit, taskVars>>

-----------------------------------------------------------------------------
(* poll_h3: quiche's HTTP/3 events.  Data is edge-triggered: it is raised  *)
(* again only after recv_body has drained the stream (armed).              *)

HeadersEvent(s) ==
  rcv[s].hdrs \in {"ok", "bad"} /\ rcv[s].reset = "none"

BodyVisible(s) ==
  rcv[s].hdrs \in {"seen", "refused"} /\ rcv[s].reset = "none" /\ ~rcv[s].shut

DataEvent(s) == BodyVisible(s) /\ rcv[s].armed /\ rcv[s].read < rcv[s].arrived

FinishedEvent(s) ==
  BodyVisible(s) /\ ~rcv[s].fin_seen /\ rcv[s].fin /\ rcv[s].read = rcv[s].arrived

ResetEvent(s) == rcv[s].reset = "arrived" /\ ~rcv[s].shut

NoEvent == \A s \in Streams :
  ~HeadersEvent(s) /\ ~DataEvent(s) /\ ~FinishedEvent(s) /\ ~ResetEvent(s)

\* A 2xx response on the client, a tunnel request on the server, which
\* answers 200 and spawns the task that dials the upstream.
PollHeadersOk(s) ==
  /\ HeadersEvent(s)
  /\ rcv[s].hdrs = "ok"
  /\ rcv' = [rcv EXCEPT ![s].hdrs = "seen"]
  /\ IF Role = "server"
       THEN /\ ~snd[s].stopped
            /\ st' = [st EXCEPT ![s] = Tunnel]
            /\ bridge' = [bridge EXCEPT ![s].pc = "dialing"]
       ELSE UNCHANGED <<st, bridge>>
  /\ UNCHANGED snd

\* server: send_response failed, for want of room or because the peer stopped
\* the stream: it is reset and no tunnel is made.
PollHeadersUnanswered(s) ==
  /\ Role = "server"
  /\ HeadersEvent(s)
  /\ rcv[s].hdrs = "ok"
  /\ snd[s].stopped \/ "refusal" \in Failures
  /\ rcv' = [rcv EXCEPT ![s].hdrs = "refused"]
  /\ snd' = [snd EXCEPT ![s].reset = TRUE]
  /\ UNCHANGED <<st, bridge>>

\* client: a response that is not a 2xx drops the stream and stops reading it.
PollRefused(s) ==
  /\ Role = "client"
  /\ HeadersEvent(s)
  /\ rcv[s].hdrs = "bad"
  /\ rcv' = [rcv EXCEPT ![s].hdrs = "refused", ![s].shut = TRUE]
  /\ st' = [st EXCEPT ![s] = NoState]
  /\ UNCHANGED <<snd, bridge>>

\* server: a request that is not the tunnel's gets the complete 404, if there
\* is room for it.
PollNotTunnel(s) ==
  /\ Role = "server"
  /\ HeadersEvent(s)
  /\ rcv[s].hdrs = "bad"
  /\ rcv' = [rcv EXCEPT ![s].hdrs = "refused"]
  /\ \E sent \in BOOLEAN :
       /\ snd[s].stopped => ~sent
       /\ snd' = [snd EXCEPT ![s].fin = sent]
  /\ UNCHANGED <<st, bridge>>

\* mark_readable, on a stream the loop has
MarkReadable(s) == st' = [st EXCEPT ![s].readable = st[s].present]

\* The server stops reading a body nobody owns.
PollData(s) ==
  /\ DataEvent(s)
  /\ rcv' = [rcv EXCEPT ![s].armed = FALSE,
                        ![s].shut = (Role = "server" /\ ~st[s].present)]
  /\ MarkReadable(s)
  /\ UNCHANGED <<snd, bridge>>

PollFinished(s) ==
  /\ FinishedEvent(s)
  /\ rcv' = [rcv EXCEPT ![s].fin_seen = TRUE]
  /\ MarkReadable(s)
  /\ UNCHANGED <<snd, bridge>>

\* Between two frames quiche reports a reset as an event, which drops the
\* stream; inside a DATA frame it raises Data and recv_body then fails.
PollReset(s) ==
  /\ ResetEvent(s)
  /\ rcv' = [rcv EXCEPT ![s].reset = "seen"]
  /\ \/ st' = [st EXCEPT ![s] = NoState]
     \/ rcv[s].hdrs = "seen" /\ MarkReadable(s)
  /\ UNCHANGED <<snd, bridge>>

Poll(s) ==
  /\ phase = "poll"
  /\ \/ PollHeadersOk(s)
     \/ PollHeadersUnanswered(s)
     \/ PollRefused(s)
     \/ PollNotTunnel(s)
     \/ PollData(s)
     \/ PollFinished(s)
     \/ PollReset(s)
  /\ UNCHANGED <<phase, todo, conn_closed, rx, egress, read_credit, held, tcp>>

\* poll returned Done, or an error on a connection that is closing.
PollDone ==
  /\ phase = "poll"
  /\ NoEvent \/ conn_closed
  /\ phase' = "in"
  /\ todo' = {s \in Streams : st[s].present /\ st[s].readable}
  /\ UNCHANGED <<conn_closed, st, quicVars, rx, egress, read_credit, taskVars>>

-----------------------------------------------------------------------------
(* pump_inbound, one visited stream and one try_reserve at a time.         *)

Leave(s) == todo' = todo \ {s}

\* The stream is read no more; a missing sender is EOF to the bridge.
StopReading(s, sender) ==
  st' = [st EXCEPT ![s].readable = FALSE, ![s].inbound_tx = sender]

\* EOF was already signalled.
PumpInNoSender(s) ==
  /\ ~st[s].inbound_tx
  /\ StopReading(s, FALSE)
  /\ Leave(s)
  /\ UNCHANGED <<rcv, rx>>

\* Mutant: a full channel clears readable.
PumpInFullForgets(s) ==
  /\ Len(rx[s]) >= INBOUND_CHANNEL_CAP
  /\ StopReading(s, st[s].inbound_tx)
  /\ Leave(s)
  /\ UNCHANGED <<rcv, rx>>

\* The channel is full: the data stays in quiche, the stream stays readable.
PumpInFull(s) ==
  /\ st[s].inbound_tx
  /\ ReceiverAlive(s)
  /\ Len(rx[s]) >= INBOUND_CHANNEL_CAP
  /\ Leave(s)
  /\ UNCHANGED <<st, rcv, rx>>

\* The bridge is gone: stop reading this stream.
PumpInClosed(s) ==
  /\ st[s].inbound_tx
  /\ ~ReceiverAlive(s)
  /\ StopReading(s, FALSE)
  /\ rcv' = [rcv EXCEPT ![s].shut = TRUE]
  /\ Leave(s)
  /\ UNCHANGED rx

\* Mutants: an unbounded channel; a channel with one slot too many.
PermitUnbounded(s) == st[s].inbound_tx /\ ReceiverAlive(s)

PermitOneMore(s) ==
  st[s].inbound_tx /\ ReceiverAlive(s) /\ Len(rx[s]) <= INBOUND_CHANNEL_CAP

\* try_reserve granted a permit.
Permit(s) ==
  st[s].inbound_tx /\ ReceiverAlive(s) /\ Len(rx[s]) < INBOUND_CHANNEL_CAP

PumpInRecv(s) ==
  /\ Permit(s)
  /\ rcv[s].reset = "none"
  /\ rcv[s].read < rcv[s].arrived
  /\ \E n \in 1 .. Least(RECV_CHUNK, rcv[s].arrived - rcv[s].read) :
       /\ rx' = [rx EXCEPT ![s] =
                   Append(@, [lo |-> rcv[s].read, hi |-> rcv[s].read + n])]
       /\ rcv' = [rcv EXCEPT ![s].read = @ + n]
  /\ UNCHANGED <<todo, st>>

\* Mutant: a drained stream is taken for a finished one.
PumpInDoneIsEof(s) ==
  /\ Permit(s)
  /\ rcv[s].read = rcv[s].arrived
  /\ StopReading(s, FALSE)
  /\ rcv' = [rcv EXCEPT ![s].armed = TRUE]
  /\ Leave(s)
  /\ UNCHANGED rx

\* recv_body returned Done: drained, and at EOF if the fin has arrived.
PumpInDone(s) ==
  /\ Permit(s)
  /\ rcv[s].reset = "none"
  /\ rcv[s].read = rcv[s].arrived
  /\ StopReading(s, ~StreamFinished(s))
  /\ rcv' = [rcv EXCEPT ![s].armed = TRUE]
  /\ Leave(s)
  /\ UNCHANGED rx

\* recv_body failed: the peer has reset the stream.
PumpInError(s) ==
  /\ Permit(s)
  /\ rcv[s].reset # "none"
  /\ StopReading(s, FALSE)
  /\ Leave(s)
  /\ UNCHANGED <<rcv, rx>>

PumpInbound(s) ==
  /\ phase = "in"
  /\ s \in todo
  /\ \/ PumpInNoSender(s)
     \/ PumpInFull(s)
     \/ PumpInClosed(s)
     \/ PumpInRecv(s)
     \/ PumpInDone(s)
     \/ PumpInError(s)
  /\ UNCHANGED <<phase, conn_closed, snd, egress, read_credit, taskVars>>

PumpInEnd ==
  /\ phase = "in"
  /\ todo = {}
  /\ phase' = "out"
  /\ todo' = {s \in Streams : st[s].present}
  /\ UNCHANGED <<conn_closed, st, quicVars, rx, egress, read_credit, taskVars>>

-----------------------------------------------------------------------------
(* pump_outbound, one visited stream and one send_body at a time.          *)

\* Mutant: a partial send_body leaves the whole chunk in front.
PumpOutSendAgain(s) ==
  /\ st[s].pending # <<>>
  /\ ~snd[s].stopped
  /\ snd[s].off < snd[s].credit
  /\ LET front == Head(st[s].pending)
         n == Least(front.hi - front.lo, snd[s].credit - snd[s].off)
     IN /\ snd' = [snd EXCEPT ![s].intact = @ /\ front.lo = snd[s].off,
                              ![s].off = front.lo + n]
        /\ IF n = front.hi - front.lo
             THEN st' = [st EXCEPT ![s].pending = Tail(@)] /\ UNCHANGED todo
             ELSE Leave(s) /\ UNCHANGED st

\* send_body takes what the flow-control credit allows of the first chunk.
PumpOutSend(s) ==
  /\ st[s].pending # <<>>
  /\ ~snd[s].stopped
  /\ snd[s].off < snd[s].credit
  /\ LET front == Head(st[s].pending)
         n == Least(front.hi - front.lo, snd[s].credit - snd[s].off)
     IN /\ snd' = [snd EXCEPT ![s].intact = @ /\ front.lo = snd[s].off,
                              ![s].off = front.lo + n]
        /\ IF n = front.hi - front.lo
             THEN /\ st' = [st EXCEPT ![s].pending = Tail(@)]
                  /\ UNCHANGED todo
             ELSE /\ st' = [st EXCEPT ![s].pending[1].lo = @ + n]
                  /\ Leave(s)

\* Mutant: flow control is taken for a failure of the stream.
PumpOutBlockedClears(s) ==
  /\ st[s].pending # <<>>
  /\ ~snd[s].stopped
  /\ snd[s].off >= snd[s].credit
  /\ st' = [st EXCEPT ![s].pending = <<>>]
  /\ Leave(s)
  /\ UNCHANGED snd

\* send_body returned Done: the stream has no credit.
PumpOutBlocked(s) ==
  /\ st[s].pending # <<>>
  /\ ~snd[s].stopped
  /\ snd[s].off >= snd[s].credit
  /\ Leave(s)
  /\ UNCHANGED <<st, snd>>

\* send_body failed: give up on sending.
PumpOutError(s) ==
  /\ st[s].pending # <<>>
  /\ snd[s].stopped
  /\ st' = [st EXCEPT ![s].pending = <<>>, ![s].fin_sent = TRUE]
  /\ Leave(s)
  /\ UNCHANGED snd

FinOwed(s) == st[s].fin_pending /\ ~st[s].fin_sent

\* Mutants: the fin does not wait for the queued bytes; a fin quiche had no
\* room for counts as sent.
PumpOutFinEarly(s) ==
  /\ LET accepted == FinOwed(s) /\ ~snd[s].stopped /\ snd[s].off < snd[s].credit
     IN /\ st' = [st EXCEPT ![s].fin_sent = @ \/ accepted]
        /\ snd' = [snd EXCEPT ![s].fin = @ \/ accepted]
  /\ Leave(s)

\* Nothing is queued: send the owed fin, unless there is no room for it yet.
PumpOutFin(s) ==
  /\ st[s].pending = <<>>
  /\ LET accepted == FinOwed(s) /\ ~snd[s].stopped /\ snd[s].off < snd[s].credit
         failed == FinOwed(s) /\ snd[s].stopped
     IN /\ st' = [st EXCEPT ![s].fin_sent = @ \/ accepted \/ failed]
        /\ snd' = [snd EXCEPT ![s].fin = @ \/ accepted]
  /\ Leave(s)

PumpOutbound(s) ==
  /\ phase = "out"
  /\ s \in todo
  /\ \/ PumpOutSend(s)
     \/ PumpOutBlocked(s)
     \/ PumpOutError(s)
     \/ PumpOutFin(s)
  /\ UNCHANGED <<phase, conn_closed, rcv, rx, egress, read_credit, taskVars>>

PumpOutEnd ==
  /\ phase = "out"
  /\ todo = {}
  /\ phase' = "reap"
  /\ UNCHANGED <<todo, conn_closed, st, quicVars, rx, egress, read_credit, taskVars>>

-----------------------------------------------------------------------------
(* reap_streams, flush_packets and the end of the turn.                    *)

\* Mutant: the owed fin does not hold the reaper back.
DrainedNoFin(s) == st[s].pending = <<>>

Drained(s) ==
  st[s].pending = <<>> /\ (~st[s].fin_pending \/ st[s].fin_sent)

Reapable(s) == st[s].present /\ st[s].closed /\ Drained(s)

\* Mutant: a stream is dropped without a reset.
ReapStreamsSilently ==
  /\ phase = "reap"
  /\ st' = [s \in Streams |->
              IF Reapable(s) \/ conn_closed THEN NoState ELSE st[s]]
  /\ phase' = IF conn_closed THEN "gone" ELSE "select"
  /\ egress' = IF conn_closed /\ Role = "client" THEN <<>> ELSE egress
  /\ UNCHANGED <<todo, conn_closed, quicVars, rx, read_credit, taskVars>>

\* A stream whose fin never went out is reset, one not read to its end is
\* stopped.  A closed connection is dropped with all its StreamStates, and
\* the client's session takes egress_rx with it.
ReapStreams ==
  /\ phase = "reap"
  /\ st' = [s \in Streams |->
              IF Reapable(s) \/ conn_closed THEN NoState ELSE st[s]]
  /\ snd' = [s \in Streams |->
              [snd[s] EXCEPT !.reset = @ \/ (Reapable(s) /\ ~st[s].fin_sent)]]
  /\ rcv' = [s \in Streams |->
              [rcv[s] EXCEPT !.shut = @ \/ (Reapable(s) /\ ~StreamFinished(s))]]
  /\ phase' = IF conn_closed THEN "gone" ELSE "select"
  /\ egress' = IF conn_closed /\ Role = "client" THEN <<>> ELSE egress
  /\ UNCHANGED <<todo, conn_closed, rx, read_credit, taskVars>>

-----------------------------------------------------------------------------
(* The bridge task of a stream.                                            *)

Msg(s, out, lo, hi) ==
  [stream |-> s, out |-> out, chunk |-> [lo |-> lo, hi |-> hi]]

\* What a task sends on the egress channel waits for a free slot; a send to
\* a receiver that is gone fails at once.
Send(msg) == EgressRoom /\ egress' = Append(egress, msg)
SendIgnored == ~EgressOpen /\ UNCHANGED egress

\* server: net::connect succeeded.
DialOk(s) ==
  /\ bridge[s].pc = "dialing"
  /\ bridge' = [bridge EXCEPT ![s].pc = "copying"]
  /\ UNCHANGED <<rx, egress, read_credit, held, tcp>>

\* copy_bidirectional has returned, or never ran: drop(stream) releases the
\* inbound channel and whatever was in it; the close notice is now owed.
DropStream(s, failed) ==
  /\ bridge' = [bridge EXCEPT ![s].pc = "closing", ![s].failed = failed]
  /\ rx' = [rx EXCEPT ![s] = <<>>]
  /\ held' = [held EXCEPT ![s] = Nothing]
  /\ UNCHANGED <<egress, read_credit, tcp>>

DialFail(s) ==
  /\ "local" \in Failures
  /\ bridge[s].pc = "dialing"
  /\ DropStream(s, TRUE)

Copying(s) == bridge[s].pc = "copying"
CopiesUp(s) == Copying(s) /\ bridge[s].up = "open"
CopiesDown(s) == Copying(s) /\ bridge[s].down = "open"

\* TCP to QUIC: poll_write reserves a slot and sends the bytes just read.
CopyUp(s) ==
  /\ CopiesUp(s)
  /\ \E n \in 1 .. COPY_BUF :
       /\ tcp[s].read + n <= MaxUp
       /\ Send(Msg(s, "Data", tcp[s].read, tcp[s].read + n))
       /\ tcp' = [tcp EXCEPT ![s].read = @ + n]
  /\ UNCHANGED <<rx, read_credit, bridge, held>>

\* The local peer closed its side: poll_shutdown queues the one Fin, or
\* ignores that the loop is gone.
ShutdownUp(s) ==
  /\ CopiesUp(s)
  /\ Send(Msg(s, "Fin", 0, 0)) \/ SendIgnored
  /\ bridge' = [bridge EXCEPT ![s].up = "done"]
  /\ UNCHANGED <<rx, read_credit, held, tcp>>

HeldEmpty(s) == held[s].lo = held[s].hi

\* Mutant: a freed slot is not notified.
PopRxSilently(s) ==
  /\ CopiesDown(s)
  /\ HeldEmpty(s)
  /\ rx[s] # <<>>
  /\ held' = [held EXCEPT ![s] = Head(rx[s])]
  /\ rx' = [rx EXCEPT ![s] = Tail(@)]
  /\ UNCHANGED <<egress, read_credit, bridge, tcp>>

\* QUIC to TCP: poll_read pops a chunk and notifies the freed slot.
PopRx(s) ==
  /\ CopiesDown(s)
  /\ HeldEmpty(s)
  /\ rx[s] # <<>>
  /\ held' = [held EXCEPT ![s] = Head(rx[s])]
  /\ rx' = [rx EXCEPT ![s] = Tail(@)]
  /\ read_credit' = TRUE
  /\ UNCHANGED <<egress, bridge, tcp>>

\* Mutant: a partial write drops the rest of the chunk.
WriteTcpShort(s) ==
  /\ Copying(s)
  /\ \E n \in 1 .. (held[s].hi - held[s].lo) :
       tcp' = [tcp EXCEPT ![s].intact = @ /\ held[s].lo = tcp[s].wrote,
                          ![s].wrote = held[s].lo + n]
  /\ held' = [held EXCEPT ![s] = Nothing]
  /\ UNCHANGED <<rx, egress, read_credit, bridge>>

\* The socket takes some of the popped bytes.
WriteTcp(s) ==
  /\ Copying(s)
  /\ \E n \in 1 .. (held[s].hi - held[s].lo) :
       /\ tcp' = [tcp EXCEPT ![s].intact = @ /\ held[s].lo = tcp[s].wrote,
                             ![s].wrote = held[s].lo + n]
       /\ held' = [held EXCEPT ![s].lo = @ + n]
  /\ UNCHANGED <<rx, egress, read_credit, bridge>>

\* poll_read reported EOF: the socket's write side is shut down.
ShutdownTcp(s) ==
  /\ CopiesDown(s)
  /\ HeldEmpty(s)
  /\ rx[s] = <<>>
  /\ SenderGone(s)
  /\ bridge' = [bridge EXCEPT ![s].down = "done"]
  /\ tcp' = [tcp EXCEPT ![s].shut = TRUE]
  /\ UNCHANGED <<rx, egress, read_credit, held>>

BothDone(s) == bridge[s].up = "done" /\ bridge[s].down = "done"

CopyDone(s) ==
  /\ Copying(s)
  /\ BothDone(s)
  /\ DropStream(s, FALSE)

\* An error of the local socket, or a write after the client's loop has
\* gone, aborts both directions at once.
CopyError(s) ==
  /\ Copying(s)
  /\ ~BothDone(s)
  /\ "local" \in Failures \/ (~EgressOpen /\ CopiesUp(s))
  /\ DropStream(s, TRUE)

SendClosed(s) ==
  /\ bridge[s].pc = "closing"
  /\ Send(Msg(s, "Closed", 0, 0)) \/ SendIgnored
  /\ bridge' = [bridge EXCEPT ![s].pc = "done"]
  /\ UNCHANGED <<rx, read_credit, held, tcp>>

Bridge(s) ==
  /\ \/ DialOk(s)
     \/ DialFail(s)
     \/ CopyUp(s)
     \/ ShutdownUp(s)
     \/ PopRx(s)
     \/ WriteTcp(s)
     \/ ShutdownTcp(s)
     \/ CopyDone(s)
     \/ CopyError(s)
     \/ SendClosed(s)
  /\ UNCHANGED <<loopVars, quicVars>>

-----------------------------------------------------------------------------
\* What the loop does by itself once select! has returned.
Turn ==
  \/ RecvDone
  \/ PollDone
  \/ PumpInEnd
  \/ PumpOutEnd
  \/ ReapStreams
  \/ \E s \in Streams : Poll(s) \/ PumpInbound(s) \/ PumpOutbound(s)

Loop ==
  \/ SelectUdp
  \/ SelectEgress
  \/ SelectEgressUnknown
  \/ SelectCredit
  \/ UdpError
  \/ Turn

Next ==
  \/ Loop
  \/ ConnCloses
  \/ \E s \in Streams : OpenStream(s) \/ Network(s) \/ Bridge(s)

Spec == Init /\ [][Next]_vars

\* Fairness of the tasks.  tokio polls every woken task again, so a bridge
\* step that stays possible is taken, and the loop finishes the turn it is
\* in.  select! picks at random among the ready branches, so a branch that is
\* ready again and again is taken: strong fairness.  CopyError, DialFail,
\* UdpError and the local peer's own actions (CopyUp, ShutdownUp) have none.
LoopFairness ==
  /\ WF_vars(Turn)
  /\ SF_vars(SelectEgress)
  /\ SF_vars(SelectCredit)
  /\ WF_vars(SelectEgressUnknown)

BridgeFairness(s) ==
  /\ WF_vars(Bridge(s) /\ DialOk(s))
  /\ WF_vars(Bridge(s) /\ (PopRx(s) \/ WriteTcp(s) \/ ShutdownTcp(s)))
  /\ WF_vars(Bridge(s) /\ CopyDone(s))
  /\ SF_vars(Bridge(s) /\ SendClosed(s))

\* A peer that goes on reading opens the window of a stream that is blocked,
\* and its datagram wakes the loop; nothing else the peer sends is relied on.
AwaitsCredit == \E s \in Streams :
  st[s].pending # <<>> \/ (st[s].fin_pending /\ ~st[s].fin_sent)
PeerReads ==
  /\ WF_vars(AwaitsCredit /\ SelectUdp)
  /\ \A s \in Streams : SF_vars(Network(s) /\ FrameCredit(s))

FairSpec ==
  /\ Spec
  /\ LoopFairness
  /\ \A s \in Streams : BridgeFairness(s)

FairSpecPeerReads == FairSpec /\ PeerReads

-----------------------------------------------------------------------------
(* Safety.                                                                 *)

\* What the local TCP peer receives is a prefix of what the QUIC peer sent,
\* whatever the interleaving of recv_body, the inbound channel, rx_buf and
\* partial socket writes: no byte is lost, repeated or overtaken.
InboundInOrder == \A s \in Streams :
  tcp[s].intact /\ tcp[s].wrote <= rcv[s].read

\* What quiche is given to send is a prefix of what the local peer sent, across
\* the shared egress channel, the pending queue and partial send_body calls.
OutboundInOrder == \A s \in Streams :
  snd[s].intact /\ snd[s].off <= tcp[s].read

\* The inbound half was ended by something other than the peer's fin.
Cut(s) ==
  \/ rcv[s].reset # "none"
  \/ rcv[s].hdrs = "refused"
  \/ phase = "gone"

\* reap_streams resets a stream only when its bridge aborted: the close
\* notice never overtakes the Fin of a bridge that ended cleanly.
ResetOnlyAfterFailure == \A s \in Streams :
  snd[s].reset /\ rcv[s].hdrs # "refused" => bridge[s].failed

\* Once the bridge of s is done and the loop has dropped s, the peer is not
\* left with a half-open stream: each half was finished, reset or stopped.
ReapedIsTerminated == \A s \in Streams :
  /\ bridge[s].pc = "done"
  /\ ~st[s].present
  /\ ~Cut(s)
  => /\ snd[s].fin \/ snd[s].reset \/ snd[s].stopped
     /\ StreamFinished(s) \/ rcv[s].shut

\* When the loop waits in select! and a stream was left readable although
\* its channel now has room, the Notify holds the permit that will make the
\* loop retry.  The retry of pump_inbound has no other trigger.
NoLostWakeup == \A s \in Streams :
  /\ phase = "select"
  /\ st[s].present /\ st[s].readable
  /\ ReceiverAlive(s)
  /\ Len(rx[s]) < INBOUND_CHANNEL_CAP
  => read_credit

\* Back-pressure reaches the QUIC peer: the bytes accepted from it and not yet
\* written to the local socket are bounded by the flow-control window, the
\* channel and the one chunk the bridge works on.
InboundBounded == \A s \in Streams :
  ReceiverAlive(s) =>
    rcv[s].arrived - tcp[s].wrote
      <= RecvWindow + (INBOUND_CHANNEL_CAP + 1) * RECV_CHUNK

\* The two directions as the lossless pipes the programs at their ends expect.
InboundHalf == INSTANCE StreamPipe WITH
  sent <- [s \in Streams |-> rcv[s].arrived],
  received <- [s \in Streams |-> tcp[s].wrote],
  ended <- [s \in Streams |-> rcv[s].fin],
  eof <- [s \in Streams |-> tcp[s].shut],
  broken <- [s \in Streams |-> Cut(s)]

OutboundHalf == INSTANCE StreamPipe WITH
  sent <- [s \in Streams |-> tcp[s].read],
  received <- [s \in Streams |-> snd[s].off],
  ended <- [s \in Streams |-> bridge[s].up = "done"],
  eof <- [s \in Streams |-> snd[s].fin /\ bridge[s].pc # "none"],
  broken <- [s \in Streams |-> FALSE]

\* QUIC to TCP implements a lossless pipe that a reset, a refusal or the end
\* of the connection may cut: the receive path from stream_recv over the
\* inbound channel to the socket.
InboundIsPipe == InboundHalf!Spec

\* TCP to QUIC implements a lossless pipe whose end is never announced to the
\* peer before everything was: the path from the socket over the egress
\* channel and pending to send_body.
OutboundIsPipe == OutboundHalf!Spec

\* What reap_streams is for: the peer "isn't left waiting on a half-open
\* tunnel" once the bridge is done and the stream forgotten, here for a CONNECT
\* that was refused.
RefusedIsTerminated == \A s \in Streams :
  /\ bridge[s].pc = "done"
  /\ rcv[s].hdrs = "refused"
  /\ phase # "gone"
  /\ egress = <<>>
  => snd[s].fin \/ snd[s].reset \/ snd[s].stopped

-----------------------------------------------------------------------------
(* Liveness.                                                               *)

\* A finished bridge is always reaped, if the peer keeps reading: the entry
\* of `streams` does not leak until the connection goes away.
BridgeIsReaped == \A s \in Streams :
  bridge[s].pc = "done" ~> ~st[s].present

\* Bytes of the QUIC peer, and its fin, reach the local socket although the
\* inbound channel was full on the way and quiche raised its events only once.
Abandoned(s) == ~ReceiverAlive(s) \/ Cut(s)
InboundIsDelivered == \A s \in Streams :
  /\ \A n \in 1 .. MaxDown :
       rcv[s].arrived >= n /\ rcv[s].hdrs = "seen" ~> tcp[s].wrote >= n \/ Abandoned(s)
  /\ rcv[s].hdrs = "seen" /\ rcv[s].fin ~> bridge[s].down = "done" \/ ~ReceiverAlive(s)

\* Bytes of the local peer, and its end, reach quiche if the QUIC peer keeps
\* opening the window, unless the stream is dropped or stopped.
OutboundIsDelivered == \A s \in Streams :
  /\ \A n \in 1 .. MaxUp :
       tcp[s].read >= n ~> snd[s].off >= n \/ snd[s].stopped \/ ~st[s].present
  /\ bridge[s].up = "done" ~> snd[s].fin \/ snd[s].stopped \/ ~st[s].present

=============================================================================
