--------------------------- MODULE QuicPipeProofs ---------------------------
(***************************************************************************)
(* QuicTunnel implements StreamPipe in both directions; what becomes of a  *)
(* tunnel when its bridge is done, and how much may pile up before: for    *)
(* any set of streams, any capacities, any bounds and any failures.        *)
(***************************************************************************)
EXTENDS QuicTunnelProofs

-----------------------------------------------------------------------------
(* The receiving half only moves on.                                       *)

\* What no step takes back of what quiche received on s.
MovesOn(s) ==
  /\ rcv[s].reset # "none" => rcv'[s].reset # "none"
  /\ rcv[s].hdrs = "refused" => rcv'[s].hdrs = "refused"
  /\ rcv[s].fin => rcv'[s].fin /\ rcv'[s].arrived = rcv[s].arrived
  /\ rcv[s].read <= rcv[s].arrived => rcv'[s].read <= rcv'[s].arrived
  /\ rcv[s].read = rcv[s].arrived /\ rcv[s].fin => rcv'[s].read = rcv'[s].arrived

\* A datagram.
LEMMA NetworkMovesOn ==
  ASSUME TypeOK, NEW s \in Streams, NEW t \in Streams, Network(t)
  PROVE  MovesOn(s)
<1>0. rcv \in [Streams -> ReceivingHalf]
  BY DEF TypeOK
<1>1. CASE FrameHeaders(t)
  BY <1>0, <1>1 DEF FrameHeaders, MovesOn, ReceivingHalf
<1>2. CASE FrameData(t)
  BY <1>0, <1>2 DEF FrameData, PeerWrites, MovesOn, ReceivingHalf
<1>3. CASE FrameFin(t)
  BY <1>0, <1>3 DEF FrameFin, MovesOn, ReceivingHalf
<1>4. CASE FrameReset(t)
  BY <1>0, <1>4 DEF FrameReset, MovesOn, ReceivingHalf
<1>5. CASE FrameStop(t) \/ FrameCredit(t)
  BY <1>5 DEF FrameStop, FrameCredit, MovesOn
<1> QED BY <1>1, <1>2, <1>3, <1>4, <1>5 DEF Network

\* An event of poll_h3.
LEMMA PollMovesOn ==
  ASSUME TypeOK, NEW s \in Streams, NEW t \in Streams, Poll(t)
  PROVE  MovesOn(s)
<1>0. rcv \in [Streams -> ReceivingHalf]
  BY DEF TypeOK
<1>1. CASE PollHeadersOk(t)
  BY <1>0, <1>1 DEF PollHeadersOk, MovesOn, ReceivingHalf
<1>2. CASE PollHeadersUnanswered(t) \/ PollNotTunnel(t)
  BY <1>0, <1>2 DEF PollHeadersUnanswered, PollNotTunnel, MovesOn, ReceivingHalf
<1>3. CASE PollRefused(t)
  BY <1>0, <1>3 DEF PollRefused, MovesOn, ReceivingHalf
<1>4. CASE PollData(t)
  BY <1>0, <1>4 DEF PollData, MovesOn, ReceivingHalf
<1>5. CASE PollFinished(t) \/ PollReset(t)
  BY <1>0, <1>5 DEF PollFinished, PollReset, MovesOn, ReceivingHalf
<1> QED BY <1>1, <1>2, <1>3, <1>4, <1>5 DEF Poll

\* A visit of pump_inbound: recv_body returns what has arrived, no more.
LEMMA PumpMovesOn ==
  ASSUME TypeOK, NEW s \in Streams, NEW t \in Streams, PumpInbound(t)
  PROVE  MovesOn(s)
<1>0. rcv \in [Streams -> ReceivingHalf]
  BY DEF TypeOK
<1>1. CASE PumpInRecv(t)
  <2>1. PICK n \in 1 .. Least(RECV_CHUNK, rcv[t].arrived - rcv[t].read) :
          rcv' = [rcv EXCEPT ![t].read = @ + n]
    BY <1>1 DEF PumpInRecv
  <2>2. /\ rcv[t].arrived \in Nat /\ rcv[t].read \in Nat /\ n \in Nat
        /\ rcv[t].read < rcv[t].arrived
    BY <1>0, <1>1, <2>1 DEF ReceivingHalf, PumpInRecv
  <2>3. rcv[t].read + n <= rcv[t].arrived
    BY <2>1, <2>2, QuicTunnelAssumption DEF Least
  <2> QED BY <1>0, <2>1, <2>2, <2>3 DEF MovesOn, ReceivingHalf
<1>2. CASE PumpInClosed(t)
  BY <1>0, <1>2 DEF PumpInClosed, MovesOn, ReceivingHalf
<1>3. CASE PumpInDone(t)
  BY <1>0, <1>3 DEF PumpInDone, MovesOn, ReceivingHalf
<1>4. CASE PumpInNoSender(t) \/ PumpInFull(t) \/ PumpInError(t)
  BY <1>4 DEF PumpInNoSender, PumpInFull, PumpInError, MovesOn
<1> QED BY <1>1, <1>2, <1>3, <1>4 DEF PumpInbound

LEMMA EveryStepMovesOn ==
  ASSUME TypeOK, [Next]_vars, NEW s \in Streams
  PROVE  MovesOn(s)
<1>1. CASE rcv' = rcv
  BY <1>1 DEF MovesOn
<1>2. CASE ReapStreams
  BY <1>2 DEF ReapStreams, MovesOn, TypeOK, ReceivingHalf
<1>3. ASSUME NEW t \in Streams, Network(t) \/ Poll(t) \/ PumpInbound(t)
      PROVE  MovesOn(s)
  BY <1>3, NetworkMovesOn, PollMovesOn, PumpMovesOn
<1>4. ASSUME NEW t \in Streams, Bridge(t) \/ PumpOutbound(t) \/ OpenStream(t)
      PROVE  rcv' = rcv
  BY <1>4 DEF Bridge, PumpOutbound, OpenStream, quicVars
<1>5. CASE \/ UNCHANGED vars \/ SelectUdp \/ SelectEgress \/ SelectEgressUnknown
           \/ SelectCredit \/ UdpError \/ RecvDone \/ PollDone \/ PumpInEnd
           \/ PumpOutEnd \/ ConnCloses
  BY <1>1, <1>5 DEF vars, quicVars, SelectUdp, SelectEgress, SelectEgressUnknown,
     SelectCredit, UdpError, RecvDone, PollDone, PumpInEnd, PumpOutEnd, ConnCloses
<1> QED BY <1>1, <1>2, <1>3, <1>4, <1>5 DEF Next, Loop, Turn

\* A connection that is gone stays gone.
LEMMA GoneForGood ==
  ASSUME TypeOK, [Next]_vars, phase = "gone"
  PROVE  phase' = "gone"
<1>1. ASSUME NEW t \in Streams,
             \/ Network(t) \/ Poll(t) \/ PumpInbound(t) \/ PumpOutbound(t)
             \/ OpenStream(t) \/ Bridge(t)
      PROVE  phase' = "gone"
  BY <1>1 DEF Network, Poll, PumpInbound, PumpOutbound, OpenStream, Bridge, loopVars
<1> QED BY <1>1 DEF Next, Loop, Turn, vars, loopVars, SelectUdp, SelectEgress,
           SelectEgressUnknown, SelectCredit, UdpError, RecvDone, PollDone, PumpInEnd,
           PumpOutEnd, ConnCloses, ReapStreams

LEMMA CutForGood ==
  ASSUME TypeOK, [Next]_vars, NEW s \in Streams, Cut(s)
  PROVE  Cut(s)'
BY EveryStepMovesOn, GoneForGood DEF Cut, MovesOn

-----------------------------------------------------------------------------
(* What the local peer is told of the end.                                 *)

\* The peer of s has nothing more to give, or its stream was cut.
InboundOver(s) ==
  Cut(s) \/ (rcv[s].fin /\ rcv[s].read = rcv[s].arrived)

\* The socket is shut down once, with nothing left to write.  A close notice
\* reaches the loop only from a bridge that is done, so that a bridge that
\* reads loses its sender in pump_inbound or to a cut, never to the reaper.
InboundEnd(s) ==
  /\ rcv[s].read <= rcv[s].arrived
  /\ tcp[s].shut => bridge[s].down = "done"
  /\ bridge[s].down = "done" => HeldEmpty(s)
  /\ st[s].closed => bridge[s].pc = "done"
  /\ \A i \in 1 .. Len(egress) :
       egress[i].stream = s /\ egress[i].out = "Closed" => bridge[s].pc = "done"
  /\ ReceiverAlive(s) /\ SenderGone(s) => InboundOver(s)

InboundEndInv == \A s \in Streams : InboundEnd(s)

LEMMA InboundEndInit == Init => InboundEndInv
<1> SUFFICES ASSUME Init, NEW s \in Streams PROVE InboundEnd(s)
  BY DEF InboundEndInv
<1>1. /\ rcv[s].read = 0 /\ rcv[s].arrived = 0 /\ ~tcp[s].shut /\ ~st[s].closed
      /\ bridge[s].down = "open" /\ bridge[s].pc = "none" /\ Len(egress) = 0
  BY DEF Init, NoState
<1> QED BY <1>1 DEF InboundEnd, ReceiverAlive

LEMMA OverForGood ==
  ASSUME TypeOK, [Next]_vars, NEW s \in Streams, InboundOver(s)
  PROVE  InboundOver(s)'
BY CutForGood, EveryStepMovesOn DEF InboundOver, MovesOn

\* A step that takes nothing of this away from s.
LEMMA InboundEndUnmoved ==
  ASSUME TypeOK, [Next]_vars, NEW s \in Streams, InboundEnd(s),
         tcp'[s].shut = tcp[s].shut, held'[s] = held[s], bridge'[s] = bridge[s],
         st'[s].closed => st[s].closed,
         (SenderGone(s))' => SenderGone(s) \/ ~ReceiverAlive(s) \/ InboundOver(s)',
         \A i \in 1 .. Len(egress') : \E j \in 1 .. Len(egress) : egress'[i] = egress[j]
  PROVE  InboundEnd(s)'
<1>1. rcv'[s].read <= rcv'[s].arrived
  BY EveryStepMovesOn DEF MovesOn, InboundEnd
<1>2. ReceiverAlive(s)' /\ SenderGone(s)' => InboundOver(s)'
  BY OverForGood DEF InboundEnd, ReceiverAlive
<1> QED BY <1>1, <1>2 DEF InboundEnd, HeldEmpty

\* A bridge announces its close as its last act, and shuts the socket down
\* with nothing held.
LEMMA InboundEndBridge ==
  ASSUME TypeOK, [Next]_vars, InboundEndInv, NEW t \in Streams, Bridge(t)
  PROVE  InboundEndInv'
<1> SUFFICES ASSUME NEW s \in Streams PROVE InboundEnd(s)'
  BY DEF InboundEndInv
<1>0. /\ InboundEnd(s) /\ UNCHANGED <<phase, st, rcv>>
      /\ bridge \in [Streams -> BridgeTask] /\ tcp \in [Streams -> LocalSocket]
      /\ held \in [Streams -> Chunk] /\ egress \in Seq(Message)
  BY DEF InboundEndInv, Bridge, loopVars, quicVars, TypeOK
<1>1. CASE DialOk(t)
  <2>1. /\ UNCHANGED <<egress, held, tcp>>
        /\ bridge'[s].down = bridge[s].down
        /\ bridge'[s].pc = "done" <=> bridge[s].pc = "done"
        /\ ReceiverAlive(s)' <=> ReceiverAlive(s)
    BY <1>0, <1>1 DEF DialOk, BridgeTask, ReceiverAlive
  <2> QED BY <1>0, <2>1 DEF InboundEnd, HeldEmpty, SenderGone, InboundOver, Cut
<1>2. CASE DialFail(t) \/ CopyDone(t) \/ CopyError(t)
  <2>1. PICK failed : DropStream(t, failed)
    BY <1>2 DEF DialFail, CopyDone, CopyError
  <2>2. bridge[t].pc # "done"
    BY <1>2 DEF DialFail, CopyDone, CopyError, Copying
  <2>3. /\ UNCHANGED <<egress, tcp>>
        /\ bridge'[s].down = bridge[s].down
        /\ held'[s] = held[s] \/ held'[s] = Nothing
        /\ bridge[s].pc = "done" => bridge'[s].pc = "done"
        /\ ReceiverAlive(s)' => ReceiverAlive(s)
    BY <1>0, <2>1, <2>2 DEF DropStream, BridgeTask, ReceiverAlive
  <2> QED BY <1>0, <2>3 DEF InboundEnd, HeldEmpty, Nothing, SenderGone, InboundOver, Cut
<1>3. CASE CopyUp(t)
  <2>1. PICK n \in 1 .. COPY_BUF :
          /\ egress' = Append(egress, Msg(t, "Data", tcp[t].read, tcp[t].read + n))
          /\ tcp' = [tcp EXCEPT ![t].read = @ + n]
    BY <1>3 DEF CopyUp, Send
  <2>2. UNCHANGED <<bridge, held>> /\ tcp'[s].shut = tcp[s].shut
    BY <1>0, <1>3, <2>1 DEF CopyUp, LocalSocket
  <2>3. \A i \in 1 .. Len(egress') :
          egress'[i].out = "Closed" => i \in 1 .. Len(egress) /\ egress'[i] = egress[i]
    BY <1>0, <2>1 DEF Msg
  <2> QED BY <1>0, <2>2, <2>3 DEF InboundEnd, HeldEmpty, ReceiverAlive, SenderGone,
             InboundOver, Cut
<1>4. CASE ShutdownUp(t)
  <2>1. /\ UNCHANGED <<held, tcp>>
        /\ bridge'[s].down = bridge[s].down /\ bridge'[s].pc = bridge[s].pc
    BY <1>0, <1>4 DEF ShutdownUp, BridgeTask
  <2>2. \A i \in 1 .. Len(egress') :
          egress'[i].out = "Closed" => i \in 1 .. Len(egress) /\ egress'[i] = egress[i]
    BY <1>0, <1>4 DEF ShutdownUp, Send, SendIgnored, Msg
  <2> QED BY <1>0, <2>1, <2>2 DEF InboundEnd, HeldEmpty, ReceiverAlive, SenderGone,
             InboundOver, Cut
<1>5. CASE PopRx(t)
  <2>1. UNCHANGED <<egress, bridge, tcp>> /\ (bridge[s].down = "done" => held'[s] = held[s])
    BY <1>0, <1>5 DEF PopRx, CopiesDown
  <2> QED BY <1>0, <2>1 DEF InboundEnd, HeldEmpty, ReceiverAlive, SenderGone,
             InboundOver, Cut
<1>6. CASE WriteTcp(t)
  <2>1. /\ UNCHANGED <<egress, bridge>> /\ tcp'[s].shut = tcp[s].shut
        /\ HeldEmpty(s) => held'[s] = held[s]
    <3>1. PICK n \in 1 .. (held[t].hi - held[t].lo) :
            /\ tcp' = [tcp EXCEPT ![t].intact = @ /\ held[t].lo = tcp[t].wrote,
                                  ![t].wrote = held[t].lo + n]
            /\ held' = [held EXCEPT ![t].lo = @ + n]
      BY <1>6 DEF WriteTcp
    <3>2. held[t].lo \in Nat /\ held[t].hi \in Nat
      BY <1>0 DEF Chunk
    <3>3. held[t].lo # held[t].hi
      BY <3>1, <3>2
    <3> QED BY <1>0, <1>6, <3>1, <3>3 DEF WriteTcp, LocalSocket, HeldEmpty
  <2> QED BY <1>0, <2>1 DEF InboundEnd, HeldEmpty, ReceiverAlive, SenderGone,
             InboundOver, Cut
<1>7. CASE ShutdownTcp(t)
  <2>1. /\ UNCHANGED <<egress, held>> /\ bridge'[s].pc = bridge[s].pc
        /\ s # t => bridge'[s] = bridge[s] /\ tcp'[s] = tcp[s]
        /\ s = t => bridge'[s].down = "done" /\ HeldEmpty(s)
    BY <1>0, <1>7 DEF ShutdownTcp, BridgeTask, LocalSocket
  <2> QED BY <1>0, <2>1 DEF InboundEnd, HeldEmpty, ReceiverAlive, SenderGone,
             InboundOver, Cut
<1>8. CASE SendClosed(t)
  <2>1. /\ UNCHANGED <<held, tcp>> /\ bridge'[s].down = bridge[s].down
        /\ bridge[s].pc = "done" => bridge'[s].pc = "done"
        /\ ReceiverAlive(s)' => ReceiverAlive(s)
        /\ bridge'[t].pc = "done"
    BY <1>0, <1>8 DEF SendClosed, BridgeTask, ReceiverAlive
  <2>2. \A i \in 1 .. Len(egress') :
          \/ egress'[i].stream = t
          \/ i \in 1 .. Len(egress) /\ egress'[i] = egress[i]
    BY <1>0, <1>8 DEF SendClosed, Send, SendIgnored, Msg
  <2> QED BY <1>0, <2>1, <2>2 DEF InboundEnd, HeldEmpty, SenderGone, InboundOver, Cut
<1> QED BY <1>1, <1>2, <1>3, <1>4, <1>5, <1>6, <1>7, <1>8 DEF Bridge

\* The loop takes a message off the channel.
LEMMA InboundEndSelect ==
  ASSUME TypeOK, [Next]_vars, InboundEndInv, SelectEgress
  PROVE  InboundEndInv'
<1> SUFFICES ASSUME NEW s \in Streams PROVE InboundEnd(s)'
  BY DEF InboundEndInv
<1> DEFINE m == Head(egress)
<1>0. /\ InboundEnd(s) /\ UNCHANGED <<rcv, rx, bridge, held, tcp>> /\ phase # "gone"
      /\ egress \in Seq(Message) /\ egress # <<>> /\ m \in Message
      /\ st \in [Streams -> StreamState]
  BY DEF InboundEndInv, SelectEgress, quicVars, taskVars, TypeOK
<1>1. /\ egress' = Tail(egress) /\ m = egress[1]
      /\ st' = [st EXCEPT ![m.stream] = IF @.present THEN Queue(@, m) ELSE @]
  BY <1>0 DEF SelectEgress
<1>2. \A i \in 1 .. Len(egress') : \E j \in 1 .. Len(egress) : egress'[i] = egress[j]
  BY <1>0, <1>1
<1>3. m.stream \in Streams /\ m.out \in {"Data", "Fin", "Closed"}
  BY <1>0 DEF Message
<1>4. /\ st'[s].present = st[s].present /\ st'[s].inbound_tx = st[s].inbound_tx
      /\ st'[s].closed => st[s].closed \/ (m.stream = s /\ m.out = "Closed")
  <2> HIDE DEF m
  <2>1. CASE m.stream = s /\ st[s].present
    <3>1. st'[s] = Queue(st[s], m)
      BY <1>0, <1>1, <2>1
    <3> QED BY <1>0, <1>3, <2>1, <3>1 DEF Queue, StreamState
  <2>2. CASE ~(m.stream = s /\ st[s].present)
    <3>1. st'[s] = st[s]
      BY <1>0, <1>1, <1>3, <2>2
    <3> QED BY <3>1
  <2> QED BY <2>1, <2>2
<1>5. SenderGone(s)' => SenderGone(s)
  BY <1>4 DEF SenderGone
<1>6. 1 \in 1 .. Len(egress)
  BY <1>0
<1>7. st'[s].closed => bridge[s].pc = "done"
  BY <1>0, <1>1, <1>4, <1>6 DEF InboundEnd
<1>8. \A i \in 1 .. Len(egress') :
        egress'[i].stream = s /\ egress'[i].out = "Closed" => bridge[s].pc = "done"
  BY <1>0, <1>2 DEF InboundEnd
<1>9. InboundOver(s) => InboundOver(s)'
  BY OverForGood
<1> QED BY <1>0, <1>5, <1>7, <1>8, <1>9 DEF InboundEnd, HeldEmpty, ReceiverAlive

\* poll_h3 takes a sender away only from a stream that was refused or reset.
LEMMA InboundEndPoll ==
  ASSUME TypeOK, [Next]_vars, ChainInv, InboundEndInv, NEW t \in Streams, Poll(t)
  PROVE  InboundEndInv'
<1> SUFFICES ASSUME NEW s \in Streams PROVE InboundEnd(s)'
  BY DEF InboundEndInv
<1>0. /\ InboundEnd(s) /\ UNCHANGED <<phase, rx, egress, held, tcp>>
      /\ st \in [Streams -> StreamState] /\ rcv \in [Streams -> ReceivingHalf]
      /\ bridge \in [Streams -> BridgeTask]
  BY DEF InboundEndInv, Poll, TypeOK
<1>1. CASE PollHeadersOk(t) /\ Role = "server"
  <2>1. /\ st' = [st EXCEPT ![t] = Tunnel]
        /\ bridge' = [bridge EXCEPT ![t].pc = "dialing"] /\ bridge[t].pc = "none"
    BY <1>1 DEF PollHeadersOk, ChainInv, InboundChain
  <2>2. CASE s # t
    <3>1. st'[s] = st[s] /\ bridge'[s] = bridge[s]
      BY <1>0, <2>1, <2>2
    <3>2. SenderGone(s)' => SenderGone(s)
      BY <3>1 DEF SenderGone
    <3> QED BY <1>0, <3>1, <3>2, InboundEndUnmoved
  <2>3. CASE s = t
    <3>1. /\ ~st'[s].closed /\ ~SenderGone(s)'
          /\ bridge'[s].down = bridge[s].down /\ bridge[s].pc # "done"
      BY <1>0, <2>1, <2>3 DEF Tunnel, NoState, SenderGone, BridgeTask
    <3>2. rcv'[s].read <= rcv'[s].arrived
      BY <1>0, EveryStepMovesOn DEF MovesOn, InboundEnd
    <3> QED BY <1>0, <3>1, <3>2 DEF InboundEnd, HeldEmpty
  <2> QED BY <2>2, <2>3
<1>2. CASE ~(PollHeadersOk(t) /\ Role = "server")
  <2>1. bridge' = bridge
    BY <1>2 DEF Poll, PollHeadersOk, PollHeadersUnanswered, PollRefused,
       PollNotTunnel, PollData, PollFinished, PollReset
  <2>2. CASE PollRefused(t) \/ PollReset(t)
    <3>1. CASE s = t
      <4>1. rcv'[s].hdrs = "refused" \/ rcv'[s].reset = "seen"
        BY <1>0, <2>2, <3>1 DEF PollRefused, PollReset, ReceivingHalf
      <4>2. InboundOver(s)'
        BY <4>1 DEF InboundOver, Cut
      <4>3. st'[s].closed => st[s].closed
        <5>1. MarkReadable(t) => st'[s].closed = st[s].closed
          BY <1>0 DEF MarkReadable, StreamState
        <5>2. st' = [st EXCEPT ![t] = NoState] => ~st'[s].closed
          BY <1>0, <3>1 DEF NoState
        <5> QED BY <2>2, <5>1, <5>2 DEF PollRefused, PollReset
      <4> QED BY <1>0, <2>1, <4>2, <4>3, InboundEndUnmoved
    <3>2. CASE s # t
      <4>1. st'[s] = st[s]
        BY <1>0, <2>2, <3>2 DEF PollRefused, PollReset, MarkReadable
      <4>2. SenderGone(s)' => SenderGone(s)
        BY <4>1 DEF SenderGone
      <4> QED BY <1>0, <2>1, <4>1, <4>2, InboundEndUnmoved
    <3> QED BY <3>1, <3>2
  <2>3. CASE ~(PollRefused(t) \/ PollReset(t))
    <3>1. st' = st \/ MarkReadable(t)
      BY <1>2, <2>3 DEF Poll, PollHeadersOk, PollHeadersUnanswered, PollNotTunnel,
         PollData, PollFinished
    <3>2. /\ st'[s].closed = st[s].closed /\ st'[s].present = st[s].present
          /\ st'[s].inbound_tx = st[s].inbound_tx
      <4>1. CASE MarkReadable(t)
        BY <1>0, <4>1 DEF MarkReadable, StreamState
      <4>2. CASE st' = st
        BY <4>2
      <4> QED BY <3>1, <4>1, <4>2
    <3>3. SenderGone(s)' => SenderGone(s)
      BY <3>2 DEF SenderGone
    <3> QED BY <1>0, <2>1, <3>2, <3>3, InboundEndUnmoved
  <2> QED BY <2>2, <2>3
<1> QED BY <1>1, <1>2

\* pump_inbound drops the sender of a bridge that still reads at the end of the
\* body or at a reset.
LEMMA InboundEndPump ==
  ASSUME TypeOK, [Next]_vars, InboundEndInv, NEW t \in Streams, PumpInbound(t)
  PROVE  InboundEndInv'
<1> SUFFICES ASSUME NEW s \in Streams PROVE InboundEnd(s)'
  BY DEF InboundEndInv
<1>0. /\ InboundEnd(s) /\ UNCHANGED <<phase, egress, bridge, held, tcp>>
      /\ st \in [Streams -> StreamState] /\ rcv \in [Streams -> ReceivingHalf]
  BY DEF InboundEndInv, PumpInbound, taskVars, TypeOK
<1>1. st'[s].closed = st[s].closed
  <2>1. ASSUME NEW sender, StopReading(t, sender) PROVE st'[s].closed = st[s].closed
    BY <1>0, <2>1 DEF StopReading, StreamState
  <2> QED BY <2>1 DEF PumpInbound, PumpInNoSender, PumpInFull, PumpInClosed,
             PumpInRecv, PumpInDone, PumpInError
<1>2. SenderGone(s)' => SenderGone(s) \/ ~ReceiverAlive(s) \/ InboundOver(s)'
  <2>1. CASE s # t
    <3>1. st'[s] = st[s]
      BY <1>0, <2>1 DEF PumpInbound, PumpInNoSender, PumpInFull, PumpInClosed,
         PumpInRecv, PumpInDone, PumpInError, StopReading
    <3> QED BY <3>1 DEF SenderGone
  <2>2. CASE s = t
    <3>1. CASE PumpInNoSender(t)
      BY <2>2, <3>1 DEF PumpInNoSender, SenderGone
    <3>2. CASE PumpInClosed(t)
      BY <2>2, <3>2 DEF PumpInClosed
    <3>3. CASE PumpInFull(t) \/ PumpInRecv(t)
      BY <3>3 DEF PumpInFull, PumpInRecv, SenderGone
    <3>4. CASE PumpInDone(t)
      <4>1. /\ st'[s].present = st[s].present
            /\ st'[s].inbound_tx = ~StreamFinished(s)
        BY <1>0, <2>2, <3>4 DEF PumpInDone, StopReading, StreamState
      <4>2. StreamFinished(s) => InboundOver(s)
        BY <2>2, <3>4 DEF PumpInDone, StreamFinished, InboundOver
      <4> QED BY <2>2, <3>4, <4>1, <4>2, OverForGood DEF SenderGone, PumpInDone, Permit
    <3>5. CASE PumpInError(t)
      BY <2>2, <3>5, OverForGood DEF PumpInError, InboundOver, Cut
    <3> QED BY <3>1, <3>2, <3>3, <3>4, <3>5 DEF PumpInbound
  <2> QED BY <2>1, <2>2
<1> QED BY <1>0, <1>1, <1>2, InboundEndUnmoved

\* The reaper forgets streams whose bridge is done, or all with the connection.
LEMMA InboundEndReap ==
  ASSUME TypeOK, [Next]_vars, InboundEndInv, ReapStreams
  PROVE  InboundEndInv'
<1> SUFFICES ASSUME NEW s \in Streams PROVE InboundEnd(s)'
  BY DEF InboundEndInv
<1>0. InboundEnd(s) /\ UNCHANGED <<bridge, held, tcp>> /\ egress' \in {egress, <<>>}
  BY DEF InboundEndInv, ReapStreams, taskVars
<1>1. st'[s].closed => st[s].closed
  BY DEF ReapStreams, NoState
<1>2. SenderGone(s)' => SenderGone(s) \/ ~ReceiverAlive(s) \/ InboundOver(s)'
  <2>1. CASE conn_closed
    BY <2>1 DEF ReapStreams, InboundOver, Cut
  <2>2. CASE Reapable(s)
    BY <1>0, <2>2 DEF Reapable, InboundEnd, ReceiverAlive
  <2>3. CASE ~conn_closed /\ ~Reapable(s)
    <3>1. st'[s] = st[s]
      BY <2>3 DEF ReapStreams
    <3> QED BY <3>1 DEF SenderGone
  <2> QED BY <2>1, <2>2, <2>3
<1>3. \A i \in 1 .. Len(egress') : \E j \in 1 .. Len(egress) : egress'[i] = egress[j]
  BY <1>0
<1> QED BY <1>0, <1>1, <1>2, <1>3, InboundEndUnmoved

LEMMA InboundEndStep ==
  TypeOK /\ ChainInv /\ InboundEndInv /\ [Next]_vars => InboundEndInv'
<1> SUFFICES ASSUME TypeOK, ChainInv, InboundEndInv, [Next]_vars PROVE InboundEndInv'
  OBVIOUS
<1>1. CASE \/ UNCHANGED vars \/ SelectUdp \/ SelectCredit \/ RecvDone \/ PollDone
           \/ PumpInEnd \/ PumpOutEnd \/ ConnCloses \/ SelectEgressUnknown
  <2> SUFFICES ASSUME NEW s \in Streams PROVE InboundEnd(s)'
    BY DEF InboundEndInv
  <2>1. InboundEnd(s) /\ UNCHANGED <<st, bridge, held, tcp>>
    BY <1>1 DEF InboundEndInv, vars, loopVars, taskVars, SelectUdp, SelectCredit,
       RecvDone, PollDone, PumpInEnd, PumpOutEnd, ConnCloses, SelectEgressUnknown
  <2>2. \A i \in 1 .. Len(egress') : \E j \in 1 .. Len(egress) : egress'[i] = egress[j]
    <3>1. egress' = egress \/ (egress # <<>> /\ egress' = Tail(egress))
      BY <1>1 DEF vars, SelectUdp, SelectCredit, RecvDone, PollDone, PumpInEnd,
         PumpOutEnd, ConnCloses, SelectEgressUnknown
    <3>2. egress \in Seq(Message)
      BY DEF TypeOK
    <3> QED BY <3>1, <3>2
  <2>3. SenderGone(s)' => SenderGone(s)
    BY <2>1 DEF SenderGone
  <2> QED BY <2>1, <2>2, <2>3, InboundEndUnmoved
<1>2. CASE UdpError
  <2> SUFFICES ASSUME NEW s \in Streams PROVE InboundEnd(s)'
    BY DEF InboundEndInv
  <2>1. /\ InboundEnd(s) /\ UNCHANGED <<bridge, held, tcp>> /\ egress' = <<>>
        /\ st'[s] = NoState /\ phase' = "gone"
    BY <1>2 DEF InboundEndInv, UdpError, taskVars
  <2>2. InboundOver(s)' /\ ~st'[s].closed /\ Len(egress') = 0
    BY <2>1 DEF InboundOver, Cut, NoState
  <2> QED BY <2>1, <2>2, InboundEndUnmoved
<1>3. ASSUME NEW t \in Streams, OpenStream(t) PROVE InboundEndInv'
  <2> SUFFICES ASSUME NEW s \in Streams PROVE InboundEnd(s)'
    BY DEF InboundEndInv
  <2>1. /\ InboundEnd(s) /\ UNCHANGED <<rcv, egress, held, tcp>>
        /\ st' = [st EXCEPT ![t] = Tunnel]
        /\ bridge' = [bridge EXCEPT ![t].pc = "copying"] /\ bridge[t].pc = "none"
    BY <1>3 DEF InboundEndInv, OpenStream, quicVars
  <2>2. CASE s # t
    <3>1. st'[s] = st[s] /\ bridge'[s] = bridge[s]
      BY <2>1, <2>2 DEF TypeOK
    <3>2. SenderGone(s)' => SenderGone(s)
      BY <3>1 DEF SenderGone
    <3> QED BY <2>1, <3>1, <3>2, InboundEndUnmoved
  <2>3. CASE s = t
    <3>1. /\ ~st'[s].closed /\ ~SenderGone(s)'
          /\ bridge'[s].down = bridge[s].down /\ bridge[s].pc # "done"
      BY <2>1, <2>3 DEF Tunnel, NoState, SenderGone, BridgeTask, TypeOK
    <3> QED BY <2>1, <3>1 DEF InboundEnd, HeldEmpty
  <2> QED BY <2>2, <2>3
<1>4. ASSUME NEW t \in Streams, Network(t) \/ PumpOutbound(t) PROVE InboundEndInv'
  <2> SUFFICES ASSUME NEW s \in Streams PROVE InboundEnd(s)'
    BY DEF InboundEndInv
  <2>1. InboundEnd(s) /\ UNCHANGED <<egress, bridge, held, tcp>>
    BY <1>4 DEF InboundEndInv, Network, PumpOutbound, taskVars
  <2>2. /\ st'[s].closed = st[s].closed /\ st'[s].present = st[s].present
        /\ st'[s].inbound_tx = st[s].inbound_tx
    <3>0. st \in [Streams -> StreamState]
      BY DEF TypeOK
    <3>1. CASE st' = st
      BY <3>1
    <3>2. CASE PumpOutSend(t)
      <4>1. ASSUME NEW p, st' = [st EXCEPT ![t].pending = p]
            PROVE  /\ st'[s].closed = st[s].closed /\ st'[s].present = st[s].present
                   /\ st'[s].inbound_tx = st[s].inbound_tx
        BY <3>0, <4>1 DEF StreamState
      <4>2. \E p : st' = [st EXCEPT ![t].pending = p]
        BY <3>0, <3>2 DEF PumpOutSend
      <4> QED BY <4>1, <4>2
    <3>3. CASE PumpOutError(t)
      BY <3>0, <3>3 DEF PumpOutError, StreamState
    <3>4. CASE PumpOutFin(t)
      BY <3>0, <3>4 DEF PumpOutFin, StreamState
    <3> QED BY <1>4, <3>1, <3>2, <3>3, <3>4
            DEF Network, loopVars, PumpOutbound, PumpOutBlocked
  <2>3. SenderGone(s)' => SenderGone(s)
    BY <2>2 DEF SenderGone
  <2> QED BY <2>1, <2>2, <2>3, InboundEndUnmoved
<1>5. ASSUME NEW t \in Streams, Bridge(t) \/ Poll(t) \/ PumpInbound(t)
      PROVE  InboundEndInv'
  BY <1>5, InboundEndBridge, InboundEndPoll, InboundEndPump
<1>6. CASE SelectEgress \/ ReapStreams
  BY <1>6, InboundEndSelect, InboundEndReap
<1> QED BY <1>1, <1>2, <1>3, <1>4, <1>5, <1>6 DEF Next, Loop, Turn

-----------------------------------------------------------------------------
(* QUIC to TCP is a pipe.                                                  *)

LEMMA InboundPipeInit == Init => InboundHalf!Init
BY DEF Init, InboundHalf!Init, Cut

\* Whatever the step, a broken pipe stays broken.
LEMMA InboundBreaks ==
  ASSUME TypeOK, TypeOK', [Next]_vars
  PROVE  /\ InboundHalf!Breaks
         /\ [s \in Streams |-> Cut(s)'] \in [Streams -> BOOLEAN]
         /\ [s \in Streams |-> tcp'[s].shut] \in [Streams -> BOOLEAN]
<1>1. InboundHalf!Breaks
  BY CutForGood DEF InboundHalf!Breaks
<1>2. \A s \in Streams : Cut(s)' \in BOOLEAN
  BY DEF Cut
<1>3. \A s \in Streams : tcp'[s].shut \in BOOLEAN
  BY DEF TypeOK, LocalSocket
<1> QED BY <1>1, <1>2, <1>3

\* A step that moves no byte and announces no end, as seen from outside.
LEMMA InboundStays ==
  ASSUME TypeOK, TypeOK', [Next]_vars,
         \A s \in Streams : /\ rcv'[s].arrived = rcv[s].arrived
                            /\ rcv'[s].fin = rcv[s].fin
                            /\ tcp'[s].wrote = tcp[s].wrote
                            /\ tcp'[s].shut = tcp[s].shut
  PROVE  InboundHalf!Next
<1>1. InboundHalf!Stays
  BY DEF InboundHalf!Stays
<1>2. InboundHalf!Ends
  BY DEF InboundHalf!Ends
<1> QED BY <1>1, <1>2, InboundBreaks DEF InboundHalf!Next

LEMMA InboundSend ==
  ASSUME TypeOK, TypeOK', [Next]_vars, NEW t \in Streams, FrameData(t), UNCHANGED tcp
  PROVE  InboundHalf!Next
<1>0. rcv \in [Streams -> ReceivingHalf]
  BY DEF TypeOK
<1>1. /\ rcv' = [rcv EXCEPT ![t].arrived = @ + 1] /\ ~rcv[t].fin
      /\ rcv[t].arrived \in Nat
  BY <1>0 DEF FrameData, PeerWrites, ReceivingHalf
<1>2. \A s \in Streams : /\ rcv'[s].fin = rcv[s].fin
                         /\ s # t => rcv'[s].arrived = rcv[s].arrived
                         /\ s = t => rcv'[s].arrived = rcv[s].arrived + 1
  BY <1>0, <1>1 DEF ReceivingHalf
<1>3. [s \in Streams |-> rcv'[s].arrived]
        = [[s \in Streams |-> rcv[s].arrived] EXCEPT ![t] = rcv'[t].arrived]
  BY <1>2
<1>4. [s \in Streams |-> rcv'[s].fin] = [s \in Streams |-> rcv[s].fin]
  BY <1>2
<1>5. InboundHalf!Send(t)
  BY <1>1, <1>2, <1>3, <1>4 DEF InboundHalf!Send
<1>6. InboundHalf!Ends
  BY DEF InboundHalf!Ends
<1> QED BY <1>5, <1>6, InboundBreaks DEF InboundHalf!Next

LEMMA InboundFin ==
  ASSUME TypeOK, TypeOK', [Next]_vars, NEW t \in Streams, FrameFin(t), UNCHANGED tcp
  PROVE  InboundHalf!Next
<1>0. rcv \in [Streams -> ReceivingHalf]
  BY DEF TypeOK
<1>1. \A s \in Streams : /\ rcv'[s].arrived = rcv[s].arrived
                         /\ s # t => rcv'[s].fin = rcv[s].fin
                         /\ s = t => rcv'[s].fin = TRUE
  BY <1>0 DEF FrameFin, ReceivingHalf
<1>2. [s \in Streams |-> rcv'[s].fin]
        = [[s \in Streams |-> rcv[s].fin] EXCEPT ![t] = TRUE]
  BY <1>1
<1>3. [s \in Streams |-> rcv'[s].arrived] = [s \in Streams |-> rcv[s].arrived]
  BY <1>1
<1>4. InboundHalf!End(t)
  BY <1>2, <1>3 DEF InboundHalf!End
<1>5. InboundHalf!Ends
  BY DEF InboundHalf!Ends
<1> QED BY <1>4, <1>5, InboundBreaks DEF InboundHalf!Next

\* A socket write delivers bytes that have arrived, before the socket is shut.
LEMMA InboundReceive ==
  ASSUME TypeOK, TypeOK', [Next]_vars, ChainInv, InboundEndInv,
         NEW t \in Streams, WriteTcp(t), UNCHANGED rcv
  PROVE  InboundHalf!Next
<1>0. /\ InboundChain(t) /\ InboundEnd(t) /\ bridge[t].pc = "copying"
      /\ tcp \in [Streams -> LocalSocket]
      /\ held[t].lo \in Nat /\ held[t].hi \in Nat
      /\ rcv[t].read \in Nat /\ rcv[t].arrived \in Nat
  BY DEF ChainInv, InboundEndInv, WriteTcp, Copying, TypeOK, Chunk, ReceivingHalf
<1>1. PICK n \in 1 .. (held[t].hi - held[t].lo) :
        tcp' = [tcp EXCEPT ![t].intact = @ /\ held[t].lo = tcp[t].wrote,
                           ![t].wrote = held[t].lo + n]
  BY DEF WriteTcp
<1>2. /\ held[t].lo = tcp[t].wrote /\ held[t].hi <= rcv[t].arrived
  BY <1>0 DEF InboundChain, Contiguous, InboundEnd
<1>3. n \in 1 .. (rcv[t].arrived - tcp[t].wrote)
  BY <1>0, <1>1, <1>2
<1>4. ~tcp[t].shut
  BY <1>0, <1>1 DEF InboundEnd, HeldEmpty, TypeOK, LocalSocket
<1>5. \A s \in Streams : /\ tcp'[s].shut = tcp[s].shut
                         /\ s # t => tcp'[s].wrote = tcp[s].wrote
                         /\ s = t => tcp'[s].wrote = tcp[s].wrote + n
  BY <1>0, <1>1, <1>2 DEF LocalSocket
<1>6. [s \in Streams |-> tcp'[s].wrote]
        = [[s \in Streams |-> tcp[s].wrote] EXCEPT ![t] = @ + n]
  BY <1>5
<1>7. InboundHalf!Receive(t)
  BY <1>3, <1>4, <1>6 DEF InboundHalf!Receive
<1>8. InboundHalf!Ends
  BY <1>5 DEF InboundHalf!Ends
<1> QED BY <1>7, <1>8, InboundBreaks DEF InboundHalf!Next

\* The socket is shut down when everything the peer sent was written, or after
\* a cut.
LEMMA InboundEof ==
  ASSUME TypeOK, TypeOK', [Next]_vars, ChainInv, InboundEndInv,
         NEW t \in Streams, ShutdownTcp(t), UNCHANGED <<rcv, phase>>
  PROVE  InboundHalf!Next
<1>0. /\ InboundChain(t) /\ InboundEnd(t) /\ bridge[t].pc = "copying"
      /\ SenderGone(t) /\ HeldEmpty(t) /\ rx[t] = <<>>
      /\ tcp \in [Streams -> LocalSocket]
  BY DEF ChainInv, InboundEndInv, ShutdownTcp, CopiesDown, Copying, TypeOK
<1>1. \A s \in Streams : /\ tcp'[s].wrote = tcp[s].wrote
                         /\ s # t => tcp'[s].shut = tcp[s].shut
                         /\ s = t => tcp'[s].shut
  BY <1>0 DEF ShutdownTcp, LocalSocket
<1>2. tcp[t].wrote = rcv[t].read
  <2>1. Len(rx[t]) = 0
    BY <1>0
  <2> QED BY <1>0, <2>1 DEF InboundChain, Contiguous, Edge, HeldEmpty
<1>3. Cut(t) \/ (rcv[t].fin /\ tcp[t].wrote = rcv[t].arrived)
  BY <1>0, <1>2 DEF InboundEnd, InboundOver, ReceiverAlive
<1>4. InboundHalf!Ends
  BY <1>1, <1>3, CutForGood DEF InboundHalf!Ends
<1>5. InboundHalf!Stays
  BY <1>1 DEF InboundHalf!Stays
<1> QED BY <1>4, <1>5, InboundBreaks DEF InboundHalf!Next

\* Every step of the tunnel is a step of the pipe or one it does not see.
LEMMA InboundPipeStep ==
  ASSUME TypeOK, TypeOK', ChainInv, InboundEndInv, [Next]_vars
  PROVE  InboundHalf!Next
<1>0. rcv \in [Streams -> ReceivingHalf] /\ tcp \in [Streams -> LocalSocket]
  BY DEF TypeOK
<1>1. CASE /\ UNCHANGED tcp
           /\ \A s \in Streams :
                rcv'[s].arrived = rcv[s].arrived /\ rcv'[s].fin = rcv[s].fin
  BY <1>1, InboundStays
<1>2. ASSUME NEW t \in Streams, Network(t) PROVE InboundHalf!Next
  <2>1. UNCHANGED tcp
    BY <1>2 DEF Network, taskVars
  <2>2. CASE FrameHeaders(t) \/ FrameReset(t) \/ FrameStop(t) \/ FrameCredit(t)
    <3>1. \A s \in Streams :
            rcv'[s].arrived = rcv[s].arrived /\ rcv'[s].fin = rcv[s].fin
      BY <1>0, <2>2 DEF FrameHeaders, FrameReset, FrameStop, FrameCredit, ReceivingHalf
    <3> QED BY <1>1, <2>1, <3>1
  <2> QED BY <1>2, <2>1, <2>2, InboundSend, InboundFin DEF Network
<1>3. ASSUME NEW t \in Streams, Poll(t) PROVE InboundHalf!Next
  <2>1. UNCHANGED tcp
    BY <1>3 DEF Poll
  <2>2. \A s \in Streams :
          rcv'[s].arrived = rcv[s].arrived /\ rcv'[s].fin = rcv[s].fin
    <3>1. CASE PollHeadersOk(t) \/ PollHeadersUnanswered(t) \/ PollNotTunnel(t)
      BY <1>0, <3>1 DEF PollHeadersOk, PollHeadersUnanswered, PollNotTunnel, ReceivingHalf
    <3>2. CASE PollRefused(t) \/ PollData(t)
      BY <1>0, <3>2 DEF PollRefused, PollData, ReceivingHalf
    <3>3. CASE PollFinished(t) \/ PollReset(t)
      BY <1>0, <3>3 DEF PollFinished, PollReset, ReceivingHalf
    <3> QED BY <1>3, <3>1, <3>2, <3>3 DEF Poll
  <2> QED BY <1>1, <2>1, <2>2
<1>4. ASSUME NEW t \in Streams, PumpInbound(t) PROVE InboundHalf!Next
  <2>1. UNCHANGED tcp
    BY <1>4 DEF PumpInbound, taskVars
  <2>2. \A s \in Streams :
          rcv'[s].arrived = rcv[s].arrived /\ rcv'[s].fin = rcv[s].fin
    <3>1. CASE PumpInRecv(t)
      <4>1. PICK n : rcv' = [rcv EXCEPT ![t].read = @ + n]
        BY <3>1 DEF PumpInRecv
      <4> QED BY <1>0, <4>1 DEF ReceivingHalf
    <3>2. CASE PumpInClosed(t)
      BY <1>0, <3>2 DEF PumpInClosed, ReceivingHalf
    <3>3. CASE PumpInNoSender(t) \/ PumpInFull(t) \/ PumpInError(t)
      BY <3>3 DEF PumpInNoSender, PumpInFull, PumpInError
    <3>4. CASE PumpInDone(t)
      BY <1>0, <3>4 DEF PumpInDone, ReceivingHalf
    <3> QED BY <1>4, <3>1, <3>2, <3>3, <3>4 DEF PumpInbound
  <2> QED BY <1>1, <2>1, <2>2
<1>5. CASE ReapStreams
  <2>1. \A s \in Streams :
          rcv'[s].arrived = rcv[s].arrived /\ rcv'[s].fin = rcv[s].fin
    BY <1>0, <1>5 DEF ReapStreams, ReceivingHalf
  <2> QED BY <1>1, <1>5, <2>1 DEF ReapStreams, taskVars
<1>6. ASSUME NEW t \in Streams, Bridge(t) PROVE InboundHalf!Next
  <2>1. UNCHANGED <<phase, rcv>>
    BY <1>6 DEF Bridge, loopVars, quicVars
  <2>2. CASE WriteTcp(t)
    BY <2>1, <2>2, InboundReceive
  <2>3. CASE ShutdownTcp(t)
    BY <2>1, <2>3, InboundEof
  <2>4. CASE ~(WriteTcp(t) \/ ShutdownTcp(t))
    <3>1. \A s \in Streams : tcp'[s].wrote = tcp[s].wrote /\ tcp'[s].shut = tcp[s].shut
      <4>1. CASE CopyUp(t)
        BY <1>0, <4>1 DEF CopyUp, LocalSocket
      <4>2. CASE tcp' = tcp
        BY <4>2
      <4> QED BY <1>6, <2>4, <4>1, <4>2 DEF Bridge, DialOk, DialFail, DropStream,
                 ShutdownUp, PopRx, CopyDone, CopyError, SendClosed
    <3> QED BY <2>1, <3>1, InboundStays
  <2> QED BY <2>2, <2>3, <2>4
<1>7. ASSUME NEW t \in Streams, PumpOutbound(t) \/ OpenStream(t)
      PROVE  UNCHANGED <<rcv, tcp>>
  BY <1>7 DEF PumpOutbound, OpenStream, taskVars, quicVars
<1>8. CASE \/ UNCHANGED vars \/ SelectUdp \/ SelectEgress \/ SelectEgressUnknown
           \/ SelectCredit \/ UdpError \/ RecvDone \/ PollDone \/ PumpInEnd
           \/ PumpOutEnd \/ ConnCloses
  <2>1. UNCHANGED <<rcv, tcp>>
    BY <1>8 DEF vars, quicVars, taskVars, SelectUdp, SelectEgress, SelectEgressUnknown,
       SelectCredit, UdpError, RecvDone, PollDone, PumpInEnd, PumpOutEnd, ConnCloses
  <2> QED BY <1>1, <2>1
<1> QED BY <1>1, <1>2, <1>3, <1>4, <1>5, <1>6, <1>7, <1>8 DEF Next, Loop, Turn

\* From quiche to the local socket a tunnel is a lossless, ordered pipe: the
\* local peer gets a prefix of what the QUIC peer sent, and its socket is shut
\* down only after all of it, unless a reset, a refusal or the end of the
\* connection cut the stream.
THEOREM InboundRefines == Spec => InboundIsPipe
<1>1. TypeOK /\ TypeOK' /\ ChainInv /\ InboundEndInv /\ [Next]_vars
        => [InboundHalf!Next]_(InboundHalf!pipeVars)
  BY InboundPipeStep
<1> QED BY <1>1, InboundPipeInit, TypeCorrect, ChainInit, ChainStep, InboundEndInit,
           InboundEndStep, PTL DEF Spec, InboundIsPipe, InboundHalf!Spec

-----------------------------------------------------------------------------
(* What the QUIC peer is told of the end.                                  *)

\* The positions in the channel e that announce the end of s.
FinAt(e, s) == {i \in 1 .. Len(e) : e[i].stream = s /\ e[i].out = "Fin"}

\* No bytes of s follow its end.
FinLast(e, s) == \A i \in FinAt(e, s), j \in Mine(e, s) : j < i

\* The end of s follows its last byte through the channel: once the loop owes
\* the fin no byte is left behind it, and once quiche has the fin it has every
\* byte.  The 404 of a refused request is the one fin without a bridge.
OutboundEnd(s) ==
  /\ bridge[s].up = "done" => bridge[s].pc # "none"
  /\ FinAt(egress, s) # {} => bridge[s].up = "done"
  /\ FinLast(egress, s)
  /\ st[s].fin_pending => /\ st[s].present
                          /\ bridge[s].up = "done"
                          /\ Mine(egress, s) = {}
  /\ Role = "server" /\ rcv[s].hdrs # "seen" => bridge[s].pc = "none"
  /\ snd[s].fin /\ bridge[s].pc = "none" => Role = "server" /\ rcv[s].hdrs = "refused"
  /\ snd[s].fin /\ bridge[s].pc # "none" =>
       bridge[s].up = "done" /\ snd[s].off = tcp[s].read

OutboundEndInv == \A s \in Streams : OutboundEnd(s)

LEMMA OutboundEndInit == Init => OutboundEndInv
<1> SUFFICES ASSUME Init, NEW s \in Streams PROVE OutboundEnd(s)
  BY DEF OutboundEndInv
<1>1. /\ ~snd[s].fin /\ ~st[s].fin_pending /\ bridge[s].up = "open"
      /\ bridge[s].pc = "none" /\ Len(egress) = 0
  BY DEF Init, NoState
<1>2. FinAt(egress, s) = {}
  BY <1>1 DEF FinAt
<1> QED BY <1>1, <1>2 DEF OutboundEnd, FinLast

\* Taking the first message, or all of them, off the channel.
LEMMA FinTail ==
  ASSUME NEW e \in Seq(Message), e # <<>>, NEW s \in Streams
  PROVE  /\ FinLast(e, s) => FinLast(Tail(e), s)
         /\ Mine(e, s) = {} => Mine(Tail(e), s) = {}
         /\ FinAt(e, s) = {} => FinAt(Tail(e), s) = {}
         /\ Head(e).stream = s /\ Head(e).out = "Fin" =>
              FinAt(e, s) # {} /\ (FinLast(e, s) => Mine(e, s) = {})
<1>1. /\ Len(e) \in Nat \ {0} /\ Len(Tail(e)) = Len(e) - 1 /\ Head(e) = e[1]
      /\ \A i \in 1 .. Len(e) - 1 : Tail(e)[i] = e[i + 1]
  OBVIOUS
<1>2. \A i \in Mine(Tail(e), s) : i + 1 \in Mine(e, s) /\ i \in Nat
  BY MineOfTail DEF Mine
<1>3. \A i \in FinAt(Tail(e), s) : i + 1 \in FinAt(e, s) /\ i \in Nat
  BY <1>1 DEF FinAt
<1>4. FinLast(e, s) => FinLast(Tail(e), s)
  <2> SUFFICES ASSUME FinLast(e, s), NEW i \in FinAt(Tail(e), s), NEW j \in Mine(Tail(e), s)
               PROVE  j < i
    BY DEF FinLast
  <2>1. j + 1 < i + 1
    BY <1>2, <1>3 DEF FinLast
  <2> QED BY <1>2, <1>3, <2>1
<1>5. Head(e).stream = s /\ Head(e).out = "Fin" =>
        FinAt(e, s) # {} /\ (FinLast(e, s) => Mine(e, s) = {})
  <2> SUFFICES ASSUME Head(e).stream = s, Head(e).out = "Fin"
               PROVE  FinAt(e, s) # {} /\ (FinLast(e, s) => Mine(e, s) = {})
    OBVIOUS
  <2>1. 1 \in FinAt(e, s)
    BY <1>1 DEF FinAt
  <2>2. \A j \in Mine(e, s) : j \in Nat /\ j >= 1
    BY DEF Mine
  <2>3. ASSUME FinLast(e, s), NEW j \in Mine(e, s) PROVE FALSE
    <3>1. j < 1
      BY <2>1, <2>3 DEF FinLast
    <3> QED BY <2>2, <3>1
  <2> QED BY <2>1, <2>3
<1> QED BY <1>2, <1>3, <1>4, <1>5

\* Appending a message to the channel.
LEMMA FinAppend ==
  ASSUME NEW e \in Seq(Message), NEW s \in Streams, NEW m \in Message
  PROVE  /\ m.stream # s \/ m.out # "Data" => Mine(Append(e, m), s) = Mine(e, s)
         /\ m.stream # s \/ m.out # "Fin" => FinAt(Append(e, m), s) = FinAt(e, s)
         /\ m.out # "Data" /\ FinLast(e, s) => FinLast(Append(e, m), s)
         /\ FinAt(e, s) = {} /\ m.out = "Data" => FinLast(Append(e, m), s)
         /\ m.stream # s /\ FinLast(e, s) => FinLast(Append(e, m), s)
<1> DEFINE f == Append(e, m)
<1>1. /\ Len(e) \in Nat /\ Len(f) = Len(e) + 1 /\ f[Len(e) + 1] = m
      /\ \A i \in 1 .. Len(e) : f[i] = e[i]
  OBVIOUS
<1> HIDE DEF f
<1>2. m.stream # s \/ m.out # "Data" => Mine(f, s) = Mine(e, s)
  BY <1>1 DEF Mine
<1>3. m.stream # s \/ m.out # "Fin" => FinAt(f, s) = FinAt(e, s)
  BY <1>1 DEF FinAt
<1>4. \A i \in FinAt(f, s) : i \in FinAt(e, s) \/ i = Len(e) + 1
  BY <1>1 DEF FinAt
<1>5. \A j \in Mine(e, s) : j \in Nat /\ j < Len(e) + 1
  BY <1>1 DEF Mine
<1>6. m.out # "Data" /\ FinLast(e, s) => FinLast(f, s)
  BY <1>2, <1>4, <1>5 DEF FinLast
<1>7. FinAt(e, s) = {} /\ m.out = "Data" => FinLast(f, s)
  BY <1>3 DEF FinLast
<1>8. m.stream # s /\ FinLast(e, s) => FinLast(f, s)
  BY <1>2, <1>3 DEF FinLast
<1> QED BY <1>2, <1>3, <1>6, <1>7, <1>8 DEF f

\* A channel that says no more of s than it did.
NothingNew(s) ==
  /\ FinLast(egress, s) => FinLast(egress, s)'
  /\ Mine(egress, s) = {} => Mine(egress, s)' = {}
  /\ FinAt(egress, s) = {} => FinAt(egress, s)' = {}

LEMMA NothingNewWhenTaken ==
  ASSUME TypeOK, NEW s \in Streams,
         \/ egress' \in {egress, <<>>}
         \/ egress # <<>> /\ egress' = Tail(egress)
  PROVE  NothingNew(s)
<1>0. egress \in Seq(Message)
  BY DEF TypeOK
<1>1. CASE egress' = egress
  BY <1>1 DEF NothingNew
<1>2. CASE egress' = <<>>
  <2>1. Len(egress') = 0
    BY <1>2
  <2> QED BY <2>1 DEF NothingNew, FinLast, FinAt, Mine
<1>3. CASE egress # <<>> /\ egress' = Tail(egress)
  BY <1>0, <1>3, FinTail DEF NothingNew
<1> QED BY <1>1, <1>2, <1>3

LEMMA NothingNewWhenAppended ==
  ASSUME TypeOK, NEW s \in Streams, NEW m \in Message, egress' = Append(egress, m),
         m.stream # s \/ m.out = "Closed"
  PROVE  NothingNew(s)
<1>0. egress \in Seq(Message)
  BY DEF TypeOK
<1>1. /\ Mine(Append(egress, m), s) = Mine(egress, s)
      /\ FinAt(Append(egress, m), s) = FinAt(egress, s)
      /\ FinLast(egress, s) => FinLast(Append(egress, m), s)
  BY <1>0, FinAppend
<1> QED BY <1>1 DEF NothingNew

\* A step that takes nothing of this away from s.
LEMMA OutboundEndUnmoved ==
  ASSUME NEW s \in Streams, OutboundEnd(s), NothingNew(s),
         st'[s].fin_pending => st[s].fin_pending /\ st'[s].present,
         bridge'[s].up = bridge[s].up,
         bridge'[s].pc = "none" <=> bridge[s].pc = "none",
         snd'[s].fin = snd[s].fin, snd'[s].off = snd[s].off,
         tcp'[s].read = tcp[s].read,
         \/ rcv'[s].hdrs = rcv[s].hdrs
         \/ Role # "server"
         \/ bridge[s].pc = "none" /\ rcv[s].hdrs # "refused"
  PROVE  OutboundEnd(s)'
BY DEF OutboundEnd, NothingNew

\* A tunnel that starts has said nothing yet.
LEMMA OutboundEndStart ==
  ASSUME NEW s \in Streams, OutboundEnd(s),
         bridge[s].pc = "none", bridge'[s].pc # "none", bridge'[s].up = bridge[s].up,
         st'[s] = Tunnel, Role # "server" \/ rcv[s].hdrs # "refused",
         Role # "server" \/ rcv'[s].hdrs = "seen",
         UNCHANGED <<snd, egress, tcp>>
  PROVE  OutboundEnd(s)'
<1>1. ~st'[s].fin_pending
  BY DEF Tunnel, NoState
<1>2. ~snd[s].fin /\ FinLast(egress, s) /\ FinAt(egress, s) = {}
  BY DEF OutboundEnd
<1> QED BY <1>1, <1>2 DEF OutboundEnd

\* The loop takes a message off the channel.
LEMMA OutboundEndSelect ==
  ASSUME TypeOK, OutboundEndInv, SelectEgress
  PROVE  OutboundEndInv'
<1> SUFFICES ASSUME NEW s \in Streams PROVE OutboundEnd(s)'
  BY DEF OutboundEndInv
<1> DEFINE m == Head(egress)
<1>0. /\ OutboundEnd(s) /\ UNCHANGED <<rcv, snd, bridge, tcp>>
      /\ egress \in Seq(Message) /\ egress # <<>> /\ m \in Message
      /\ st \in [Streams -> StreamState]
      /\ egress' = Tail(egress)
      /\ st' = [st EXCEPT ![m.stream] = IF @.present THEN Queue(@, m) ELSE @]
  BY DEF OutboundEndInv, SelectEgress, quicVars, taskVars, TypeOK
<1>1. m.stream \in Streams /\ m.out \in {"Data", "Fin", "Closed"}
  BY <1>0 DEF Message
<1>2. NothingNew(s)
  BY <1>0, NothingNewWhenTaken
<1>3. m.stream = s /\ m.out = "Fin" =>
        bridge[s].up = "done" /\ bridge[s].pc # "none" /\ Mine(egress, s) = {}
  BY <1>0, FinTail DEF OutboundEnd
<1> HIDE DEF m
<1>4. CASE m.stream = s /\ m.out = "Fin" /\ st[s].present
  <2>1. st'[s].present
    BY <1>0, <1>1, <1>4 DEF Queue, StreamState
  <2> QED BY <1>0, <1>2, <1>3, <1>4, <2>1 DEF OutboundEnd, NothingNew
<1>5. CASE ~(m.stream = s /\ m.out = "Fin" /\ st[s].present)
  <2>1. st'[s].fin_pending = st[s].fin_pending /\ st'[s].present = st[s].present
    <3>1. CASE m.stream = s /\ st[s].present
      <4>1. st'[s] = Queue(st[s], m)
        BY <1>0, <3>1
      <4> QED BY <1>0, <1>1, <1>5, <3>1, <4>1 DEF Queue, StreamState
    <3>2. CASE ~(m.stream = s /\ st[s].present)
      <4>1. st'[s] = st[s]
        BY <1>0, <1>1, <3>2
      <4> QED BY <4>1
    <3> QED BY <3>1, <3>2
  <2>2. st'[s].fin_pending => st[s].fin_pending /\ st'[s].present
    BY <1>0, <2>1 DEF OutboundEnd
  <2> QED BY <1>0, <1>2, <2>2, OutboundEndUnmoved
<1> QED BY <1>4, <1>5

\* A bridge sends bytes while its upward half is open, then the one Fin.
LEMMA OutboundEndBridge ==
  ASSUME TypeOK, OutboundEndInv, NEW t \in Streams, Bridge(t)
  PROVE  OutboundEndInv'
<1> SUFFICES ASSUME NEW s \in Streams PROVE OutboundEnd(s)'
  BY DEF OutboundEndInv
<1>0. /\ OutboundEnd(s) /\ UNCHANGED <<st, rcv, snd>>
      /\ bridge \in [Streams -> BridgeTask] /\ tcp \in [Streams -> LocalSocket]
      /\ egress \in Seq(Message)
  BY DEF OutboundEndInv, Bridge, loopVars, quicVars, TypeOK
<1>1. st'[s].fin_pending => st[s].fin_pending /\ st'[s].present
  BY <1>0 DEF OutboundEnd
<1>2. CASE CopyUp(t)
  <2>1. PICK n \in 1 .. COPY_BUF :
          /\ Send(Msg(t, "Data", tcp[t].read, tcp[t].read + n))
          /\ tcp' = [tcp EXCEPT ![t].read = @ + n]
    BY <1>2 DEF CopyUp
  <2> DEFINE m == Msg(t, "Data", tcp[t].read, tcp[t].read + n)
  <2>2. n \in Nat /\ tcp[t].read \in Nat
    BY <1>0, <2>1, QuicTunnelAssumption DEF LocalSocket
  <2>3. m \in Message /\ m.stream = t /\ m.out = "Data" /\ egress' = Append(egress, m)
    BY <2>1, <2>2 DEF Msg, Message, Chunk, Send
  <2>4. bridge' = bridge /\ bridge[t].up = "open" /\ bridge[t].pc = "copying"
    BY <1>2 DEF CopyUp, CopiesUp, Copying
  <2> HIDE DEF m
  <2>5. CASE s # t
    <3>1. tcp'[s] = tcp[s]
      BY <1>0, <2>1, <2>5
    <3>2. NothingNew(s)
      BY <1>0, <2>3, <2>5, FinAppend DEF NothingNew
    <3> QED BY <1>0, <1>1, <2>4, <3>1, <3>2, OutboundEndUnmoved
  <2>6. CASE s = t
    <3>1. /\ FinAt(egress, s) = {} /\ ~st[s].fin_pending /\ ~snd[s].fin
      BY <1>0, <2>4, <2>6 DEF OutboundEnd
    <3>2. FinAt(egress, s)' = {} /\ FinLast(egress, s)'
      BY <1>0, <2>3, <3>1, FinAppend
    <3> QED BY <1>0, <2>4, <3>1, <3>2 DEF OutboundEnd
  <2> QED BY <2>5, <2>6
<1>3. CASE ShutdownUp(t)
  <2>1. /\ bridge' = [bridge EXCEPT ![t].up = "done"] /\ tcp' = tcp
        /\ bridge[t].pc = "copying" /\ bridge[t].up = "open"
    BY <1>3 DEF ShutdownUp, CopiesUp, Copying
  <2>2. \/ egress' = egress
        \/ \E m \in Message : m.stream = t /\ m.out = "Fin" /\ egress' = Append(egress, m)
    BY <1>3 DEF ShutdownUp, Send, SendIgnored, Msg, Message, Chunk
  <2>3. CASE s # t
    <3>1. bridge'[s] = bridge[s]
      BY <1>0, <2>1, <2>3
    <3>2. NothingNew(s)
      BY <2>2, <2>3, NothingNewWhenTaken, NothingNewWhenAppended
    <3> QED BY <1>0, <1>1, <2>1, <3>1, <3>2, OutboundEndUnmoved
  <2>4. CASE s = t
    <3>1. bridge'[s].up = "done" /\ bridge'[s].pc = "copying"
      BY <1>0, <2>1, <2>4 DEF BridgeTask
    <3>2. ~snd[s].fin /\ ~st[s].fin_pending
      BY <1>0, <2>1, <2>4 DEF OutboundEnd
    <3>3. FinLast(egress, s)'
      <4>1. FinLast(egress, s)
        BY <1>0 DEF OutboundEnd
      <4>2. CASE egress' = egress
        BY <4>1, <4>2
      <4>3. ASSUME NEW m \in Message, m.out = "Fin", egress' = Append(egress, m)
            PROVE  FinLast(egress, s)'
        <5>1. m.out # "Data"
          BY <4>3
        <5> QED BY <1>0, <4>1, <4>3, <5>1, FinAppend
      <4> QED BY <2>2, <4>2, <4>3
    <3> QED BY <1>0, <2>1, <2>4, <3>1, <3>2, <3>3 DEF OutboundEnd
  <2> QED BY <2>3, <2>4
<1>4. CASE SendClosed(t)
  <2>1. /\ bridge' = [bridge EXCEPT ![t].pc = "done"] /\ tcp' = tcp
        /\ bridge[t].pc = "closing"
    BY <1>4 DEF SendClosed
  <2>2. \/ egress' = egress
        \/ \E m \in Message : m.out = "Closed" /\ egress' = Append(egress, m)
    BY <1>4 DEF SendClosed, Send, SendIgnored, Msg, Message, Chunk
  <2>3. NothingNew(s)
    BY <2>2, NothingNewWhenTaken, NothingNewWhenAppended
  <2>4. /\ bridge'[s].up = bridge[s].up
        /\ bridge'[s].pc = "none" <=> bridge[s].pc = "none"
    BY <1>0, <2>1 DEF BridgeTask
  <2> QED BY <1>0, <1>1, <2>1, <2>3, <2>4, OutboundEndUnmoved
<1>5. CASE ~(CopyUp(t) \/ ShutdownUp(t) \/ SendClosed(t))
  <2>1. egress' = egress /\ tcp'[s].read = tcp[s].read
    <3>1. CASE DialOk(t) \/ PopRx(t)
      BY <3>1 DEF DialOk, PopRx
    <3>2. CASE DialFail(t) \/ CopyDone(t) \/ CopyError(t)
      BY <3>2 DEF DialFail, CopyDone, CopyError, DropStream
    <3>3. CASE WriteTcp(t)
      BY <1>0, <3>3 DEF WriteTcp, LocalSocket
    <3>4. CASE ShutdownTcp(t)
      BY <1>0, <3>4 DEF ShutdownTcp, LocalSocket
    <3> QED BY <1>5, <3>1, <3>2, <3>3, <3>4 DEF Bridge
  <2>2. /\ bridge'[s].up = bridge[s].up
        /\ bridge'[s].pc = "none" <=> bridge[s].pc = "none"
    <3>1. CASE DialOk(t)
      BY <1>0, <3>1 DEF DialOk, BridgeTask
    <3>2. CASE DialFail(t) \/ CopyDone(t) \/ CopyError(t)
      BY <1>0, <3>2 DEF DialFail, CopyDone, CopyError, Copying, DropStream, BridgeTask
    <3>3. CASE PopRx(t) \/ WriteTcp(t)
      BY <3>3 DEF PopRx, WriteTcp
    <3>4. CASE ShutdownTcp(t)
      BY <1>0, <3>4 DEF ShutdownTcp, BridgeTask
    <3> QED BY <1>5, <3>1, <3>2, <3>3, <3>4 DEF Bridge
  <2>3. NothingNew(s)
    BY <2>1, NothingNewWhenTaken
  <2> QED BY <1>0, <1>1, <2>1, <2>2, <2>3, OutboundEndUnmoved
<1> QED BY <1>2, <1>3, <1>4, <1>5

\* poll_h3 starts tunnels, refuses requests and drops streams.
LEMMA OutboundEndPoll ==
  ASSUME TypeOK, OutboundEndInv, NEW t \in Streams, Poll(t)
  PROVE  OutboundEndInv'
<1> SUFFICES ASSUME NEW s \in Streams PROVE OutboundEnd(s)'
  BY DEF OutboundEndInv
<1>0. /\ OutboundEnd(s) /\ OutboundEnd(t) /\ UNCHANGED <<egress, tcp>>
      /\ st \in [Streams -> StreamState] /\ snd \in [Streams -> SendingHalf]
      /\ rcv \in [Streams -> ReceivingHalf] /\ bridge \in [Streams -> BridgeTask]
  BY DEF OutboundEndInv, Poll, TypeOK
<1>1. NothingNew(s)
  BY <1>0, NothingNewWhenTaken
<1>2. st[s].fin_pending => st[s].present
  BY <1>0 DEF OutboundEnd
<1>3. CASE PollHeadersOk(t) /\ Role = "server"
  <2>1. /\ st' = [st EXCEPT ![t] = Tunnel] /\ snd' = snd
        /\ bridge' = [bridge EXCEPT ![t].pc = "dialing"]
        /\ rcv' = [rcv EXCEPT ![t].hdrs = "seen"] /\ rcv[t].hdrs = "ok"
    BY <1>3 DEF PollHeadersOk
  <2>2. CASE s = t
    <3>1. /\ bridge[s].pc = "none" /\ bridge'[s].pc = "dialing"
          /\ bridge'[s].up = bridge[s].up /\ st'[s] = Tunnel
          /\ rcv'[s].hdrs = "seen"
      BY <1>0, <1>3, <2>1, <2>2 DEF OutboundEnd, BridgeTask, ReceivingHalf
    <3> QED BY <1>0, <2>1, <2>2, <3>1, OutboundEndStart
  <2>3. CASE s # t
    <3>1. st'[s] = st[s] /\ bridge'[s] = bridge[s] /\ rcv'[s] = rcv[s]
      BY <1>0, <2>1, <2>3
    <3> QED BY <1>0, <1>1, <1>2, <2>1, <3>1, OutboundEndUnmoved
  <2> QED BY <2>2, <2>3
<1>4. CASE ~(PollHeadersOk(t) /\ Role = "server")
  <2>1. bridge' = bridge
    BY <1>4 DEF Poll, PollHeadersOk, PollHeadersUnanswered, PollRefused,
       PollNotTunnel, PollData, PollFinished, PollReset
  <2>2. st'[s].fin_pending => st[s].fin_pending /\ st'[s].present
    <3>1. CASE st' = st
      BY <1>2, <3>1
    <3>2. CASE MarkReadable(t)
      BY <1>0, <1>2, <3>2 DEF MarkReadable, StreamState
    <3>3. CASE st' = [st EXCEPT ![t] = NoState]
      BY <1>0, <1>2, <3>3 DEF NoState
    <3> QED BY <1>4, <3>1, <3>2, <3>3 DEF Poll, PollHeadersOk, PollHeadersUnanswered,
               PollRefused, PollNotTunnel, PollData, PollFinished, PollReset
  <2>3. CASE PollNotTunnel(t)
    <3>1. PICK sent \in BOOLEAN : snd' = [snd EXCEPT ![t].fin = sent]
      BY <2>3 DEF PollNotTunnel
    <3>2. rcv' = [rcv EXCEPT ![t].hdrs = "refused"] /\ rcv[t].hdrs = "bad" /\ Role = "server"
      BY <2>3 DEF PollNotTunnel
    <3>3. CASE s = t
      <4>1. bridge[s].pc = "none" /\ rcv'[s].hdrs = "refused"
        BY <1>0, <3>2, <3>3 DEF OutboundEnd, ReceivingHalf
      <4> QED BY <1>0, <1>1, <2>1, <2>2, <3>2, <4>1 DEF OutboundEnd, NothingNew
    <3>4. CASE s # t
      <4>1. snd'[s] = snd[s] /\ rcv'[s] = rcv[s]
        BY <1>0, <3>1, <3>2, <3>4
      <4> QED BY <1>0, <1>1, <2>1, <2>2, <4>1, OutboundEndUnmoved
    <3> QED BY <3>3, <3>4
  <2>4. CASE ~PollNotTunnel(t)
    <3>1. snd'[s].fin = snd[s].fin /\ snd'[s].off = snd[s].off
      <4>1. CASE PollHeadersUnanswered(t)
        BY <1>0, <4>1 DEF PollHeadersUnanswered, SendingHalf
      <4>2. CASE snd' = snd
        BY <4>2
      <4> QED BY <2>4, <4>1, <4>2 DEF Poll, PollHeadersOk, PollRefused, PollData,
                 PollFinished, PollReset
    <3>2. \/ rcv'[s].hdrs = rcv[s].hdrs
          \/ Role # "server"
          \/ bridge[s].pc = "none" /\ rcv[s].hdrs # "refused"
      <4>1. CASE PollHeadersUnanswered(t)
        <5>1. rcv[t].hdrs = "ok" /\ rcv' = [rcv EXCEPT ![t].hdrs = "refused"]
          BY <4>1 DEF PollHeadersUnanswered
        <5> QED BY <1>0, <5>1 DEF OutboundEnd, ReceivingHalf
      <4>2. CASE PollData(t)
        BY <1>0, <4>2 DEF PollData, ReceivingHalf
      <4>3. CASE PollFinished(t)
        BY <1>0, <4>3 DEF PollFinished, ReceivingHalf
      <4>4. CASE PollReset(t)
        BY <1>0, <4>4 DEF PollReset, ReceivingHalf
      <4>5. CASE Role # "server"
        BY <4>5
      <4> QED BY <1>4, <2>4, <4>1, <4>2, <4>3, <4>4, <4>5 DEF Poll, PollRefused
    <3> QED BY <1>0, <1>1, <2>1, <2>2, <3>1, <3>2, OutboundEndUnmoved
  <2> QED BY <2>3, <2>4
<1> QED BY <1>3, <1>4

\* When nothing of s is queued or on its way, quiche has had all of it.
LEMMA AllSent ==
  ASSUME TypeOK, NEW s \in Streams, OutboundChain(s), st[s].present, ~snd[s].stopped,
         st[s].pending = <<>>, Mine(egress, s) = {}
  PROVE  snd[s].off = tcp[s].read
<1>1. snd[s].off \in Nat /\ tcp[s].read \in Nat /\ snd[s].off <= tcp[s].read
  BY DEF TypeOK, SendingHalf, LocalSocket, OutboundChain
<1>2. \A b \in snd[s].off .. tcp[s].read - 1 : FALSE
  <2>1. Len(st[s].pending) = 0
    OBVIOUS
  <2> QED BY <2>1 DEF OutboundChain, Tiles
<1>3. snd[s].off < tcp[s].read => snd[s].off \in snd[s].off .. tcp[s].read - 1
  BY <1>1
<1> QED BY <1>1, <1>2, <1>3

\* As long as bytes are queued, quiche has not had all of it.
LEMMA NotAllSent ==
  ASSUME TypeOK, NEW s \in Streams, OutboundChain(s), PumpOutSend(s)
  PROVE  snd[s].off < tcp[s].read
<1>1. /\ st[s].pending \in Seq(Chunk) /\ st[s].pending # <<>> /\ st[s].present
      /\ ~snd[s].stopped /\ egress \in Seq(Message)
      /\ snd[s].off \in Nat /\ tcp[s].read \in Nat
  BY DEF TypeOK, StreamState, SendingHalf, LocalSocket, OutboundChain, PumpOutSend
<1>2. Tiles(st[s].pending, egress, s, snd[s].off, tcp[s].read)
  BY <1>1 DEF OutboundChain
<1>3. /\ snd[s].off < Head(st[s].pending).hi
      /\ Head(st[s].pending).hi <= tcp[s].read
      /\ Head(st[s].pending).hi \in Nat
  <2>1. Head(st[s].pending) \in Chunk
    BY <1>1
  <2> QED BY <1>1, <1>2, <2>1, TilesFront DEF Chunk
<1> QED BY <1>1, <1>3

\* pump_outbound sends the fin when nothing is queued.
LEMMA OutboundEndPump ==
  ASSUME TypeOK, OutboundInv, OutboundEndInv, NEW t \in Streams, PumpOutbound(t)
  PROVE  OutboundEndInv'
<1> SUFFICES ASSUME NEW s \in Streams PROVE OutboundEnd(s)'
  BY DEF OutboundEndInv
<1>0. /\ OutboundEnd(s) /\ OutboundChain(s) /\ UNCHANGED <<rcv, egress, bridge, tcp>>
      /\ st \in [Streams -> StreamState] /\ snd \in [Streams -> SendingHalf]
  BY DEF OutboundEndInv, OutboundInv, PumpOutbound, taskVars, TypeOK
<1>1. NothingNew(s)
  BY <1>0, NothingNewWhenTaken
<1>2. st[s].fin_pending => st[s].present
  BY <1>0 DEF OutboundEnd
<1>3. CASE s # t
  <2>1. st'[s] = st[s] /\ snd'[s] = snd[s]
    BY <1>0, <1>3 DEF PumpOutbound, PumpOutSend, PumpOutBlocked, PumpOutError, PumpOutFin
  <2> QED BY <1>0, <1>1, <1>2, <2>1, OutboundEndUnmoved
<1>4. CASE s = t /\ PumpOutSend(t)
  <2>1. snd'[s].fin = snd[s].fin
    BY <1>0, <1>4 DEF PumpOutSend, SendingHalf
  <2>2. st'[s].fin_pending = st[s].fin_pending /\ st'[s].present = st[s].present
    <3>1. \E p : st' = [st EXCEPT ![t].pending = p]
      BY <1>0, <1>4 DEF PumpOutSend
    <3>2. ASSUME NEW p, st' = [st EXCEPT ![t].pending = p]
          PROVE  st'[s].fin_pending = st[s].fin_pending /\ st'[s].present = st[s].present
      BY <1>0, <3>2 DEF StreamState
    <3> QED BY <3>1, <3>2
  <2>3. snd[s].fin => bridge[s].pc = "none"
    <3>1. snd[s].off < tcp[s].read /\ snd[s].off \in Nat
      BY <1>0, <1>4, NotAllSent DEF SendingHalf
    <3> QED BY <1>0, <3>1 DEF OutboundEnd
  <2> QED BY <1>0, <1>1, <1>2, <2>1, <2>2, <2>3 DEF OutboundEnd, NothingNew
<1>5. CASE PumpOutBlocked(t)
  BY <1>0, <1>1, <1>2, <1>5, OutboundEndUnmoved DEF PumpOutBlocked
<1>6. CASE PumpOutError(t)
  <2>1. snd' = snd /\ st'[s].fin_pending = st[s].fin_pending /\ st'[s].present = st[s].present
    BY <1>0, <1>6 DEF PumpOutError, StreamState
  <2> QED BY <1>0, <1>1, <1>2, <2>1, OutboundEndUnmoved
<1>7. CASE s = t /\ PumpOutFin(t)
  <2>1. /\ st'[s].fin_pending = st[s].fin_pending /\ st'[s].present = st[s].present
        /\ st[s].pending = <<>>
    BY <1>0, <1>7 DEF PumpOutFin, StreamState
  <2>2. /\ snd'[s].off = snd[s].off
        /\ snd'[s].fin = snd[s].fin \/ (snd'[s].fin /\ FinOwed(s) /\ ~snd[s].stopped)
    BY <1>0, <1>7 DEF PumpOutFin, SendingHalf
  <2>3. CASE snd'[s].fin = snd[s].fin
    BY <1>0, <1>1, <1>2, <2>1, <2>2, <2>3, OutboundEndUnmoved
  <2>4. CASE snd'[s].fin /\ FinOwed(s) /\ ~snd[s].stopped
    <3>1. /\ bridge[s].up = "done" /\ bridge[s].pc # "none" /\ st[s].present
          /\ Mine(egress, s) = {}
      BY <1>0, <2>4 DEF FinOwed, OutboundEnd
    <3>2. snd[s].off = tcp[s].read
      BY <1>0, <2>1, <2>4, <3>1, AllSent
    <3> QED BY <1>0, <1>1, <1>2, <2>1, <2>2, <3>1, <3>2 DEF OutboundEnd, NothingNew
  <2> QED BY <2>2, <2>3, <2>4
<1> QED BY <1>3, <1>4, <1>5, <1>6, <1>7 DEF PumpOutbound

LEMMA OutboundEndStep ==
  TypeOK /\ OutboundInv /\ OutboundEndInv /\ [Next]_vars => OutboundEndInv'
<1> SUFFICES ASSUME TypeOK, OutboundInv, OutboundEndInv, [Next]_vars
             PROVE  OutboundEndInv'
  OBVIOUS
<1>0. /\ st \in [Streams -> StreamState] /\ snd \in [Streams -> SendingHalf]
      /\ rcv \in [Streams -> ReceivingHalf] /\ bridge \in [Streams -> BridgeTask]
      /\ egress \in Seq(Message)
  BY DEF TypeOK
<1>1. CASE \/ UNCHANGED vars \/ SelectUdp \/ SelectCredit \/ RecvDone \/ PollDone
           \/ PumpInEnd \/ PumpOutEnd \/ ConnCloses \/ SelectEgressUnknown
           \/ UdpError \/ ReapStreams
  <2> SUFFICES ASSUME NEW s \in Streams PROVE OutboundEnd(s)'
    BY DEF OutboundEndInv
  <2>1. OutboundEnd(s) /\ UNCHANGED <<bridge, tcp>>
    BY <1>1 DEF OutboundEndInv, vars, taskVars, SelectUdp, SelectCredit, RecvDone,
       PollDone, PumpInEnd, PumpOutEnd, ConnCloses, SelectEgressUnknown, UdpError,
       ReapStreams
  <2>2. NothingNew(s)
    <3>1. \/ egress' \in {egress, <<>>}
          \/ egress # <<>> /\ egress' = Tail(egress)
      BY <1>1 DEF vars, SelectUdp, SelectCredit, RecvDone, PollDone, PumpInEnd,
         PumpOutEnd, ConnCloses, SelectEgressUnknown, UdpError, ReapStreams
    <3> QED BY <3>1, NothingNewWhenTaken
  <2>3. st'[s] = st[s] \/ st'[s] = NoState
    BY <1>1 DEF vars, loopVars, SelectUdp, SelectCredit, RecvDone,
       PollDone, PumpInEnd, PumpOutEnd, ConnCloses, SelectEgressUnknown, UdpError,
       ReapStreams
  <2>4. st'[s].fin_pending => st[s].fin_pending /\ st'[s].present
    BY <2>1, <2>3 DEF OutboundEnd, NoState
  <2>5. /\ rcv'[s].hdrs = rcv[s].hdrs
        /\ snd'[s].fin = snd[s].fin /\ snd'[s].off = snd[s].off
    <3>1. CASE ReapStreams
      BY <1>0, <3>1 DEF ReapStreams, ReceivingHalf, SendingHalf
    <3>2. CASE UNCHANGED <<rcv, snd>>
      BY <3>2
    <3> QED BY <1>1, <3>1, <3>2 DEF vars, quicVars, SelectUdp, SelectCredit, RecvDone,
       PollDone, PumpInEnd, PumpOutEnd, ConnCloses, SelectEgressUnknown, UdpError
  <2> QED BY <2>1, <2>2, <2>4, <2>5, OutboundEndUnmoved
<1>2. ASSUME NEW t \in Streams, OpenStream(t) PROVE OutboundEndInv'
  <2> SUFFICES ASSUME NEW s \in Streams PROVE OutboundEnd(s)'
    BY DEF OutboundEndInv
  <2>1. /\ OutboundEnd(s) /\ UNCHANGED <<rcv, snd, egress, tcp>>
        /\ st' = [st EXCEPT ![t] = Tunnel] /\ Role # "server"
        /\ bridge' = [bridge EXCEPT ![t].pc = "copying"] /\ bridge[t].pc = "none"
    BY <1>2 DEF OutboundEndInv, OpenStream, quicVars
  <2>2. CASE s # t
    <3>1. st'[s] = st[s] /\ bridge'[s] = bridge[s] /\ NothingNew(s)
      BY <1>0, <2>1, <2>2, NothingNewWhenTaken
    <3>2. st[s].fin_pending => st[s].present
      BY <2>1 DEF OutboundEnd
    <3> QED BY <2>1, <3>1, <3>2, OutboundEndUnmoved
  <2>3. CASE s = t
    <3>1. st'[s] = Tunnel /\ bridge'[s].pc = "copying" /\ bridge'[s].up = bridge[s].up
      BY <1>0, <2>1, <2>3 DEF BridgeTask
    <3> QED BY <2>1, <2>3, <3>1, OutboundEndStart
  <2> QED BY <2>2, <2>3
<1>3. ASSUME NEW t \in Streams, Network(t) \/ PumpInbound(t) PROVE OutboundEndInv'
  <2> SUFFICES ASSUME NEW s \in Streams PROVE OutboundEnd(s)'
    BY DEF OutboundEndInv
  <2>1. OutboundEnd(s) /\ UNCHANGED <<egress, bridge, tcp>> /\ NothingNew(s)
    BY <1>3, NothingNewWhenTaken DEF OutboundEndInv, Network, PumpInbound, taskVars
  <2>2. st'[s].fin_pending => st[s].fin_pending /\ st'[s].present
    <3>0. st[s].fin_pending => st[s].present
      BY <2>1 DEF OutboundEnd
    <3>1. CASE st' = st
      BY <3>0, <3>1
    <3>2. ASSUME NEW sender, StopReading(t, sender)
          PROVE  st'[s].fin_pending = st[s].fin_pending /\ st'[s].present = st[s].present
      BY <1>0, <3>2 DEF StopReading, StreamState
    <3> QED BY <1>3, <3>0, <3>1, <3>2 DEF Network, loopVars, PumpInbound, PumpInNoSender,
               PumpInFull, PumpInClosed, PumpInRecv, PumpInDone, PumpInError
  <2>3. snd'[s].fin = snd[s].fin /\ snd'[s].off = snd[s].off
    <3>1. CASE FrameStop(t)
      BY <1>0, <3>1 DEF FrameStop, SendingHalf
    <3>2. CASE FrameCredit(t)
      BY <1>0, <3>2 DEF FrameCredit, SendingHalf
    <3>3. CASE snd' = snd
      BY <3>3
    <3> QED BY <1>3, <3>1, <3>2, <3>3 DEF Network, FrameHeaders, FrameData, FrameFin,
               FrameReset, PumpInbound
  <2>4. \/ rcv'[s].hdrs = rcv[s].hdrs
        \/ Role # "server"
        \/ bridge[s].pc = "none" /\ rcv[s].hdrs # "refused"
    <3>1. CASE FrameHeaders(t)
      <4>1. CASE s = t
        <5>1. rcv[s].hdrs = "none"
          BY <3>1, <4>1 DEF FrameHeaders
        <5> QED BY <2>1, <5>1 DEF OutboundEnd
      <4>2. CASE s # t
        BY <1>0, <3>1, <4>2 DEF FrameHeaders
      <4> QED BY <4>1, <4>2
    <3>2. CASE FrameData(t)
      BY <1>0, <3>2 DEF FrameData, ReceivingHalf
    <3>3. CASE FrameFin(t)
      BY <1>0, <3>3 DEF FrameFin, ReceivingHalf
    <3>4. CASE FrameReset(t)
      BY <1>0, <3>4 DEF FrameReset, ReceivingHalf
    <3>5. CASE PumpInRecv(t)
      <4>1. PICK n : rcv' = [rcv EXCEPT ![t].read = @ + n]
        BY <3>5 DEF PumpInRecv
      <4> QED BY <1>0, <4>1 DEF ReceivingHalf
    <3>6. CASE PumpInClosed(t)
      BY <1>0, <3>6 DEF PumpInClosed, ReceivingHalf
    <3>7. CASE PumpInDone(t)
      BY <1>0, <3>7 DEF PumpInDone, ReceivingHalf
    <3>8. CASE rcv' = rcv
      BY <3>8
    <3> QED BY <1>3, <3>1, <3>2, <3>3, <3>4, <3>5, <3>6, <3>7, <3>8 DEF Network, FrameStop,
               FrameCredit, PumpInbound, PumpInNoSender, PumpInFull, PumpInError
  <2> QED BY <2>1, <2>2, <2>3, <2>4, OutboundEndUnmoved
<1>4. ASSUME NEW t \in Streams, Bridge(t) \/ Poll(t) \/ PumpOutbound(t)
      PROVE  OutboundEndInv'
  BY <1>4, OutboundEndBridge, OutboundEndPoll, OutboundEndPump
<1>5. CASE SelectEgress
  BY <1>5, OutboundEndSelect
<1> QED BY <1>1, <1>2, <1>3, <1>4, <1>5 DEF Next, Loop, Turn

-----------------------------------------------------------------------------
(* TCP to QUIC is a pipe.                                                  *)

\* The QUIC peer was told the end of the tunnel, which a 404 is not.
ToldEnd(s) == snd[s].fin /\ bridge[s].pc # "none"

LEMMA OutboundPipeInit == Init => OutboundHalf!Init
<1> SUFFICES ASSUME Init PROVE OutboundHalf!Init
  OBVIOUS
<1>1. \A s \in Streams : /\ tcp[s].read = 0 /\ snd[s].off = 0
                         /\ (bridge[s].up = "done") = FALSE
                         /\ (snd[s].fin /\ bridge[s].pc # "none") = FALSE
  BY DEF Init
<1> QED BY <1>1 DEF OutboundHalf!Init

\* The pipe never breaks; what is left to show of a step is how bytes and ends
\* move.
LEMMA OutboundBreaks ==
  /\ OutboundHalf!Breaks
  /\ [s \in Streams |-> FALSE] \in [Streams -> BOOLEAN]
  /\ [s \in Streams |-> snd'[s].fin /\ bridge'[s].pc # "none"] \in [Streams -> BOOLEAN]
BY DEF OutboundHalf!Breaks

\* A step that moves no byte and announces no end, as seen from outside.
LEMMA OutboundStays ==
  ASSUME \A s \in Streams : /\ tcp'[s].read = tcp[s].read
                            /\ snd'[s].off = snd[s].off
                            /\ bridge'[s].up = bridge[s].up
                            /\ ToldEnd(s)' <=> ToldEnd(s)
  PROVE  OutboundHalf!Next
<1>1. OutboundHalf!Stays
  BY DEF OutboundHalf!Stays
<1>2. OutboundHalf!Ends
  BY DEF OutboundHalf!Ends, ToldEnd
<1> QED BY <1>1, <1>2, OutboundBreaks DEF OutboundHalf!Next

LEMMA OutboundPipeSend ==
  ASSUME TypeOK, NEW t \in Streams, CopyUp(t), UNCHANGED snd
  PROVE  OutboundHalf!Next
<1>0. tcp \in [Streams -> LocalSocket] /\ tcp[t].read \in Nat
  BY DEF TypeOK, LocalSocket
<1>1. PICK n \in 1 .. COPY_BUF : tcp' = [tcp EXCEPT ![t].read = @ + n]
  BY DEF CopyUp
<1>2. n \in Nat \ {0}
  BY <1>1, QuicTunnelAssumption
<1>3. \A s \in Streams : /\ s # t => tcp'[s].read = tcp[s].read
                         /\ s = t => tcp'[s].read = tcp[s].read + n
  BY <1>0, <1>1 DEF LocalSocket
<1>4. bridge' = bridge /\ bridge[t].up = "open"
  BY DEF CopyUp, CopiesUp
<1>5. [s \in Streams |-> tcp'[s].read]
        = [[s \in Streams |-> tcp[s].read] EXCEPT ![t] = tcp'[t].read]
  BY <1>3
<1>6. tcp'[t].read > tcp[t].read
  BY <1>0, <1>2, <1>3
<1>7. [s \in Streams |-> snd'[s].off] = [s \in Streams |-> snd[s].off]
  OBVIOUS
<1>8. [s \in Streams |-> bridge'[s].up = "done"] = [s \in Streams |-> bridge[s].up = "done"]
  BY <1>4
<1>9. OutboundHalf!Send(t)
  BY <1>4, <1>5, <1>6, <1>7, <1>8 DEF OutboundHalf!Send
<1>10. OutboundHalf!Ends
  BY <1>4 DEF OutboundHalf!Ends
<1> QED BY <1>9, <1>10, OutboundBreaks DEF OutboundHalf!Next

LEMMA OutboundPipeEnd ==
  ASSUME TypeOK, NEW t \in Streams, ShutdownUp(t), UNCHANGED snd
  PROVE  OutboundHalf!Next
<1>0. bridge \in [Streams -> BridgeTask]
  BY DEF TypeOK
<1>1. /\ tcp' = tcp
      /\ \A s \in Streams : /\ s # t => bridge'[s] = bridge[s]
                            /\ s = t => bridge'[s].up = "done"
                            /\ bridge'[s].pc = bridge[s].pc
  BY <1>0 DEF ShutdownUp, BridgeTask
<1>2. [s \in Streams |-> bridge'[s].up = "done"]
        = [[s \in Streams |-> bridge[s].up = "done"] EXCEPT ![t] = TRUE]
  <2>1. \A s \in Streams : /\ s # t => (bridge'[s].up = "done") = (bridge[s].up = "done")
                           /\ s = t => (bridge'[s].up = "done") = TRUE
    BY <1>1
  <2> QED BY <2>1
<1>3. OutboundHalf!End(t)
  BY <1>1, <1>2 DEF OutboundHalf!End
<1>4. OutboundHalf!Ends
  BY <1>1 DEF OutboundHalf!Ends
<1> QED BY <1>3, <1>4, OutboundBreaks DEF OutboundHalf!Next

\* send_body hands quiche the next bytes, and only before the end was told.
LEMMA OutboundPipeReceive ==
  ASSUME TypeOK, TypeOK', OutboundInv, OutboundInv', OutboundEndInv,
         NEW t \in Streams, PumpOutSend(t), UNCHANGED <<egress, bridge, tcp>>
  PROVE  OutboundHalf!Next
<1>0. /\ OutboundChain(t) /\ OutboundChain(t)' /\ OutboundEnd(t)
      /\ snd \in [Streams -> SendingHalf]
      /\ snd[t].off \in Nat /\ snd'[t].off \in Nat /\ tcp[t].read \in Nat
      /\ snd[t].credit \in Nat /\ egress \in Seq(Message)
      /\ st[t].pending \in Seq(Chunk)
  BY DEF OutboundInv, OutboundEndInv, TypeOK, SendingHalf, LocalSocket, StreamState
<1>1. snd[t].off < tcp[t].read /\ snd'[t].off <= tcp[t].read
  BY <1>0, NotAllSent DEF OutboundChain
<1>2. ~ToldEnd(t)
  BY <1>0, <1>1 DEF OutboundEnd, ToldEnd
<1>3. snd[t].off < snd'[t].off
  <2> DEFINE front == Head(st[t].pending)
  <2>1. /\ st[t].pending # <<>> /\ st[t].present /\ ~snd[t].stopped
        /\ snd[t].off < snd[t].credit
    BY <1>0 DEF PumpOutSend, OutboundChain
  <2>2. front.lo = snd[t].off /\ front.lo < front.hi /\ front \in Chunk
    BY <1>0, <2>1, TilesFront DEF OutboundChain
  <2>3. snd'[t].off = front.lo + Least(front.hi - front.lo, snd[t].credit - snd[t].off)
    BY <1>0 DEF PumpOutSend, SendingHalf
  <2> HIDE DEF front
  <2> QED BY <1>0, <2>1, <2>2, <2>3 DEF Least, Chunk
<1>4. \A s \in Streams : /\ s # t => snd'[s].off = snd[s].off
                         /\ s = t => snd'[s].off = snd[s].off + (snd'[t].off - snd[t].off)
                         /\ snd'[s].fin = snd[s].fin
  <2>1. \A s \in Streams : /\ s # t => snd'[s].off = snd[s].off
                           /\ snd'[s].fin = snd[s].fin
    BY <1>0 DEF PumpOutSend, SendingHalf
  <2>2. snd'[t].off = snd[t].off + (snd'[t].off - snd[t].off)
    BY <1>0, <1>1 DEF SendingHalf
  <2> QED BY <2>1, <2>2
<1>5. [s \in Streams |-> snd'[s].off]
        = [[s \in Streams |-> snd[s].off] EXCEPT ![t] = @ + (snd'[t].off - snd[t].off)]
  BY <1>4
<1>6. snd'[t].off - snd[t].off \in 1 .. (tcp[t].read - snd[t].off)
  BY <1>0, <1>1, <1>3
<1>7. OutboundHalf!Receive(t)
  BY <1>2, <1>5, <1>6 DEF OutboundHalf!Receive, ToldEnd
<1>8. OutboundHalf!Ends
  BY <1>4 DEF OutboundHalf!Ends
<1> QED BY <1>7, <1>8, OutboundBreaks DEF OutboundHalf!Next

\* The fin goes out when quiche has every byte of a peer that is done.
LEMMA OutboundPipeEof ==
  ASSUME TypeOK, OutboundInv, OutboundEndInv,
         NEW t \in Streams, PumpOutFin(t), UNCHANGED <<egress, bridge, tcp>>
  PROVE  OutboundHalf!Next
<1>0. /\ OutboundChain(t) /\ OutboundEnd(t) /\ snd \in [Streams -> SendingHalf]
      /\ st[t].pending = <<>>
  BY DEF OutboundInv, OutboundEndInv, TypeOK, PumpOutFin
<1>1. \A s \in Streams : /\ snd'[s].off = snd[s].off
                         /\ s # t => snd'[s].fin = snd[s].fin
                         /\ s = t => snd'[s].fin = snd[s].fin
                              \/ (snd'[s].fin /\ FinOwed(s) /\ ~snd[s].stopped)
  BY <1>0 DEF PumpOutFin, SendingHalf
<1>2. FinOwed(t) /\ ~snd[t].stopped => bridge[t].up = "done" /\ snd[t].off = tcp[t].read
  BY <1>0, AllSent DEF FinOwed, OutboundEnd
<1>3. OutboundHalf!Ends
  BY <1>1, <1>2 DEF OutboundHalf!Ends
<1>4. OutboundHalf!Stays
  BY <1>1 DEF OutboundHalf!Stays
<1> QED BY <1>3, <1>4, OutboundBreaks DEF OutboundHalf!Next

LEMMA OutboundPipePoll ==
  ASSUME TypeOK, OutboundEndInv, NEW t \in Streams, Poll(t)
  PROVE  OutboundHalf!Next
<1>0. /\ OutboundEnd(t) /\ UNCHANGED tcp
      /\ snd \in [Streams -> SendingHalf] /\ bridge \in [Streams -> BridgeTask]
  BY DEF OutboundEndInv, Poll, TypeOK
<1>1. CASE PollHeadersOk(t) /\ Role = "server"
  <2>1. /\ bridge' = [bridge EXCEPT ![t].pc = "dialing"] /\ snd' = snd
        /\ rcv[t].hdrs = "ok"
    BY <1>1 DEF PollHeadersOk
  <2>2. ~snd[t].fin
    BY <1>0, <1>1, <2>1 DEF OutboundEnd
  <2>3. \A s \in Streams : /\ bridge'[s].up = bridge[s].up
                           /\ s # t => bridge'[s].pc = bridge[s].pc
    BY <1>0, <2>1 DEF BridgeTask
  <2>4. \A s \in Streams : ToldEnd(s)' <=> ToldEnd(s)
    BY <2>1, <2>2, <2>3 DEF ToldEnd
  <2> QED BY <1>0, <2>1, <2>3, <2>4, OutboundStays
<1>2. CASE PollNotTunnel(t)
  <2>1. /\ bridge' = bridge
        /\ \E sent \in BOOLEAN : snd' = [snd EXCEPT ![t].fin = sent]
        /\ rcv[t].hdrs = "bad" /\ Role = "server"
    BY <1>2 DEF PollNotTunnel
  <2>2. bridge[t].pc = "none"
    BY <1>0, <2>1 DEF OutboundEnd
  <2>3. \A s \in Streams : /\ snd'[s].off = snd[s].off
                           /\ s # t => snd'[s].fin = snd[s].fin
    BY <1>0, <2>1 DEF SendingHalf
  <2>4. \A s \in Streams : ToldEnd(s)' <=> ToldEnd(s)
    BY <2>1, <2>2, <2>3 DEF ToldEnd
  <2> QED BY <1>0, <2>1, <2>3, <2>4, OutboundStays
<1>3. CASE ~(PollHeadersOk(t) /\ Role = "server") /\ ~PollNotTunnel(t)
  <2>1. bridge' = bridge
    BY <1>3 DEF Poll, PollHeadersOk, PollHeadersUnanswered, PollRefused, PollData,
       PollFinished, PollReset
  <2>2. \A s \in Streams : snd'[s].fin = snd[s].fin /\ snd'[s].off = snd[s].off
    <3>1. CASE PollHeadersUnanswered(t)
      BY <1>0, <3>1 DEF PollHeadersUnanswered, SendingHalf
    <3>2. CASE snd' = snd
      BY <3>2
    <3> QED BY <1>3, <3>1, <3>2 DEF Poll, PollHeadersOk, PollRefused, PollData,
               PollFinished, PollReset
  <2> QED BY <1>0, <2>1, <2>2, OutboundStays DEF ToldEnd
<1> QED BY <1>1, <1>2, <1>3

LEMMA OutboundPipeBridge ==
  ASSUME TypeOK, NEW t \in Streams, Bridge(t)
  PROVE  OutboundHalf!Next
<1>0. /\ snd' = snd
      /\ bridge \in [Streams -> BridgeTask] /\ tcp \in [Streams -> LocalSocket]
  BY DEF Bridge, quicVars, TypeOK
<1>1. CASE CopyUp(t)
  BY <1>0, <1>1, OutboundPipeSend
<1>2. CASE ShutdownUp(t)
  BY <1>0, <1>2, OutboundPipeEnd
<1>3. CASE ~(CopyUp(t) \/ ShutdownUp(t))
  <2>1. \A s \in Streams : tcp'[s].read = tcp[s].read
    <3>1. CASE WriteTcp(t)
      BY <1>0, <3>1 DEF WriteTcp, LocalSocket
    <3>2. CASE ShutdownTcp(t)
      BY <1>0, <3>2 DEF ShutdownTcp, LocalSocket
    <3>3. CASE tcp' = tcp
      BY <3>3
    <3> QED BY <1>3, <3>1, <3>2, <3>3 DEF Bridge, DialOk, DialFail, DropStream, PopRx,
               CopyDone, CopyError, SendClosed
  <2>2. \A s \in Streams : /\ bridge'[s].up = bridge[s].up
                           /\ bridge'[s].pc = "none" <=> bridge[s].pc = "none"
    <3>1. CASE DialOk(t)
      BY <1>0, <3>1 DEF DialOk, BridgeTask
    <3>2. CASE DialFail(t) \/ CopyDone(t) \/ CopyError(t)
      BY <1>0, <3>2 DEF DialFail, CopyDone, CopyError, Copying, DropStream, BridgeTask
    <3>3. CASE PopRx(t) \/ WriteTcp(t)
      BY <3>3 DEF PopRx, WriteTcp
    <3>4. CASE ShutdownTcp(t)
      BY <1>0, <3>4 DEF ShutdownTcp, BridgeTask
    <3>5. CASE SendClosed(t)
      BY <1>0, <3>5 DEF SendClosed, BridgeTask
    <3> QED BY <1>3, <3>1, <3>2, <3>3, <3>4, <3>5 DEF Bridge
  <2> QED BY <1>0, <2>1, <2>2, OutboundStays DEF ToldEnd
<1> QED BY <1>1, <1>2, <1>3

\* Every step of the tunnel is a step of the pipe or one it does not see.
LEMMA OutboundPipeStep ==
  ASSUME TypeOK, TypeOK', OutboundInv, OutboundInv', OutboundEndInv, [Next]_vars
  PROVE  OutboundHalf!Next
<1>0. snd \in [Streams -> SendingHalf] /\ bridge \in [Streams -> BridgeTask]
  BY DEF TypeOK
<1>1. CASE /\ UNCHANGED <<bridge, tcp>>
           /\ \A s \in Streams : snd'[s].off = snd[s].off /\ snd'[s].fin = snd[s].fin
  BY <1>1, OutboundStays DEF ToldEnd
<1>2. ASSUME NEW t \in Streams, Poll(t) \/ Bridge(t) PROVE OutboundHalf!Next
  BY <1>2, OutboundPipePoll, OutboundPipeBridge
<1>3. ASSUME NEW t \in Streams, PumpOutbound(t) PROVE OutboundHalf!Next
  <2>1. UNCHANGED <<egress, bridge, tcp>>
    BY <1>3 DEF PumpOutbound, taskVars
  <2>2. CASE PumpOutSend(t)
    BY <2>1, <2>2, OutboundPipeReceive
  <2>3. CASE PumpOutFin(t)
    BY <2>1, <2>3, OutboundPipeEof
  <2>4. CASE PumpOutBlocked(t) \/ PumpOutError(t)
    BY <1>1, <2>1, <2>4 DEF PumpOutBlocked, PumpOutError
  <2> QED BY <1>3, <2>2, <2>3, <2>4 DEF PumpOutbound
<1>4. ASSUME NEW t \in Streams, OpenStream(t) PROVE OutboundHalf!Next
  <2>1. /\ UNCHANGED <<snd, tcp>> /\ Role # "server"
        /\ bridge' = [bridge EXCEPT ![t].pc = "copying"] /\ bridge[t].pc = "none"
        /\ OutboundEnd(t)
    BY <1>4 DEF OpenStream, quicVars, OutboundEndInv
  <2>2. ~snd[t].fin
    BY <2>1 DEF OutboundEnd
  <2>3. \A s \in Streams : /\ bridge'[s].up = bridge[s].up
                           /\ s # t => bridge'[s].pc = bridge[s].pc
    BY <1>0, <2>1 DEF BridgeTask
  <2>4. \A s \in Streams : ToldEnd(s)' <=> ToldEnd(s)
    BY <2>1, <2>2, <2>3 DEF ToldEnd
  <2> QED BY <2>1, <2>3, <2>4, OutboundStays
<1>5. ASSUME NEW t \in Streams, Network(t) \/ PumpInbound(t) PROVE OutboundHalf!Next
  <2>1. UNCHANGED <<bridge, tcp>>
    BY <1>5 DEF Network, PumpInbound, taskVars
  <2>2. \A s \in Streams : snd'[s].off = snd[s].off /\ snd'[s].fin = snd[s].fin
    <3>1. CASE FrameStop(t)
      BY <1>0, <3>1 DEF FrameStop, SendingHalf
    <3>2. CASE FrameCredit(t)
      BY <1>0, <3>2 DEF FrameCredit, SendingHalf
    <3>3. CASE snd' = snd
      BY <3>3
    <3> QED BY <1>5, <3>1, <3>2, <3>3 DEF Network, FrameHeaders, FrameData, FrameFin,
               FrameReset, PumpInbound
  <2> QED BY <1>1, <2>1, <2>2
<1>6. CASE ReapStreams
  <2>1. \A s \in Streams : snd'[s].off = snd[s].off /\ snd'[s].fin = snd[s].fin
    BY <1>0, <1>6 DEF ReapStreams, SendingHalf
  <2> QED BY <1>1, <1>6, <2>1 DEF ReapStreams, taskVars
<1>7. CASE \/ UNCHANGED vars \/ SelectUdp \/ SelectEgress \/ SelectEgressUnknown
           \/ SelectCredit \/ UdpError \/ RecvDone \/ PollDone \/ PumpInEnd
           \/ PumpOutEnd \/ ConnCloses
  <2>1. UNCHANGED <<snd, bridge, tcp>>
    BY <1>7 DEF vars, quicVars, taskVars, SelectUdp, SelectEgress, SelectEgressUnknown,
       SelectCredit, UdpError, RecvDone, PollDone, PumpInEnd, PumpOutEnd, ConnCloses
  <2> QED BY <1>1, <2>1
<1> QED BY <1>2, <1>3, <1>4, <1>5, <1>6, <1>7 DEF Next, Loop, Turn

\* From the local socket to quiche a tunnel is a lossless, ordered pipe that
\* never breaks: quiche is given a prefix of what the local peer sent, and the
\* fin of the tunnel only after the local peer closed its side and quiche took
\* every byte.
THEOREM OutboundRefines == Spec => OutboundIsPipe
<1>1. TypeOK /\ TypeOK' /\ OutboundInv /\ OutboundInv' /\ OutboundEndInv /\ [Next]_vars
        => [OutboundHalf!Next]_(OutboundHalf!pipeVars)
  BY OutboundPipeStep
<1> QED BY <1>1, OutboundPipeInit, TypeCorrect, ChainInit, ChainStep, OutboundInit,
           OutboundStep, OutboundEndInit, OutboundEndStep, PTL
        DEF Spec, OutboundIsPipe, OutboundHalf!Spec

-----------------------------------------------------------------------------
(* Nothing is left half-open.                                              *)

\* Both halves of s are over for the QUIC peer.
Terminated(s) ==
  /\ snd[s].fin \/ snd[s].reset \/ snd[s].stopped
  /\ StreamFinished(s) \/ rcv[s].shut

\* Only a cut or the reaper takes a tunnel out of the map, the latter with a
\* reset for a fin that never went out and a stop for a body not read.
Release(s) ==
  /\ st[s].fin_sent => snd[s].stopped \/ (snd[s].fin /\ bridge[s].pc # "none")
  /\ bridge[s].pc # "none" /\ ~st[s].present => Cut(s) \/ Terminated(s)

ReleaseInv == \A s \in Streams : Release(s)

LEMMA ReleaseInit == Init => ReleaseInv
<1> SUFFICES ASSUME Init, NEW s \in Streams PROVE Release(s)
  BY DEF ReleaseInv
<1>1. ~st[s].fin_sent /\ bridge[s].pc = "none"
  BY DEF Init, NoState
<1> QED BY <1>1 DEF Release

\* A body that was read to its end, or reset, stays so.
LEMMA FinishedForGood ==
  ASSUME TypeOK, [Next]_vars, NEW s \in Streams, StreamFinished(s)
  PROVE  StreamFinished(s)'
BY EveryStepMovesOn DEF StreamFinished, MovesOn

\* What no step takes back of what quiche sent on s or stopped reading; the
\* loop's own 404 comes before any bridge.
SentOn(s) ==
  /\ bridge[s].pc # "none" /\ snd[s].fin => snd'[s].fin
  /\ snd[s].reset => snd'[s].reset
  /\ snd[s].stopped => snd'[s].stopped
  /\ rcv[s].shut => rcv'[s].shut

LEMMA EveryStepSentOn ==
  ASSUME TypeOK, OutboundEndInv, [Next]_vars, NEW s \in Streams
  PROVE  SentOn(s)
<1>0. /\ snd \in [Streams -> SendingHalf] /\ rcv \in [Streams -> ReceivingHalf]
      /\ \A t \in Streams : OutboundEnd(t)
  BY DEF TypeOK, OutboundEndInv
<1>1. CASE UNCHANGED <<rcv, snd>>
  BY <1>1 DEF SentOn
<1>2. CASE ReapStreams
  BY <1>0, <1>2 DEF ReapStreams, SentOn, ReceivingHalf, SendingHalf
<1>3. ASSUME NEW t \in Streams, Network(t) PROVE SentOn(s)
  <2>1. CASE FrameHeaders(t)
    BY <1>0, <2>1 DEF FrameHeaders, SentOn, ReceivingHalf
  <2>2. CASE FrameData(t)
    BY <1>0, <2>2 DEF FrameData, SentOn, ReceivingHalf
  <2>3. CASE FrameFin(t)
    BY <1>0, <2>3 DEF FrameFin, SentOn, ReceivingHalf
  <2>4. CASE FrameReset(t)
    BY <1>0, <2>4 DEF FrameReset, SentOn, ReceivingHalf
  <2>5. CASE FrameStop(t)
    BY <1>0, <2>5 DEF FrameStop, SentOn, SendingHalf
  <2>6. CASE FrameCredit(t)
    BY <1>0, <2>6 DEF FrameCredit, SentOn, SendingHalf
  <2> QED BY <1>3, <2>1, <2>2, <2>3, <2>4, <2>5, <2>6 DEF Network
<1>4. ASSUME NEW t \in Streams, Poll(t) PROVE SentOn(s)
  <2>1. CASE PollHeadersOk(t)
    BY <1>0, <2>1 DEF PollHeadersOk, SentOn, ReceivingHalf
  <2>2. CASE PollHeadersUnanswered(t)
    BY <1>0, <2>2 DEF PollHeadersUnanswered, SentOn, ReceivingHalf, SendingHalf
  <2>3. CASE PollRefused(t)
    BY <1>0, <2>3 DEF PollRefused, SentOn, ReceivingHalf
  <2>4. CASE PollNotTunnel(t)
    <3>1. /\ \E sent \in BOOLEAN : snd' = [snd EXCEPT ![t].fin = sent]
          /\ rcv' = [rcv EXCEPT ![t].hdrs = "refused"]
          /\ rcv[t].hdrs = "bad" /\ Role = "server"
      BY <2>4 DEF PollNotTunnel
    <3>2. bridge[t].pc = "none"
      BY <1>0, <3>1 DEF OutboundEnd
    <3> QED BY <1>0, <3>1, <3>2 DEF SentOn, ReceivingHalf, SendingHalf
  <2>5. CASE PollData(t)
    BY <1>0, <2>5 DEF PollData, DataEvent, BodyVisible, SentOn, ReceivingHalf
  <2>6. CASE PollFinished(t)
    BY <1>0, <2>6 DEF PollFinished, SentOn, ReceivingHalf
  <2>7. CASE PollReset(t)
    BY <1>0, <2>7 DEF PollReset, SentOn, ReceivingHalf
  <2> QED BY <1>4, <2>1, <2>2, <2>3, <2>4, <2>5, <2>6, <2>7 DEF Poll
<1>5. ASSUME NEW t \in Streams, PumpInbound(t) PROVE SentOn(s)
  <2>0. snd' = snd
    BY <1>5 DEF PumpInbound
  <2>1. CASE PumpInRecv(t)
    <3>1. PICK n : rcv' = [rcv EXCEPT ![t].read = @ + n]
      BY <2>1 DEF PumpInRecv
    <3> QED BY <1>0, <2>0, <3>1 DEF SentOn, ReceivingHalf
  <2>2. CASE PumpInClosed(t)
    BY <1>0, <2>0, <2>2 DEF PumpInClosed, SentOn, ReceivingHalf
  <2>3. CASE PumpInDone(t)
    BY <1>0, <2>0, <2>3 DEF PumpInDone, SentOn, ReceivingHalf
  <2> QED BY <1>1, <1>5, <2>0, <2>1, <2>2, <2>3 DEF PumpInbound, PumpInNoSender,
             PumpInFull, PumpInError
<1>6. ASSUME NEW t \in Streams, PumpOutbound(t) PROVE SentOn(s)
  <2>0. rcv' = rcv
    BY <1>6 DEF PumpOutbound
  <2>1. CASE PumpOutSend(t)
    BY <1>0, <2>0, <2>1 DEF PumpOutSend, SentOn, SendingHalf
  <2>2. CASE PumpOutFin(t)
    BY <1>0, <2>0, <2>2 DEF PumpOutFin, SentOn, SendingHalf
  <2> QED BY <1>1, <1>6, <2>0, <2>1, <2>2 DEF PumpOutbound, PumpOutBlocked, PumpOutError
<1>7. ASSUME NEW t \in Streams, OpenStream(t) \/ Bridge(t) PROVE SentOn(s)
  BY <1>1, <1>7 DEF OpenStream, Bridge, quicVars
<1>8. CASE \/ UNCHANGED vars \/ SelectUdp \/ SelectEgress \/ SelectEgressUnknown
           \/ SelectCredit \/ UdpError \/ RecvDone \/ PollDone \/ PumpInEnd
           \/ PumpOutEnd \/ ConnCloses
  BY <1>1, <1>8 DEF vars, quicVars, SelectUdp, SelectEgress, SelectEgressUnknown,
     SelectCredit, UdpError, RecvDone, PollDone, PumpInEnd, PumpOutEnd, ConnCloses
<1> QED BY <1>2, <1>3, <1>4, <1>5, <1>6, <1>7, <1>8 DEF Next, Loop, Turn

\* A bridge, once there, is never unmade.
LEMMA BridgeForGood ==
  ASSUME TypeOK, [Next]_vars, NEW s \in Streams
  PROVE  bridge'[s].pc = "none" => bridge[s].pc = "none"
<1>0. bridge \in [Streams -> BridgeTask]
  BY DEF TypeOK
<1>1. ASSUME NEW t \in Streams, Bridge(t)
      PROVE  bridge'[s].pc = "none" => bridge[s].pc = "none"
  <2>1. CASE DialOk(t) \/ SendClosed(t)
    BY <1>0, <2>1 DEF DialOk, SendClosed, BridgeTask
  <2>2. CASE DialFail(t) \/ CopyDone(t) \/ CopyError(t)
    BY <1>0, <2>2 DEF DialFail, CopyDone, CopyError, DropStream, BridgeTask
  <2>3. CASE ShutdownUp(t) \/ ShutdownTcp(t)
    BY <1>0, <2>3 DEF ShutdownUp, ShutdownTcp, BridgeTask
  <2>4. CASE CopyUp(t) \/ PopRx(t) \/ WriteTcp(t)
    BY <2>4 DEF CopyUp, PopRx, WriteTcp
  <2> QED BY <1>1, <2>1, <2>2, <2>3, <2>4 DEF Bridge
<1>2. ASSUME NEW t \in Streams, OpenStream(t) \/ Poll(t)
      PROVE  bridge'[s].pc = "none" => bridge[s].pc = "none"
  <2>1. \/ bridge' = bridge
        \/ \E pc \in {"copying", "dialing"} : bridge' = [bridge EXCEPT ![t].pc = pc]
    BY <1>2 DEF OpenStream, Poll, PollHeadersOk, PollHeadersUnanswered, PollRefused,
       PollNotTunnel, PollData, PollFinished, PollReset
  <2> QED BY <1>0, <2>1 DEF BridgeTask
<1>3. ASSUME NEW t \in Streams, Network(t) \/ PumpInbound(t) \/ PumpOutbound(t)
      PROVE  bridge' = bridge
  BY <1>3 DEF Network, PumpInbound, PumpOutbound, taskVars
<1>4. CASE \/ UNCHANGED vars \/ SelectUdp \/ SelectEgress \/ SelectEgressUnknown
           \/ SelectCredit \/ UdpError \/ RecvDone \/ PollDone \/ PumpInEnd
           \/ PumpOutEnd \/ ConnCloses \/ ReapStreams
  <2>1. bridge' = bridge
    BY <1>4 DEF vars, taskVars, SelectUdp, SelectEgress, SelectEgressUnknown,
       SelectCredit, UdpError, RecvDone, PollDone, PumpInEnd, PumpOutEnd, ConnCloses,
       ReapStreams
  <2> QED BY <2>1
<1> QED BY <1>1, <1>2, <1>3, <1>4 DEF Next, Loop, Turn

\* A step that leaves s in the map, or outside it.
LEMMA ReleaseUnmoved ==
  ASSUME TypeOK, OutboundEndInv, [Next]_vars, NEW s \in Streams, Release(s),
         st'[s].fin_sent => \/ st[s].fin_sent
                            \/ snd'[s].stopped
                            \/ snd'[s].fin /\ bridge[s].pc # "none",
         bridge'[s].pc # "none" /\ ~st'[s].present =>
           (bridge[s].pc # "none" /\ ~st[s].present) \/ Cut(s)' \/ Terminated(s)'
  PROVE  Release(s)'
<1>1. SentOn(s) /\ (bridge'[s].pc = "none" => bridge[s].pc = "none")
  BY EveryStepSentOn, BridgeForGood
<1>2. st'[s].fin_sent => snd'[s].stopped \/ (snd'[s].fin /\ bridge'[s].pc # "none")
  BY <1>1 DEF Release, SentOn
<1>3. bridge[s].pc # "none" /\ Terminated(s) => Terminated(s)'
  BY <1>1, FinishedForGood DEF Terminated, SentOn
<1>4. bridge'[s].pc # "none" /\ ~st'[s].present => Cut(s)' \/ Terminated(s)'
  BY <1>3, CutForGood DEF Release
<1> QED BY <1>2, <1>4 DEF Release

LEMMA ReleaseStep ==
  TypeOK /\ OutboundInv /\ InboundEndInv /\ OutboundEndInv /\ ReleaseInv /\ [Next]_vars
    => ReleaseInv'
<1> SUFFICES ASSUME TypeOK, OutboundInv, InboundEndInv, OutboundEndInv, ReleaseInv,
                    [Next]_vars, NEW s \in Streams
             PROVE  Release(s)'
  BY DEF ReleaseInv
<1>0. /\ Release(s) /\ InboundEnd(s) /\ OutboundEnd(s) /\ OutboundChain(s)
      /\ st \in [Streams -> StreamState] /\ snd \in [Streams -> SendingHalf]
      /\ rcv \in [Streams -> ReceivingHalf] /\ bridge \in [Streams -> BridgeTask]
  BY DEF ReleaseInv, InboundEndInv, OutboundEndInv, OutboundInv, TypeOK
<1>1. CASE /\ st'[s].fin_sent = st[s].fin_sent /\ st'[s].present = st[s].present
           /\ bridge'[s].pc = "none" <=> bridge[s].pc = "none"
  BY <1>0, <1>1, ReleaseUnmoved
<1>2. CASE ReapStreams
  <2>0. bridge' = bridge
    BY <1>2 DEF ReapStreams, taskVars
  <2>1. CASE conn_closed
    <3>1. st'[s] = NoState /\ phase' = "gone"
      BY <1>2, <2>1 DEF ReapStreams
    <3> QED BY <1>0, <3>1, ReleaseUnmoved DEF Cut, NoState
  <2>2. CASE Reapable(s) /\ ~conn_closed
    <3>1. /\ st'[s] = NoState
          /\ snd'[s].reset <=> snd[s].reset \/ ~st[s].fin_sent
          /\ snd'[s].fin = snd[s].fin /\ snd'[s].stopped = snd[s].stopped
          /\ rcv'[s].shut <=> rcv[s].shut \/ ~StreamFinished(s)
      <4>1. st'[s] = NoState
        BY <1>2, <2>2 DEF ReapStreams
      <4>2. /\ snd'[s].reset <=> snd[s].reset \/ ~st[s].fin_sent
            /\ snd'[s].fin = snd[s].fin /\ snd'[s].stopped = snd[s].stopped
        BY <1>0, <1>2, <2>2 DEF ReapStreams, SendingHalf
      <4>3. rcv'[s].shut <=> rcv[s].shut \/ ~StreamFinished(s)
        BY <1>0, <1>2, <2>2 DEF ReapStreams, ReceivingHalf
      <4> QED BY <4>1, <4>2, <4>3
    <3>2. Terminated(s)'
      BY <1>0, <3>1, FinishedForGood DEF Terminated, Release
    <3> QED BY <1>0, <3>1, <3>2, ReleaseUnmoved DEF NoState
  <2>3. CASE ~Reapable(s) /\ ~conn_closed
    <3>1. st'[s] = st[s]
      BY <1>2, <2>3 DEF ReapStreams
    <3> QED BY <1>0, <2>0, <3>1, ReleaseUnmoved
  <2> QED BY <2>1, <2>2, <2>3
<1>3. CASE UdpError
  <2>1. st'[s] = NoState /\ phase' = "gone"
    BY <1>3 DEF UdpError
  <2> QED BY <1>0, <2>1, ReleaseUnmoved DEF Cut, NoState
<1>4. CASE SelectEgress
  <2>1. st'[s].fin_sent = st[s].fin_sent /\ st'[s].present = st[s].present
    <3> DEFINE m == Head(egress)
    <3>1. /\ m.stream \in Streams /\ m.out \in {"Data", "Fin", "Closed"}
          /\ st' = [st EXCEPT ![m.stream] = IF @.present THEN Queue(@, m) ELSE @]
      <4>1. m \in Message
        BY <1>4 DEF SelectEgress, TypeOK
      <4> QED BY <1>4, <4>1 DEF SelectEgress, Message
    <3> HIDE DEF m
    <3>2. st'[s] = st[s] \/ st'[s] = Queue(st[s], m)
      BY <1>0, <3>1
    <3> QED BY <1>0, <3>1, <3>2 DEF Queue, StreamState
  <2> QED BY <1>1, <1>4, <2>1 DEF SelectEgress, taskVars
<1>5. ASSUME NEW t \in Streams, OpenStream(t) PROVE Release(s)'
  <2>1. CASE s = t
    <3>1. ~st'[s].fin_sent /\ st'[s].present
      BY <1>0, <1>5, <2>1 DEF OpenStream, Tunnel, NoState
    <3> QED BY <1>0, <3>1, ReleaseUnmoved
  <2>2. CASE s # t
    BY <1>0, <1>1, <1>5, <2>2 DEF OpenStream
  <2> QED BY <2>1, <2>2
<1>6. ASSUME NEW t \in Streams, Poll(t) PROVE Release(s)'
  <2>1. CASE PollHeadersOk(t) /\ Role = "server"
    <3>1. CASE s = t
      <4>1. ~st'[s].fin_sent /\ st'[s].present
        BY <1>0, <2>1, <3>1 DEF PollHeadersOk, Tunnel, NoState
      <4> QED BY <1>0, <4>1, ReleaseUnmoved
    <3>2. CASE s # t
      BY <1>0, <1>1, <2>1, <3>2 DEF PollHeadersOk
    <3> QED BY <3>1, <3>2
  <2>2. CASE ~(PollHeadersOk(t) /\ Role = "server")
    <3>0. bridge' = bridge
      BY <1>6, <2>2 DEF Poll, PollHeadersOk, PollHeadersUnanswered, PollRefused,
         PollNotTunnel, PollData, PollFinished, PollReset
    <3>1. CASE st' = st
      BY <1>1, <3>0, <3>1
    <3>2. CASE MarkReadable(t)
      <4>1. st'[s].fin_sent = st[s].fin_sent /\ st'[s].present = st[s].present
        BY <1>0, <3>2 DEF MarkReadable, StreamState
      <4> QED BY <1>1, <3>0, <4>1
    <3>3. CASE st' = [st EXCEPT ![t] = NoState] /\ (PollRefused(t) \/ PollReset(t))
      <4>1. CASE s = t
        <5>1. rcv'[s].hdrs = "refused" \/ rcv'[s].reset = "seen"
          BY <1>0, <3>3, <4>1 DEF PollRefused, PollReset, ReceivingHalf
        <5>2. Cut(s)' /\ ~st'[s].fin_sent
          BY <1>0, <3>3, <4>1, <5>1 DEF Cut, NoState
        <5> QED BY <1>0, <5>2, ReleaseUnmoved
      <4>2. CASE s # t
        BY <1>0, <1>1, <3>0, <3>3, <4>2
      <4> QED BY <4>1, <4>2
    <3> QED BY <1>6, <2>2, <3>1, <3>2, <3>3 DEF Poll, PollHeadersOk,
               PollHeadersUnanswered, PollRefused, PollNotTunnel, PollData,
               PollFinished, PollReset
  <2> QED BY <2>1, <2>2
<1>7. ASSUME NEW t \in Streams, Network(t) \/ PumpInbound(t) PROVE Release(s)'
  <2>1. bridge' = bridge
    BY <1>7 DEF Network, PumpInbound, taskVars
  <2>2. st'[s].fin_sent = st[s].fin_sent /\ st'[s].present = st[s].present
    <3>1. ASSUME NEW sender, StopReading(t, sender)
          PROVE  st'[s].fin_sent = st[s].fin_sent /\ st'[s].present = st[s].present
      BY <1>0, <3>1 DEF StopReading, StreamState
    <3> QED BY <1>7, <3>1 DEF Network, loopVars, PumpInbound, PumpInNoSender,
               PumpInFull, PumpInClosed, PumpInRecv, PumpInDone, PumpInError
  <2> QED BY <1>1, <2>1, <2>2
<1>8. ASSUME NEW t \in Streams, PumpOutbound(t) PROVE Release(s)'
  <2>0. bridge' = bridge
    BY <1>8 DEF PumpOutbound, taskVars
  <2>1. CASE PumpOutSend(t)
    <3>1. \E p : st' = [st EXCEPT ![t].pending = p]
      BY <1>0, <2>1 DEF PumpOutSend
    <3>2. st'[s].fin_sent = st[s].fin_sent /\ st'[s].present = st[s].present
      BY <1>0, <3>1 DEF StreamState
    <3> QED BY <1>1, <2>0, <3>2
  <2>2. CASE PumpOutBlocked(t)
    BY <1>1, <2>0, <2>2 DEF PumpOutBlocked
  <2>3. CASE PumpOutError(t)
    <3>1. /\ st'[s].present = st[s].present
          /\ st'[s].fin_sent => st[s].fin_sent \/ snd'[s].stopped
      BY <1>0, <2>3 DEF PumpOutError, StreamState
    <3> QED BY <1>0, <2>0, <3>1, ReleaseUnmoved
  <2>4. CASE PumpOutFin(t)
    <3>1. /\ st'[s].present = st[s].present
          /\ st'[s].fin_sent => \/ st[s].fin_sent
                                \/ FinOwed(s) /\ (snd'[s].fin \/ snd'[s].stopped)
      BY <1>0, <2>4 DEF PumpOutFin, StreamState, SendingHalf
    <3>2. FinOwed(s) => bridge[s].pc # "none"
      BY <1>0 DEF FinOwed, OutboundEnd
    <3> QED BY <1>0, <2>0, <3>1, <3>2, ReleaseUnmoved
  <2> QED BY <1>8, <2>1, <2>2, <2>3, <2>4 DEF PumpOutbound
<1>9. ASSUME NEW t \in Streams, Bridge(t) PROVE Release(s)'
  <2>1. st' = st
    BY <1>9 DEF Bridge, loopVars
  <2>2. bridge'[s].pc # "none" => bridge[s].pc # "none"
    BY <1>0, <1>9 DEF Bridge, DialOk, DialFail, DropStream, CopyUp, ShutdownUp, PopRx,
       WriteTcp, ShutdownTcp, CopyDone, CopyError, SendClosed, CopiesUp, CopiesDown,
       Copying
  <2> QED BY <1>0, <2>1, <2>2, ReleaseUnmoved
<1>10. CASE \/ UNCHANGED vars \/ SelectUdp \/ SelectEgressUnknown \/ SelectCredit
            \/ RecvDone \/ PollDone \/ PumpInEnd \/ PumpOutEnd \/ ConnCloses
  <2>1. UNCHANGED <<st, bridge>>
    BY <1>10 DEF vars, loopVars, taskVars, SelectUdp, SelectEgressUnknown,
       SelectCredit, RecvDone, PollDone, PumpInEnd, PumpOutEnd, ConnCloses
  <2> QED BY <1>1, <2>1
<1> QED BY <1>2, <1>3, <1>4, <1>5, <1>6, <1>7, <1>8, <1>9, <1>10 DEF Next, Loop, Turn

\* reap_streams leaves the QUIC peer no half-open stream: whenever a bridge is
\* done and the loop has forgotten its stream, each half was finished, reset or
\* stopped, unless a cut had ended the stream before.
THEOREM ReapCorrect == Spec => []ReapedIsTerminated
<1>1. ReleaseInv => ReapedIsTerminated
  <2>1. \A s \in Streams : bridge[s].pc = "done" => bridge[s].pc # "none"
    OBVIOUS
  <2> QED BY <2>1 DEF ReleaseInv, Release, Terminated, ReapedIsTerminated
<1> QED BY <1>1, TypeCorrect, ChainInit, ChainStep, OutboundInit, OutboundStep,
           InboundEndInit, InboundEndStep, OutboundEndInit, OutboundEndStep,
           ReleaseInit, ReleaseStep, PTL DEF Spec

-----------------------------------------------------------------------------
(* A stream is reset for a failure only.                                   *)

\* The positions in the channel e that tell that the bridge of s is gone.
ClosedAt(e, s) == {i \in 1 .. Len(e) : e[i].stream = s /\ e[i].out = "Closed"}

\* The end of s comes before its close notice.
ClosedLast(e, s) == \A i \in ClosedAt(e, s), j \in FinAt(e, s) : j < i

\* A bridge that did not fail queued the Fin before the close notice, and what
\* it announced is on its way to the loop or owed by it.
CleanEnd(s) ==
  /\ snd[s].reset /\ rcv[s].hdrs # "refused" =>
       bridge[s].failed /\ bridge[s].pc = "done"
  /\ bridge[s].pc \in {"closing", "done"} /\ ~bridge[s].failed => bridge[s].up = "done"
  /\ st[s].present /\ bridge[s].up = "done" =>
       st[s].fin_pending \/ FinAt(egress, s) # {}
  /\ st[s].closed => FinAt(egress, s) = {}
  /\ ClosedLast(egress, s)

CleanEndInv == \A s \in Streams : CleanEnd(s)

LEMMA CleanEndInit == Init => CleanEndInv
<1> SUFFICES ASSUME Init, NEW s \in Streams PROVE CleanEnd(s)
  BY DEF CleanEndInv
<1>1. /\ ~snd[s].reset /\ ~st[s].present /\ ~st[s].closed
      /\ bridge[s].pc = "none" /\ Len(egress) = 0
  BY DEF Init, NoState
<1>2. FinAt(egress, s) = {} /\ ClosedAt(egress, s) = {}
  BY <1>1 DEF FinAt, ClosedAt
<1> QED BY <1>1, <1>2 DEF CleanEnd, ClosedLast

\* Taking the first message off the channel.
LEMMA ClosedTail ==
  ASSUME NEW e \in Seq(Message), e # <<>>, NEW s \in Streams
  PROVE  /\ ClosedLast(e, s) => ClosedLast(Tail(e), s)
         /\ FinAt(e, s) # {} /\ ~(Head(e).stream = s /\ Head(e).out = "Fin")
              => FinAt(Tail(e), s) # {}
         /\ Head(e).stream = s /\ Head(e).out = "Closed" /\ ClosedLast(e, s)
              => FinAt(e, s) = {}
<1>1. /\ Len(e) \in Nat \ {0} /\ Len(Tail(e)) = Len(e) - 1 /\ Head(e) = e[1]
      /\ \A i \in 1 .. Len(e) - 1 : Tail(e)[i] = e[i + 1]
  OBVIOUS
<1>2. \A i \in FinAt(Tail(e), s) : i + 1 \in FinAt(e, s) /\ i \in Nat
  BY <1>1 DEF FinAt
<1>3. \A i \in ClosedAt(Tail(e), s) : i + 1 \in ClosedAt(e, s) /\ i \in Nat
  BY <1>1 DEF ClosedAt
<1>4. ClosedLast(e, s) => ClosedLast(Tail(e), s)
  <2> SUFFICES ASSUME ClosedLast(e, s), NEW i \in ClosedAt(Tail(e), s),
                      NEW j \in FinAt(Tail(e), s)
               PROVE  j < i
    BY DEF ClosedLast
  <2>1. j + 1 < i + 1
    BY <1>2, <1>3 DEF ClosedLast
  <2> QED BY <1>2, <1>3, <2>1
<1>5. ASSUME NEW i \in FinAt(e, s), ~(Head(e).stream = s /\ Head(e).out = "Fin")
      PROVE  FinAt(Tail(e), s) # {}
  <2>1. i \in 1 .. Len(e) /\ e[i].stream = s /\ e[i].out = "Fin" /\ i # 1
    BY <1>1, <1>5 DEF FinAt
  <2>2. i - 1 \in 1 .. Len(e) - 1 /\ Tail(e)[i - 1] = e[i]
    BY <1>1, <2>1
  <2>3. i - 1 \in FinAt(Tail(e), s)
    BY <1>1, <2>1, <2>2 DEF FinAt
  <2> QED BY <2>3
<1>6. ASSUME Head(e).stream = s, Head(e).out = "Closed", ClosedLast(e, s),
             NEW j \in FinAt(e, s)
      PROVE  FALSE
  <2>1. 1 \in ClosedAt(e, s)
    BY <1>1, <1>6 DEF ClosedAt
  <2>2. j < 1 /\ j \in Nat /\ j >= 1
    BY <1>6, <2>1 DEF ClosedLast, FinAt
  <2> QED BY <2>2
<1> QED BY <1>4, <1>5, <1>6

\* Appending a message to the channel.
LEMMA ClosedAppend ==
  ASSUME NEW e \in Seq(Message), NEW s \in Streams, NEW m \in Message
  PROVE  /\ FinAt(e, s) # {} => FinAt(Append(e, m), s) # {}
         /\ m.stream = s /\ m.out = "Fin" => FinAt(Append(e, m), s) # {}
         /\ m.stream # s \/ m.out # "Fin" =>
              (ClosedLast(e, s) => ClosedLast(Append(e, m), s))
         /\ ClosedAt(e, s) = {} /\ m.out # "Closed" => ClosedLast(Append(e, m), s)
<1> DEFINE f == Append(e, m)
<1>1. /\ Len(e) \in Nat /\ Len(f) = Len(e) + 1 /\ f[Len(e) + 1] = m
      /\ \A i \in 1 .. Len(e) : f[i] = e[i]
  OBVIOUS
<1> HIDE DEF f
<1>2. FinAt(e, s) # {} => FinAt(f, s) # {}
  BY <1>1 DEF FinAt
<1>3. m.stream = s /\ m.out = "Fin" => Len(e) + 1 \in FinAt(f, s)
  BY <1>1 DEF FinAt
<1>4. m.stream # s \/ m.out # "Fin" => FinAt(f, s) = FinAt(e, s)
  BY <1>1 DEF FinAt
<1>5. \A i \in ClosedAt(f, s) : i \in ClosedAt(e, s) \/ (i = Len(e) + 1 /\ m.out = "Closed")
  BY <1>1 DEF ClosedAt
<1>6. \A j \in FinAt(e, s) : j \in Nat /\ j < Len(e) + 1
  BY <1>1 DEF FinAt
<1>7. m.stream # s \/ m.out # "Fin" => (ClosedLast(e, s) => ClosedLast(f, s))
  BY <1>4, <1>5, <1>6 DEF ClosedLast
<1>8. ClosedAt(e, s) = {} /\ m.out # "Closed" => ClosedLast(f, s)
  BY <1>5 DEF ClosedLast
<1> QED BY <1>2, <1>3, <1>7, <1>8 DEF f

\* A step that takes nothing of this away from s.
LEMMA CleanEndUnmoved ==
  ASSUME NEW s \in Streams, CleanEnd(s),
         snd'[s].reset = snd[s].reset \/ rcv'[s].hdrs = "refused",
         rcv[s].hdrs = "refused" => rcv'[s].hdrs = "refused",
         bridge'[s].up = bridge[s].up, bridge'[s].failed = bridge[s].failed,
         \/ bridge'[s].pc = bridge[s].pc
         \/ bridge'[s].pc = "done" /\ bridge[s].pc = "closing"
         \/ bridge'[s].pc = "copying" /\ bridge[s].pc # "done",
         st'[s].present => st[s].present /\ (st[s].fin_pending => st'[s].fin_pending),
         st'[s].closed => st[s].closed,
         FinAt(egress, s)' = FinAt(egress, s) \/ (egress' = <<>> /\ ~st'[s].present),
         ClosedLast(egress, s) => ClosedLast(egress, s)'
  PROVE  CleanEnd(s)'
<1>1. egress' = <<>> => FinAt(egress, s)' = {}
  BY DEF FinAt
<1> QED BY <1>1 DEF CleanEnd

\* A tunnel that starts has ended nothing yet.
LEMMA CleanEndStart ==
  ASSUME NEW s \in Streams, CleanEnd(s), OutboundEnd(s),
         bridge[s].pc = "none", bridge'[s].pc \in {"dialing", "copying"},
         bridge'[s].up = bridge[s].up, st'[s] = Tunnel,
         rcv'[s].hdrs = rcv[s].hdrs \/ rcv[s].hdrs # "refused",
         UNCHANGED <<snd, egress>>
  PROVE  CleanEnd(s)'
<1>1. ~st'[s].closed
  BY DEF Tunnel, NoState
<1>2. bridge[s].up # "done" /\ (snd[s].reset => rcv[s].hdrs = "refused")
  BY DEF OutboundEnd, CleanEnd
<1> QED BY <1>1, <1>2 DEF CleanEnd

\* The loop takes a message off the channel.
LEMMA CleanEndSelect ==
  ASSUME TypeOK, CleanEndInv, SelectEgress
  PROVE  CleanEndInv'
<1> SUFFICES ASSUME NEW s \in Streams PROVE CleanEnd(s)'
  BY DEF CleanEndInv
<1> DEFINE m == Head(egress)
<1>0. /\ CleanEnd(s) /\ UNCHANGED <<rcv, snd, bridge>>
      /\ egress \in Seq(Message) /\ egress # <<>> /\ m \in Message
      /\ st \in [Streams -> StreamState] /\ egress' = Tail(egress)
      /\ st' = [st EXCEPT ![m.stream] = IF @.present THEN Queue(@, m) ELSE @]
  BY DEF CleanEndInv, SelectEgress, quicVars, taskVars, TypeOK
<1>1. m.stream \in Streams /\ m.out \in {"Data", "Fin", "Closed"}
  BY <1>0 DEF Message
<1>2. /\ ClosedLast(egress, s) => ClosedLast(egress', s)
      /\ FinAt(egress, s) # {} /\ ~(m.stream = s /\ m.out = "Fin") => FinAt(egress', s) # {}
      /\ m.stream = s /\ m.out = "Closed" /\ ClosedLast(egress, s) => FinAt(egress, s) = {}
      /\ FinAt(egress, s) = {} => FinAt(egress', s) = {}
  BY <1>0, ClosedTail, FinTail
<1> HIDE DEF m
<1>3. /\ st'[s].present = st[s].present
      /\ st[s].fin_pending => st'[s].fin_pending
      /\ st[s].present /\ m.stream = s /\ m.out = "Fin" => st'[s].fin_pending
      /\ st'[s].closed => st[s].closed \/ (m.stream = s /\ m.out = "Closed")
  <2>1. CASE m.stream = s /\ st[s].present
    <3>1. st'[s] = Queue(st[s], m)
      BY <1>0, <2>1
    <3> QED BY <1>0, <1>1, <2>1, <3>1 DEF Queue, StreamState
  <2>2. CASE ~(m.stream = s /\ st[s].present)
    <3>1. st'[s] = st[s]
      BY <1>0, <1>1, <2>2
    <3> QED BY <2>2, <3>1
  <2> QED BY <2>1, <2>2
<1>4. ClosedLast(egress, s)
  BY <1>0 DEF CleanEnd
<1>5. st'[s].closed => FinAt(egress', s) = {}
  BY <1>0, <1>2, <1>3, <1>4 DEF CleanEnd
<1>6. st'[s].present /\ bridge[s].up = "done" => st'[s].fin_pending \/ FinAt(egress', s) # {}
  BY <1>0, <1>2, <1>3 DEF CleanEnd
<1> QED BY <1>0, <1>2, <1>4, <1>5, <1>6 DEF CleanEnd

\* A bridge announces its end before its close.
LEMMA CleanEndBridge ==
  ASSUME TypeOK, InboundEndInv, OutboundInv, CleanEndInv, NEW t \in Streams, Bridge(t)
  PROVE  CleanEndInv'
<1> SUFFICES ASSUME NEW s \in Streams PROVE CleanEnd(s)'
  BY DEF CleanEndInv
<1>0. /\ CleanEnd(s) /\ InboundEnd(s) /\ OutboundChain(s)
      /\ UNCHANGED <<phase, st, rcv, snd>>
      /\ bridge \in [Streams -> BridgeTask] /\ egress \in Seq(Message)
  BY DEF CleanEndInv, InboundEndInv, OutboundInv, Bridge, loopVars, quicVars, TypeOK
<1>1. bridge[s].pc # "done" => /\ ClosedAt(egress, s) = {} /\ ~st[s].closed
                               /\ snd[s].reset => rcv[s].hdrs = "refused"
  BY <1>0 DEF InboundEnd, ClosedAt, CleanEnd
<1>2. CASE egress' = egress /\ bridge' = bridge
  BY <1>0, <1>2, CleanEndUnmoved
<1>3. CASE CopyUp(t)
  <2>1. PICK n \in 1 .. COPY_BUF : Send(Msg(t, "Data", tcp[t].read, tcp[t].read + n))
    BY <1>3 DEF CopyUp
  <2>2. n \in Nat /\ tcp[t].read \in Nat
    BY <2>1, QuicTunnelAssumption DEF TypeOK, LocalSocket
  <2>3. PICK m \in Message : m.out = "Data" /\ egress' = Append(egress, m)
    BY <2>1, <2>2 DEF Send, Msg, Message, Chunk
  <2>4. m.out # "Fin"
    BY <2>3
  <2>5. /\ FinAt(egress, s)' = FinAt(egress, s)
        /\ ClosedLast(egress, s) => ClosedLast(egress, s)'
    BY <1>0, <2>3, <2>4, FinAppend, ClosedAppend
  <2> QED BY <1>0, <1>3, <2>5, CleanEndUnmoved DEF CopyUp
<1>4. CASE ShutdownUp(t)
  <2>1. /\ bridge' = [bridge EXCEPT ![t].up = "done"] /\ bridge[t].pc = "copying"
    BY <1>4 DEF ShutdownUp, CopiesUp, Copying
  <2>2. CASE SendIgnored
    <3>1. egress' = egress /\ ~st[s].present
      BY <1>0, <2>2, QuicTunnelAssumption DEF SendIgnored, EgressOpen, OutboundChain
    <3>2. CASE s = t
      <4>1. bridge'[s].pc = "copying" /\ bridge'[s].failed = bridge[s].failed
        BY <1>0, <2>1, <3>2 DEF BridgeTask
      <4> QED BY <1>0, <1>1, <2>1, <3>1, <3>2, <4>1 DEF CleanEnd
    <3>3. CASE s # t
      <4>1. bridge'[s] = bridge[s]
        BY <1>0, <2>1, <3>3
      <4> QED BY <1>0, <3>1, <4>1, CleanEndUnmoved
    <3> QED BY <3>2, <3>3
  <2>3. CASE Send(Msg(t, "Fin", 0, 0))
    <3>1. PICK m \in Message : m.stream = t /\ m.out = "Fin" /\ egress' = Append(egress, m)
      BY <2>3 DEF Send, Msg, Message, Chunk
    <3>2. m.out # "Closed"
      BY <3>1
    <3>3. CASE s = t
      <4>1. bridge'[s].pc = "copying"
        BY <1>0, <2>1, <3>3 DEF BridgeTask
      <4>2. FinAt(egress, s)' # {} /\ ClosedLast(egress, s)'
        BY <1>0, <1>1, <2>1, <3>1, <3>2, <3>3, ClosedAppend
      <4> QED BY <1>0, <1>1, <2>1, <3>3, <4>1, <4>2 DEF CleanEnd
    <3>4. CASE s # t
      <4>1. bridge'[s] = bridge[s]
        BY <1>0, <2>1, <3>4
      <4>2. /\ FinAt(egress, s)' = FinAt(egress, s)
            /\ ClosedLast(egress, s) => ClosedLast(egress, s)'
        BY <1>0, <3>1, <3>4, FinAppend, ClosedAppend
      <4> QED BY <1>0, <4>1, <4>2, CleanEndUnmoved
    <3> QED BY <3>3, <3>4
  <2> QED BY <1>4, <2>2, <2>3 DEF ShutdownUp
<1>5. CASE DialFail(t) \/ CopyDone(t) \/ CopyError(t)
  <2>1. PICK failed \in BOOLEAN : /\ DropStream(t, failed)
                                  /\ ~failed => bridge[t].up = "done"
    BY <1>5 DEF DialFail, CopyDone, BothDone, CopyError
  <2>2. bridge[t].pc \in {"dialing", "copying"}
    BY <1>5 DEF DialFail, CopyDone, CopyError, Copying
  <2>3. egress' = egress
    BY <2>1 DEF DropStream
  <2>4. CASE s = t
    <3>1. bridge'[s].pc = "closing" /\ bridge'[s].failed = failed
          /\ bridge'[s].up = bridge[s].up
      BY <1>0, <2>1, <2>4 DEF DropStream, BridgeTask
    <3> QED BY <1>0, <1>1, <2>1, <2>2, <2>3, <2>4, <3>1 DEF CleanEnd
  <2>5. CASE s # t
    <3>1. bridge'[s] = bridge[s]
      BY <1>0, <2>1, <2>5 DEF DropStream
    <3> QED BY <1>0, <2>3, <3>1, CleanEndUnmoved
  <2> QED BY <2>4, <2>5
<1>6. CASE SendClosed(t)
  <2>1. bridge' = [bridge EXCEPT ![t].pc = "done"] /\ bridge[t].pc = "closing"
    BY <1>6 DEF SendClosed
  <2>2. \/ egress' = egress
        \/ \E m \in Message : m.out = "Closed" /\ egress' = Append(egress, m)
    BY <1>6 DEF SendClosed, Send, SendIgnored, Msg, Message, Chunk
  <2>3. /\ FinAt(egress, s)' = FinAt(egress, s)
        /\ ClosedLast(egress, s) => ClosedLast(egress, s)'
    <3>1. ASSUME NEW m \in Message, m.out = "Closed", egress' = Append(egress, m)
          PROVE  /\ FinAt(egress, s)' = FinAt(egress, s)
                 /\ ClosedLast(egress, s) => ClosedLast(egress, s)'
      <4>1. m.out # "Fin"
        BY <3>1
      <4> QED BY <1>0, <3>1, <4>1, FinAppend, ClosedAppend
    <3>2. CASE egress' = egress
      BY <3>2
    <3> QED BY <2>2, <3>1, <3>2
  <2>4. /\ bridge'[s].up = bridge[s].up /\ bridge'[s].failed = bridge[s].failed
        /\ \/ bridge'[s].pc = bridge[s].pc
           \/ bridge'[s].pc = "done" /\ bridge[s].pc = "closing"
    BY <1>0, <2>1 DEF BridgeTask
  <2> QED BY <1>0, <2>3, <2>4, CleanEndUnmoved
<1>7. CASE DialOk(t) \/ ShutdownTcp(t)
  <2>1. /\ egress' = egress
        /\ bridge'[s].up = bridge[s].up /\ bridge'[s].failed = bridge[s].failed
        /\ \/ bridge'[s].pc = bridge[s].pc
           \/ bridge'[s].pc = "copying" /\ bridge[s].pc # "done"
    BY <1>0, <1>7 DEF DialOk, ShutdownTcp, BridgeTask
  <2> QED BY <1>0, <2>1, CleanEndUnmoved
<1>8. CASE PopRx(t) \/ WriteTcp(t)
  BY <1>2, <1>8 DEF PopRx, WriteTcp
<1> QED BY <1>3, <1>4, <1>5, <1>6, <1>7, <1>8 DEF Bridge

\* The reaper resets a stream only when its bridge failed: had it ended cleanly
\* its fin would be on its way, or owed, or sent.
LEMMA CleanEndReap ==
  ASSUME TypeOK, InboundEndInv, CleanEndInv, ReapStreams
  PROVE  CleanEndInv'
<1> SUFFICES ASSUME NEW s \in Streams PROVE CleanEnd(s)'
  BY DEF CleanEndInv
<1>0. /\ CleanEnd(s) /\ InboundEnd(s) /\ bridge' = bridge
      /\ snd \in [Streams -> SendingHalf] /\ rcv \in [Streams -> ReceivingHalf]
  BY DEF CleanEndInv, InboundEndInv, ReapStreams, taskVars, TypeOK
<1>1. /\ snd'[s].reset => snd[s].reset \/ (Reapable(s) /\ ~st[s].fin_sent)
      /\ rcv'[s].hdrs = rcv[s].hdrs
  BY <1>0 DEF ReapStreams, SendingHalf, ReceivingHalf
<1>2. Reapable(s) /\ ~st[s].fin_sent => bridge[s].failed /\ bridge[s].pc = "done"
  BY <1>0 DEF Reapable, Drained, InboundEnd, CleanEnd
<1>3. snd'[s].reset /\ rcv'[s].hdrs # "refused" => bridge[s].failed /\ bridge[s].pc = "done"
  BY <1>0, <1>1, <1>2 DEF CleanEnd
<1>4. /\ st'[s] = NoState \/ (st'[s] = st[s] /\ ~conn_closed)
      /\ egress' = egress \/ (egress' = <<>> /\ conn_closed)
  BY DEF ReapStreams
<1>5. egress' = <<>> => FinAt(egress', s) = {} /\ ClosedAt(egress', s) = {}
  <2>1. egress' = <<>> => Len(egress') = 0
    OBVIOUS
  <2> QED BY <2>1 DEF FinAt, ClosedAt
<1>6. ClosedLast(egress', s)
  BY <1>0, <1>4, <1>5 DEF ClosedLast, CleanEnd
<1>7. CASE st'[s] = NoState
  BY <1>0, <1>3, <1>6, <1>7 DEF CleanEnd, NoState
<1>8. CASE st'[s] = st[s] /\ egress' = egress
  BY <1>0, <1>3, <1>6, <1>8 DEF CleanEnd
<1> QED BY <1>4, <1>7, <1>8

LEMMA CleanEndStep ==
  TypeOK /\ OutboundInv /\ InboundEndInv /\ OutboundEndInv /\ CleanEndInv /\ [Next]_vars
    => CleanEndInv'
<1> SUFFICES ASSUME TypeOK, OutboundInv, InboundEndInv, OutboundEndInv, CleanEndInv,
                    [Next]_vars
             PROVE  CleanEndInv'
  OBVIOUS
<1>0. /\ st \in [Streams -> StreamState] /\ snd \in [Streams -> SendingHalf]
      /\ rcv \in [Streams -> ReceivingHalf] /\ bridge \in [Streams -> BridgeTask]
      /\ egress \in Seq(Message)
  BY DEF TypeOK
<1>1. \A s \in Streams : rcv[s].hdrs = "refused" => rcv'[s].hdrs = "refused"
  BY EveryStepMovesOn DEF MovesOn
<1>2. CASE \/ UNCHANGED vars \/ SelectUdp \/ SelectCredit \/ RecvDone \/ PollDone
           \/ PumpInEnd \/ PumpOutEnd \/ ConnCloses
  <2> SUFFICES ASSUME NEW s \in Streams PROVE CleanEnd(s)'
    BY DEF CleanEndInv
  <2>1. CleanEnd(s) /\ UNCHANGED <<st, rcv, snd, egress, bridge>>
    BY <1>2 DEF CleanEndInv, vars, loopVars, quicVars, taskVars, SelectUdp,
       SelectCredit, RecvDone, PollDone, PumpInEnd, PumpOutEnd, ConnCloses
  <2> QED BY <1>1, <2>1, CleanEndUnmoved
<1>3. CASE UdpError
  <2> SUFFICES ASSUME NEW s \in Streams PROVE CleanEnd(s)'
    BY DEF CleanEndInv
  <2>1. /\ CleanEnd(s) /\ UNCHANGED <<rcv, snd, bridge>>
        /\ st'[s] = NoState /\ egress' = <<>>
    BY <1>3 DEF CleanEndInv, UdpError, quicVars, taskVars
  <2>2. ClosedLast(egress', s)
    <3>1. Len(egress') = 0
      BY <2>1
    <3> QED BY <3>1 DEF ClosedLast, ClosedAt
  <2> QED BY <2>1, <2>2 DEF CleanEnd, NoState
<1>4. CASE SelectEgressUnknown
  <2> SUFFICES ASSUME NEW s \in Streams PROVE CleanEnd(s)'
    BY DEF CleanEndInv
  <2>1. /\ CleanEnd(s) /\ UNCHANGED <<st, rcv, snd, bridge>> /\ ~st[s].present
        /\ egress # <<>> /\ egress' = Tail(egress)
    BY <1>4 DEF CleanEndInv, OutboundInv, OutboundChain, SelectEgressUnknown, loopVars,
       quicVars, taskVars
  <2>2. /\ FinAt(egress, s) = {} => FinAt(egress', s) = {}
        /\ ClosedLast(egress, s) => ClosedLast(egress', s)
    BY <1>0, <2>1, FinTail, ClosedTail
  <2> QED BY <2>1, <2>2 DEF CleanEnd
<1>5. ASSUME NEW t \in Streams, OpenStream(t) PROVE CleanEndInv'
  <2> SUFFICES ASSUME NEW s \in Streams PROVE CleanEnd(s)'
    BY DEF CleanEndInv
  <2>1. /\ CleanEnd(s) /\ OutboundEnd(s) /\ UNCHANGED <<rcv, snd, egress>>
        /\ st' = [st EXCEPT ![t] = Tunnel]
        /\ bridge' = [bridge EXCEPT ![t].pc = "copying"] /\ bridge[t].pc = "none"
    BY <1>5 DEF CleanEndInv, OutboundEndInv, OpenStream, quicVars
  <2>2. CASE s # t
    <3>1. st'[s] = st[s] /\ bridge'[s] = bridge[s]
      BY <1>0, <2>1, <2>2
    <3> QED BY <1>1, <2>1, <3>1, CleanEndUnmoved
  <2>3. CASE s = t
    <3>1. st'[s] = Tunnel /\ bridge'[s].pc = "copying" /\ bridge'[s].up = bridge[s].up
      BY <1>0, <2>1, <2>3 DEF BridgeTask
    <3> QED BY <2>1, <2>3, <3>1, CleanEndStart
  <2> QED BY <2>2, <2>3
<1>6. ASSUME NEW t \in Streams, Poll(t) PROVE CleanEndInv'
  <2> SUFFICES ASSUME NEW s \in Streams PROVE CleanEnd(s)'
    BY DEF CleanEndInv
  <2>0. CleanEnd(s) /\ OutboundEnd(s) /\ egress' = egress
    BY <1>6 DEF CleanEndInv, OutboundEndInv, Poll
  <2>1. CASE PollHeadersOk(t) /\ Role = "server"
    <3>1. /\ st' = [st EXCEPT ![t] = Tunnel] /\ snd' = snd
          /\ bridge' = [bridge EXCEPT ![t].pc = "dialing"]
          /\ rcv' = [rcv EXCEPT ![t].hdrs = "seen"] /\ rcv[t].hdrs = "ok"
      BY <2>1 DEF PollHeadersOk
    <3>2. CASE s # t
      <4>1. st'[s] = st[s] /\ bridge'[s] = bridge[s]
        BY <1>0, <3>1, <3>2
      <4> QED BY <1>1, <2>0, <3>1, <4>1, CleanEndUnmoved
    <3>3. CASE s = t
      <4>1. st'[s] = Tunnel /\ bridge'[s].pc = "dialing" /\ bridge'[s].up = bridge[s].up
        BY <1>0, <3>1, <3>3 DEF BridgeTask
      <4>2. bridge[s].pc = "none"
        BY <2>0, <2>1, <3>1, <3>3 DEF OutboundEnd
      <4> QED BY <2>0, <3>1, <3>3, <4>1, <4>2, CleanEndStart
    <3> QED BY <3>2, <3>3
  <2>2. CASE ~(PollHeadersOk(t) /\ Role = "server")
    <3>1. bridge' = bridge
      BY <1>6, <2>2 DEF Poll, PollHeadersOk, PollHeadersUnanswered, PollRefused,
         PollNotTunnel, PollData, PollFinished, PollReset
    <3>2. snd'[s].reset = snd[s].reset \/ rcv'[s].hdrs = "refused"
      <4>1. CASE PollHeadersUnanswered(t)
        BY <1>0, <4>1 DEF PollHeadersUnanswered, SendingHalf, ReceivingHalf
      <4>2. CASE PollNotTunnel(t)
        <5>1. \E sent \in BOOLEAN : snd' = [snd EXCEPT ![t].fin = sent]
          BY <4>2 DEF PollNotTunnel
        <5> QED BY <1>0, <5>1 DEF SendingHalf
      <4>3. CASE snd' = snd
        BY <4>3
      <4> QED BY <1>6, <4>1, <4>2, <4>3 DEF Poll, PollHeadersOk, PollRefused, PollData,
                 PollFinished, PollReset
    <3>3. /\ st'[s].present => st[s].present /\ st'[s].fin_pending = st[s].fin_pending
          /\ st'[s].closed => st[s].closed
      <4>1. CASE st' = st
        BY <4>1
      <4>2. CASE MarkReadable(t)
        BY <1>0, <4>2 DEF MarkReadable, StreamState
      <4>3. CASE st' = [st EXCEPT ![t] = NoState]
        BY <1>0, <4>3 DEF NoState
      <4> QED BY <1>6, <2>2, <4>1, <4>2, <4>3 DEF Poll, PollHeadersOk,
                 PollHeadersUnanswered, PollRefused, PollNotTunnel, PollData,
                 PollFinished, PollReset
    <3> QED BY <1>1, <2>0, <3>1, <3>2, <3>3, CleanEndUnmoved
  <2> QED BY <2>1, <2>2
<1>7. ASSUME NEW t \in Streams, Network(t) \/ PumpInbound(t) \/ PumpOutbound(t)
      PROVE  CleanEndInv'
  <2> SUFFICES ASSUME NEW s \in Streams PROVE CleanEnd(s)'
    BY DEF CleanEndInv
  <2>1. CleanEnd(s) /\ UNCHANGED <<egress, bridge>>
    BY <1>7 DEF CleanEndInv, Network, PumpInbound, PumpOutbound, taskVars
  <2>2. /\ st'[s].present = st[s].present /\ st'[s].closed = st[s].closed
        /\ st'[s].fin_pending = st[s].fin_pending
    <3>1. CASE st' = st
      BY <3>1
    <3>2. ASSUME NEW sender, StopReading(t, sender)
          PROVE  /\ st'[s].present = st[s].present /\ st'[s].closed = st[s].closed
                 /\ st'[s].fin_pending = st[s].fin_pending
      BY <1>0, <3>2 DEF StopReading, StreamState
    <3>3. ASSUME NEW p, st' = [st EXCEPT ![t].pending = p]
          PROVE  /\ st'[s].present = st[s].present /\ st'[s].closed = st[s].closed
                 /\ st'[s].fin_pending = st[s].fin_pending
      BY <1>0, <3>3 DEF StreamState
    <3>4. PumpOutSend(t) => \E p : st' = [st EXCEPT ![t].pending = p]
      BY <1>0 DEF PumpOutSend
    <3>5. CASE PumpOutError(t)
      BY <1>0, <3>5 DEF PumpOutError, StreamState
    <3>6. CASE PumpOutFin(t)
      BY <1>0, <3>6 DEF PumpOutFin, StreamState
    <3>7. PumpInbound(t) => st' = st \/ \E sender : StopReading(t, sender)
      BY DEF PumpInbound, PumpInNoSender, PumpInFull, PumpInClosed, PumpInRecv,
         PumpInDone, PumpInError
    <3> QED BY <1>7, <3>1, <3>2, <3>3, <3>4, <3>5, <3>6, <3>7
            DEF Network, loopVars, PumpOutbound, PumpOutBlocked
  <2>3. snd'[s].reset = snd[s].reset
    <3>1. CASE FrameStop(t)
      BY <1>0, <3>1 DEF FrameStop, SendingHalf
    <3>2. CASE FrameCredit(t)
      BY <1>0, <3>2 DEF FrameCredit, SendingHalf
    <3>3. CASE PumpOutSend(t)
      BY <1>0, <3>3 DEF PumpOutSend, SendingHalf
    <3>4. CASE PumpOutFin(t)
      BY <1>0, <3>4 DEF PumpOutFin, SendingHalf
    <3>5. CASE snd' = snd
      BY <3>5
    <3> QED BY <1>7, <3>1, <3>2, <3>3, <3>4, <3>5 DEF Network, FrameHeaders, FrameData,
               FrameFin, FrameReset, PumpInbound, PumpOutbound, PumpOutBlocked,
               PumpOutError
  <2> QED BY <1>1, <2>1, <2>2, <2>3, CleanEndUnmoved
<1>8. ASSUME NEW t \in Streams, Bridge(t) PROVE CleanEndInv'
  BY <1>8, CleanEndBridge
<1>9. CASE SelectEgress \/ ReapStreams
  BY <1>9, CleanEndSelect, CleanEndReap
<1> QED BY <1>2, <1>3, <1>4, <1>5, <1>6, <1>7, <1>8, <1>9 DEF Next, Loop, Turn

\* reap_streams resets a stream, rather than finishing it, only when the bridge
\* failed: the close notice of a clean bridge never overtakes its Fin, through
\* the shared channel or in the map.
THEOREM ResetCorrect == Spec => []ResetOnlyAfterFailure
<1>1. CleanEndInv => ResetOnlyAfterFailure
  BY DEF CleanEndInv, CleanEnd, ResetOnlyAfterFailure
<1> QED BY <1>1, TypeCorrect, ChainInit, ChainStep, OutboundInit, OutboundStep,
           InboundEndInit, InboundEndStep, OutboundEndInit, OutboundEndStep,
           CleanEndInit, CleanEndStep, PTL DEF Spec

-----------------------------------------------------------------------------
(* Inbound bytes pile up to a bound.                                       *)

\* The most bytes k calls of recv_body return.
Most(k) == k * RECV_CHUNK

LEMMA MostNext ==
  ASSUME NEW k \in Nat
  PROVE  Most(k) \in Nat /\ Most(k + 1) = Most(k) + RECV_CHUNK
<1>1. RECV_CHUNK \in Nat
  BY QuicTunnelAssumption
<1> QED BY <1>1 DEF Most

LEMMA MostGrows ==
  ASSUME NEW j \in Nat, NEW k \in Nat, j <= k
  PROVE  Most(j) <= Most(k)
<1>1. RECV_CHUNK \in Nat
  BY QuicTunnelAssumption
<1>2. PICK d \in Nat : k = j + d
  <2>1. k - j \in Nat /\ k = j + (k - j)
    OBVIOUS
  <2> QED BY <2>1
<1>3. k * RECV_CHUNK = j * RECV_CHUNK + d * RECV_CHUNK
  BY <1>1, <1>2
<1>4. d * RECV_CHUNK \in Nat /\ j * RECV_CHUNK \in Nat
  BY <1>1, <1>2
<1> QED BY <1>3, <1>4 DEF Most

\* What quiche holds is bounded by the window, and the i-th chunk of the
\* channel and all that follow it, or the held chunk and the whole channel, by
\* as many calls of recv_body.
Bounded(s) ==
  /\ rcv[s].arrived <= rcv[s].read + RecvWindow
  /\ bridge[s].pc \in {"none", "dialing", "copying"} =>
       /\ rcv[s].read <= held[s].lo + Most(Len(rx[s]) + 1)
       /\ \A i \in 1 .. Len(rx[s]) :
            rcv[s].read <= rx[s][i].lo + Most(Len(rx[s]) - i + 1)

BoundedInv == \A s \in Streams : Bounded(s)

LEMMA BoundedInit == Init => BoundedInv
<1> SUFFICES ASSUME Init, NEW s \in Streams PROVE Bounded(s)
  BY DEF BoundedInv
<1>1. /\ rcv[s].arrived = 0 /\ rcv[s].read = 0 /\ held[s].lo = 0 /\ Len(rx[s]) = 0
  BY DEF Init, Nothing
<1>2. Most(0 + 1) \in Nat /\ RecvWindow \in Nat
  BY MostNext, QuicTunnelAssumption
<1> QED BY <1>1, <1>2 DEF Bounded

\* A step that moves nothing along the receive path of s.
LEMMA BoundedUnmoved ==
  ASSUME NEW s \in Streams, Bounded(s),
         rcv'[s].read = rcv[s].read, rcv'[s].arrived = rcv[s].arrived,
         bridge'[s].pc \in {"none", "dialing", "copying"} =>
           /\ bridge[s].pc \in {"none", "dialing", "copying"}
           /\ rx'[s] = rx[s] /\ held'[s] = held[s]
  PROVE  Bounded(s)'
BY DEF Bounded

\* recv_body returns one more chunk.
LEMMA BoundedRecv ==
  ASSUME TypeOK, NEW s \in Streams, Bounded(s), PumpInRecv(s), UNCHANGED <<bridge, held>>
  PROVE  Bounded(s)'
<1> DEFINE len == Len(rx[s])
<1>0. /\ rcv \in [Streams -> ReceivingHalf] /\ rx[s] \in Seq(Chunk) /\ held[s] \in Chunk
      /\ rcv[s].read \in Nat /\ rcv[s].arrived \in Nat /\ len \in Nat
      /\ held[s].lo \in Nat /\ \A i \in 1 .. len : rx[s][i].lo \in Nat
      /\ RECV_CHUNK \in Nat /\ RecvWindow \in Nat
  <2>1. /\ rcv \in [Streams -> ReceivingHalf] /\ rx[s] \in Seq(Chunk) /\ held[s] \in Chunk
        /\ RECV_CHUNK \in Nat /\ RecvWindow \in Nat
    BY QuicTunnelAssumption DEF TypeOK
  <2>2. rcv[s].read \in Nat /\ rcv[s].arrived \in Nat /\ held[s].lo \in Nat
    BY <2>1 DEF ReceivingHalf, Chunk
  <2>3. len \in Nat /\ \A i \in 1 .. len : rx[s][i] \in Chunk
    BY <2>1
  <2>4. \A i \in 1 .. len : rx[s][i].lo \in Nat
    BY <2>3 DEF Chunk
  <2> QED BY <2>1, <2>2, <2>3, <2>4
<1>1. PICK n \in 1 .. Least(RECV_CHUNK, rcv[s].arrived - rcv[s].read) :
        /\ rx' = [rx EXCEPT ![s] =
                    Append(@, [lo |-> rcv[s].read, hi |-> rcv[s].read + n])]
        /\ rcv' = [rcv EXCEPT ![s].read = @ + n]
  BY DEF PumpInRecv
<1>2. n \in Nat /\ n <= RECV_CHUNK
  <2>1. Least(RECV_CHUNK, rcv[s].arrived - rcv[s].read) <= RECV_CHUNK
    BY <1>0 DEF Least
  <2>2. Least(RECV_CHUNK, rcv[s].arrived - rcv[s].read) \in Nat
    BY <1>0 DEF Least, PumpInRecv
  <2> QED BY <1>0, <1>1, <2>1, <2>2
<1>3. /\ rcv'[s].read = rcv[s].read + n /\ rcv'[s].arrived = rcv[s].arrived
      /\ rx'[s] = Append(rx[s], [lo |-> rcv[s].read, hi |-> rcv[s].read + n])
  BY <1>0, <1>1 DEF TypeOK, ReceivingHalf
<1>4. /\ Len(rx'[s]) = len + 1 /\ rx'[s][len + 1].lo = rcv[s].read
      /\ \A i \in 1 .. len : rx'[s][i] = rx[s][i]
  BY <1>0, <1>3
<1> HIDE DEF len
<1>5. CASE bridge[s].pc \notin {"none", "dialing", "copying"}
  BY <1>0, <1>2, <1>3, <1>5 DEF Bounded
<1>6. CASE bridge[s].pc \in {"none", "dialing", "copying"}
  <2>1. /\ rcv[s].read <= held[s].lo + Most(len + 1)
        /\ \A i \in 1 .. len : rcv[s].read <= rx[s][i].lo + Most(len - i + 1)
        /\ rcv[s].arrived <= rcv[s].read + RecvWindow
    BY <1>6 DEF Bounded, len
  <2>2. rcv'[s].read <= held'[s].lo + Most(len + 1 + 1)
    <3>0. len + 1 \in Nat
      BY <1>0
    <3>1. Most(len + 1) \in Nat /\ Most(len + 1 + 1) = Most(len + 1) + RECV_CHUNK
      BY <3>0, MostNext
    <3>2. /\ rcv'[s].read = rcv[s].read + n /\ held'[s] = held[s] /\ held[s].lo \in Nat
          /\ rcv[s].read \in Nat /\ rcv[s].read <= held[s].lo + Most(len + 1)
          /\ n \in Nat /\ n <= RECV_CHUNK /\ RECV_CHUNK \in Nat
      BY <1>0, <1>2, <1>3, <2>1 DEF PumpInRecv
    <3> QED BY ONLY <3>1, <3>2
  <2>3. ASSUME NEW i \in 1 .. len + 1
        PROVE  rcv'[s].read <= rx'[s][i].lo + Most(len + 1 - i + 1)
    <3>1. CASE i = len + 1
      <4>0. 0 \in Nat /\ len + 1 - i + 1 = 0 + 1
        BY <1>0, <3>1
      <4>1. Most(0) \in Nat /\ Most(len + 1 - i + 1) = Most(0) + RECV_CHUNK
        BY <4>0, MostNext
      <4> QED BY <1>0, <1>2, <1>3, <1>4, <3>1, <4>1
    <3>2. CASE i \in 1 .. len
      <4>1. len - i + 1 \in Nat /\ len + 1 - i + 1 = (len - i + 1) + 1
        BY <1>0, <3>2
      <4>2. /\ Most(len - i + 1) \in Nat
            /\ Most(len + 1 - i + 1) = Most(len - i + 1) + RECV_CHUNK
        BY <4>1, MostNext
      <4>3. rx'[s][i].lo = rx[s][i].lo /\ rx[s][i].lo \in Nat
            /\ rcv[s].read <= rx[s][i].lo + Most(len - i + 1)
        BY <1>0, <1>4, <2>1, <3>2
      <4>4. ASSUME NEW r \in Nat, NEW lo \in Nat, NEW m \in Nat, r <= lo + m
            PROVE  r + n <= lo + (m + RECV_CHUNK)
        BY <1>0, <1>2, <4>4
      <4>5. rcv[s].read + n <= rx[s][i].lo + (Most(len - i + 1) + RECV_CHUNK)
        BY <1>0, <4>2, <4>3, <4>4
      <4> QED BY <1>3, <4>2, <4>3, <4>5
    <3> QED BY <1>0, <3>1, <3>2
  <2>4. rcv'[s].arrived <= rcv'[s].read + RecvWindow
    BY <1>0, <1>2, <1>3, <2>1
  <2>5. rcv'[s].read <= held'[s].lo + Most(Len(rx'[s]) + 1)
    BY <1>4, <2>2
  <2>6. \A i \in 1 .. Len(rx'[s]) :
          rcv'[s].read <= rx'[s][i].lo + Most(Len(rx'[s]) - i + 1)
    <3> SUFFICES ASSUME NEW i \in 1 .. Len(rx'[s])
                 PROVE  rcv'[s].read <= rx'[s][i].lo + Most(Len(rx'[s]) - i + 1)
      OBVIOUS
    <3>1. i \in 1 .. len + 1 /\ Len(rx'[s]) - i + 1 = len + 1 - i + 1
      <4>1. Len(rx'[s]) = len + 1 /\ len \in Nat
        BY <1>0, <1>4
      <4> QED BY <4>1
    <3> QED BY <2>3, <3>1
  <2> QED BY <2>4, <2>5, <2>6 DEF Bounded
<1> QED BY <1>5, <1>6

\* The bridge pops the front chunk when it holds nothing.
LEMMA BoundedPop ==
  ASSUME TypeOK, NEW s \in Streams, Bounded(s), PopRx(s), UNCHANGED rcv
  PROVE  Bounded(s)'
<1> DEFINE len == Len(rx[s])
<1>0. /\ rx[s] \in Seq(Chunk) /\ rx[s] # <<>> /\ len \in Nat \ {0}
      /\ bridge[s].pc = "copying" /\ bridge' = bridge
  BY DEF TypeOK, PopRx, CopiesDown, Copying
<1>1. held'[s] = rx[s][1] /\ rx'[s] = Tail(rx[s])
  BY <1>0 DEF PopRx, TypeOK
<1>2. Len(rx'[s]) = len - 1 /\ \A i \in 1 .. len - 1 : rx'[s][i] = rx[s][i + 1]
  BY <1>0, <1>1
<1>3. /\ rcv[s].arrived <= rcv[s].read + RecvWindow
      /\ \A i \in 1 .. len : rcv[s].read <= rx[s][i].lo + Most(len - i + 1)
  BY <1>0 DEF Bounded
<1> HIDE DEF len
<1>4. rcv[s].read <= held'[s].lo + Most((len - 1) + 1)
  <2>1. (len - 1) + 1 = len - 1 + 1 /\ 1 \in 1 .. len
    BY <1>0
  <2> QED BY <1>1, <1>3, <2>1
<1>5. ASSUME NEW i \in 1 .. len - 1
      PROVE  rcv[s].read <= rx'[s][i].lo + Most((len - 1) - i + 1)
  <2>1. i + 1 \in 1 .. len /\ (len - 1) - i + 1 = len - (i + 1) + 1
    BY <1>0
  <2> QED BY <1>2, <1>3, <2>1
<1> QED BY <1>2, <1>3, <1>4, <1>5 DEF Bounded

\* The socket takes some of what is held.
LEMMA BoundedWrite ==
  ASSUME TypeOK, NEW s \in Streams, Bounded(s), WriteTcp(s), UNCHANGED rcv
  PROVE  Bounded(s)'
<1>1. PICK n \in 1 .. (held[s].hi - held[s].lo) : held' = [held EXCEPT ![s].lo = @ + n]
  BY DEF WriteTcp
<1>2. /\ held[s].lo \in Nat /\ held[s].hi \in Nat /\ rcv[s].read \in Nat
      /\ bridge[s].pc = "copying" /\ UNCHANGED <<rx, bridge>>
      /\ Len(rx[s]) \in Nat
  BY DEF TypeOK, Chunk, ReceivingHalf, WriteTcp, Copying
<1>3. n \in Nat /\ held'[s].lo = held[s].lo + n
  BY <1>1, <1>2 DEF TypeOK, Chunk
<1>4. Most(Len(rx[s]) + 1) \in Nat
  <2>1. Len(rx[s]) + 1 \in Nat
    BY <1>2
  <2> QED BY <2>1, MostNext
<1>5. rcv[s].read <= held'[s].lo + Most(Len(rx[s]) + 1)
  <2>1. rcv[s].read <= held[s].lo + Most(Len(rx[s]) + 1)
    BY <1>2 DEF Bounded
  <2> QED BY <1>2, <1>3, <1>4, <2>1
<1> QED BY <1>2, <1>5 DEF Bounded

LEMMA BoundedBridge ==
  ASSUME TypeOK, BoundedInv, NEW s \in Streams, NEW t \in Streams, Bridge(t)
  PROVE  Bounded(s)'
<1>0. Bounded(s) /\ Bounded(t) /\ rcv' = rcv /\ bridge \in [Streams -> BridgeTask]
  BY DEF BoundedInv, TypeOK, Bridge, quicVars
<1>1. CASE s # t
  <2>1. rx'[s] = rx[s] /\ held'[s] = held[s] /\ bridge'[s] = bridge[s]
    BY <1>1 DEF TypeOK, Bridge, DialOk, DialFail, DropStream, CopyUp, ShutdownUp,
       PopRx, WriteTcp, ShutdownTcp, CopyDone, CopyError, SendClosed
  <2> QED BY <1>0, <2>1, BoundedUnmoved
<1>2. CASE s = t
  <2>1. CASE PopRx(t)
    BY <1>0, <1>2, <2>1, BoundedPop
  <2>2. CASE WriteTcp(t)
    BY <1>0, <1>2, <2>2, BoundedWrite
  <2>3. CASE DialFail(t) \/ CopyDone(t) \/ CopyError(t)
    <3>1. bridge'[s].pc = "closing"
      BY <1>0, <1>2, <2>3 DEF DialFail, CopyDone, CopyError, DropStream, BridgeTask
    <3> QED BY <1>0, <3>1, BoundedUnmoved
  <2>4. CASE SendClosed(t)
    <3>1. bridge'[s].pc = "done"
      BY <1>0, <1>2, <2>4 DEF SendClosed, BridgeTask
    <3> QED BY <1>0, <3>1, BoundedUnmoved
  <2>5. CASE DialOk(t) \/ CopyUp(t) \/ ShutdownUp(t) \/ ShutdownTcp(t)
    <3>1. /\ rx' = rx /\ held' = held
          /\ \/ bridge'[s].pc = bridge[s].pc
             \/ bridge[s].pc = "dialing"
      BY <1>0, <1>2, <2>5 DEF DialOk, CopyUp, ShutdownUp, ShutdownTcp, BridgeTask
    <3> QED BY <1>0, <3>1, BoundedUnmoved
  <2> QED BY <2>1, <2>2, <2>3, <2>4, <2>5 DEF Bridge
<1> QED BY <1>1, <1>2

\* The window of quiche lets one more byte in only below its limit.
LEMMA BoundedNetwork ==
  ASSUME TypeOK, BoundedInv, NEW s \in Streams, NEW t \in Streams, Network(t)
  PROVE  Bounded(s)'
<1>0. /\ Bounded(s) /\ rcv \in [Streams -> ReceivingHalf] /\ RecvWindow \in Nat
      /\ UNCHANGED <<rx, held, bridge>>
  BY QuicTunnelAssumption DEF BoundedInv, TypeOK, Network, taskVars
<1>1. CASE FrameData(t) /\ s = t
  <2>1. /\ rcv'[s].read = rcv[s].read /\ rcv'[s].arrived = rcv[s].arrived + 1
        /\ rcv[s].arrived - rcv[s].read < RecvWindow
        /\ rcv[s].read \in Nat /\ rcv[s].arrived \in Nat
    BY <1>0, <1>1 DEF FrameData, ReceivingHalf
  <2>2. rcv'[s].arrived <= rcv'[s].read + RecvWindow
    BY <1>0, <2>1
  <2> QED BY <1>0, <2>1, <2>2 DEF Bounded
<1>2. CASE ~(FrameData(t) /\ s = t)
  <2>1. rcv'[s].read = rcv[s].read /\ rcv'[s].arrived = rcv[s].arrived
    BY <1>0, <1>2 DEF Network, FrameHeaders, FrameData, FrameFin, FrameReset, FrameStop,
       FrameCredit, ReceivingHalf
  <2> QED BY <1>0, <2>1, BoundedUnmoved
<1> QED BY <1>1, <1>2

LEMMA BoundedPump ==
  ASSUME TypeOK, BoundedInv, NEW s \in Streams, NEW t \in Streams, PumpInbound(t)
  PROVE  Bounded(s)'
<1>0. /\ Bounded(s) /\ Bounded(t) /\ rcv \in [Streams -> ReceivingHalf]
      /\ UNCHANGED <<held, bridge>>
  BY DEF BoundedInv, TypeOK, PumpInbound, taskVars
<1>1. CASE PumpInRecv(t)
  <2>1. CASE s = t
    BY <1>0, <1>1, <2>1, BoundedRecv
  <2>2. CASE s # t
    <3>1. rx'[s] = rx[s] /\ rcv'[s] = rcv[s]
      BY <1>1, <2>2 DEF PumpInRecv, TypeOK
    <3> QED BY <1>0, <3>1, BoundedUnmoved
  <2> QED BY <2>1, <2>2
<1>2. CASE ~PumpInRecv(t)
  <2>1. rx' = rx
    BY <1>2 DEF PumpInbound, PumpInNoSender, PumpInFull, PumpInClosed, PumpInDone,
       PumpInError
  <2>2. rcv'[s].read = rcv[s].read /\ rcv'[s].arrived = rcv[s].arrived
    <3>1. CASE PumpInClosed(t)
      BY <1>0, <3>1 DEF PumpInClosed, ReceivingHalf
    <3>2. CASE PumpInDone(t)
      BY <1>0, <3>2 DEF PumpInDone, ReceivingHalf
    <3>3. CASE PumpInNoSender(t) \/ PumpInFull(t) \/ PumpInError(t)
      BY <3>3 DEF PumpInNoSender, PumpInFull, PumpInError
    <3> QED BY <1>2, <3>1, <3>2, <3>3 DEF PumpInbound
  <2> QED BY <1>0, <2>1, <2>2, BoundedUnmoved
<1> QED BY <1>1, <1>2

\* The loop starts a bridge with nothing read and nothing held.
LEMMA BoundedPoll ==
  ASSUME TypeOK, ChainInv, BoundedInv, NEW s \in Streams, NEW t \in Streams, Poll(t)
  PROVE  Bounded(s)'
<1>0. /\ Bounded(s) /\ rcv \in [Streams -> ReceivingHalf]
      /\ bridge \in [Streams -> BridgeTask] /\ UNCHANGED <<rx, held>>
  BY DEF BoundedInv, TypeOK, Poll
<1>1. rcv'[s].read = rcv[s].read /\ rcv'[s].arrived = rcv[s].arrived
  BY <1>0 DEF Poll, PollHeadersOk, PollHeadersUnanswered, PollRefused, PollNotTunnel,
     PollData, PollFinished, PollReset, ReceivingHalf
<1>2. CASE PollHeadersOk(t) /\ Role = "server" /\ s = t
  <2>1. bridge[s].pc = "none"
    BY <1>2 DEF PollHeadersOk, ChainInv, InboundChain
  <2> QED BY <1>0, <1>1, <2>1, BoundedUnmoved
<1>3. CASE ~(PollHeadersOk(t) /\ Role = "server" /\ s = t)
  <2>1. bridge'[s] = bridge[s]
    BY <1>0, <1>3 DEF Poll, PollHeadersOk, PollHeadersUnanswered, PollRefused,
       PollNotTunnel, PollData, PollFinished, PollReset
  <2> QED BY <1>0, <1>1, <2>1, BoundedUnmoved
<1> QED BY <1>2, <1>3

LEMMA BoundedStep ==
  TypeOK /\ ChainInv /\ BoundedInv /\ [Next]_vars => BoundedInv'
<1> SUFFICES ASSUME TypeOK, ChainInv, BoundedInv, [Next]_vars, NEW s \in Streams
             PROVE  Bounded(s)'
  BY DEF BoundedInv
<1>0. Bounded(s)
  BY DEF BoundedInv
<1>1. CASE \/ UNCHANGED vars \/ SelectUdp \/ SelectEgress \/ SelectEgressUnknown
           \/ SelectCredit \/ UdpError \/ RecvDone \/ PollDone \/ PumpInEnd
           \/ PumpOutEnd \/ ConnCloses
  <2>1. UNCHANGED <<rcv, rx, held, bridge>>
    BY <1>1 DEF vars, quicVars, taskVars, SelectUdp, SelectEgress, SelectEgressUnknown,
       SelectCredit, UdpError, RecvDone, PollDone, PumpInEnd, PumpOutEnd, ConnCloses
  <2> QED BY <1>0, <2>1, BoundedUnmoved
<1>2. CASE ReapStreams
  <2>1. /\ UNCHANGED <<rx, held, bridge>>
        /\ rcv'[s].read = rcv[s].read /\ rcv'[s].arrived = rcv[s].arrived
    BY <1>2 DEF ReapStreams, taskVars, TypeOK, ReceivingHalf
  <2> QED BY <1>0, <2>1, BoundedUnmoved
<1>3. ASSUME NEW t \in Streams, PumpOutbound(t)
      PROVE  Bounded(s)'
  <2>1. UNCHANGED <<rcv, rx, held, bridge>>
    BY <1>3 DEF PumpOutbound, taskVars
  <2> QED BY <1>0, <2>1, BoundedUnmoved
<1>4. ASSUME NEW t \in Streams, OpenStream(t)
      PROVE  Bounded(s)'
  <2>1. /\ UNCHANGED <<rcv, rx, held>>
        /\ bridge'[s] = bridge[s] \/ bridge[s].pc = "none"
    BY <1>4 DEF OpenStream, quicVars, TypeOK
  <2> QED BY <1>0, <2>1, BoundedUnmoved
<1>5. ASSUME NEW t \in Streams, Network(t) \/ Bridge(t) \/ Poll(t) \/ PumpInbound(t)
      PROVE  Bounded(s)'
  BY <1>5, BoundedNetwork, BoundedBridge, BoundedPoll, BoundedPump
<1> QED BY <1>1, <1>2, <1>3, <1>4, <1>5 DEF Next, Loop, Turn

\* The window, a full channel and the held chunk are all that may lie between
\* the QUIC peer and the local socket.
LEMMA BoundedIsEnough ==
  ASSUME TypeOK, ChainInv, BoundedInv
  PROVE  InboundBounded
<1> SUFFICES ASSUME NEW s \in Streams, ReceiverAlive(s)
             PROVE  rcv[s].arrived - tcp[s].wrote
                      <= RecvWindow + (INBOUND_CHANNEL_CAP + 1) * RECV_CHUNK
  BY DEF InboundBounded
<1>1. /\ rcv[s].arrived \in Nat /\ rcv[s].read \in Nat /\ tcp[s].wrote \in Nat
      /\ Len(rx[s]) \in Nat /\ Len(rx[s]) <= INBOUND_CHANNEL_CAP
      /\ RecvWindow \in Nat /\ INBOUND_CHANNEL_CAP \in Nat
  BY QuicTunnelAssumption DEF TypeOK, ReceivingHalf, LocalSocket
<1>2. /\ rcv[s].arrived <= rcv[s].read + RecvWindow
      /\ rcv[s].read <= held[s].lo + Most(Len(rx[s]) + 1)
      /\ held[s].lo = tcp[s].wrote
  BY DEF ReceiverAlive, BoundedInv, Bounded, ChainInv, InboundChain, Contiguous
<1>3. /\ Most(Len(rx[s]) + 1) <= Most(INBOUND_CHANNEL_CAP + 1)
      /\ Most(Len(rx[s]) + 1) \in Nat /\ Most(INBOUND_CHANNEL_CAP + 1) \in Nat
  <2>1. /\ Len(rx[s]) + 1 \in Nat /\ INBOUND_CHANNEL_CAP + 1 \in Nat
        /\ Len(rx[s]) + 1 <= INBOUND_CHANNEL_CAP + 1
    BY <1>1
  <2> QED BY <2>1, MostGrows, MostNext
<1>4. rcv[s].arrived - tcp[s].wrote <= RecvWindow + Most(INBOUND_CHANNEL_CAP + 1)
  BY ONLY <1>1, <1>2, <1>3
<1> QED BY <1>4 DEF Most

\* Back-pressure reaches the QUIC peer: however slowly the local socket takes
\* its bytes, pump_inbound stops at a full channel and quiche at its window.
THEOREM BoundCorrect == Spec => []InboundBounded
BY TypeCorrect, ChainInit, ChainStep, BoundedInit, BoundedStep, BoundedIsEnough,
   PTL DEF Spec
=============================================================================
