-------------------------- MODULE QuicTunnelProofs --------------------------
(***************************************************************************)
(* Proofs about QuicTunnel, for any set of streams, any capacities, any    *)
(* bounds and any failures.                                                *)
(***************************************************************************)
EXTENDS QuicTunnel, TLAPS

\* The initial state is well typed.
LEMMA TypeInit == Init => TypeOK
<1> SUFFICES ASSUME Init PROVE TypeOK
  OBVIOUS
<1> USE QuicTunnelAssumption DEF Init
<1>1. st \in [Streams -> StreamState]  BY DEF StreamState, NoState
<1>2. rcv \in [Streams -> ReceivingHalf]  BY DEF ReceivingHalf
<1>3. snd \in [Streams -> SendingHalf]  BY DEF SendingHalf
<1>4. bridge \in [Streams -> BridgeTask]  BY DEF BridgeTask
<1>5. held \in [Streams -> Chunk]  BY DEF Chunk, Nothing
<1>6. tcp \in [Streams -> LocalSocket]  BY DEF LocalSocket
<1>7. /\ rx \in [Streams -> Seq(Chunk)]
      /\ \A s \in Streams : Len(rx[s]) <= INBOUND_CHANNEL_CAP
  OBVIOUS
<1>8. egress \in Seq(Message) /\ Len(egress) <= EGRESS_CHANNEL_CAP
  OBVIOUS
<1> QED BY <1>1, <1>2, <1>3, <1>4, <1>5, <1>6, <1>7, <1>8 DEF TypeOK

\* Every datagram leaves the state well typed.
LEMMA TypeNetwork ==
  ASSUME TypeOK, NEW s \in Streams, Network(s)
  PROVE  TypeOK'
<1> USE DEF TypeOK, loopVars, taskVars
<1>0. /\ rcv[s] \in ReceivingHalf /\ rcv[s].arrived + 1 \in Nat
      /\ snd[s] \in SendingHalf /\ snd[s].credit + 1 \in Nat
  BY DEF ReceivingHalf, SendingHalf
<1>1. rcv' \in [Streams -> ReceivingHalf]
  <2>1. CASE FrameHeaders(s)
    <3>1. PICK h \in {"ok", "bad"} : rcv' = [rcv EXCEPT ![s].hdrs = h]
      BY <2>1 DEF FrameHeaders
    <3> QED BY <1>0, <3>1 DEF ReceivingHalf
  <2>2. CASE FrameData(s)     BY <1>0, <2>2 DEF FrameData, ReceivingHalf
  <2>3. CASE FrameFin(s)      BY <1>0, <2>3 DEF FrameFin, ReceivingHalf
  <2>4. CASE FrameReset(s)
    <3>1. rcv' = [rcv EXCEPT ![s].reset = "arrived"]
      BY <2>4 DEF FrameReset
    <3>2. [rcv[s] EXCEPT !.reset = "arrived"] \in ReceivingHalf
      BY <1>0 DEF ReceivingHalf
    <3> QED BY <3>1, <3>2
  <2> QED BY <2>1, <2>2, <2>3, <2>4 DEF Network, FrameStop, FrameCredit
<1>2. snd' \in [Streams -> SendingHalf]
  <2>1. CASE FrameStop(s)     BY <2>1 DEF FrameStop, SendingHalf
  <2>2. CASE FrameCredit(s)   BY <1>0, <2>2 DEF FrameCredit, SendingHalf
  <2> QED BY <2>1, <2>2 DEF Network, FrameHeaders, FrameData, FrameFin, FrameReset
<1> QED BY <1>1, <1>2 DEF Network

\* A removed and a newly opened stream are well typed.
LEMMA FreshStates == NoState \in StreamState /\ Tunnel \in StreamState
<1>1. NoState \in StreamState  BY DEF NoState, StreamState
<1> QED BY <1>1 DEF Tunnel, StreamState

\* Each select! branch and each end of a phase leaves the state well typed.
LEMMA TypeSelect ==
  ASSUME TypeOK,
         SelectUdp \/ SelectEgress \/ SelectEgressUnknown \/ SelectCredit \/ UdpError
  PROVE  TypeOK'
<1> USE DEF TypeOK, loopVars, taskVars, quicVars
<1>1. CASE SelectUdp  BY <1>1 DEF SelectUdp
<1>2. CASE SelectEgress
  <2> USE <1>2 DEF SelectEgress
  <2> DEFINE msg == Head(egress)
  <2>1. msg \in Message /\ msg.stream \in Streams /\ msg.chunk \in Chunk
        /\ msg.out \in {"Data", "Fin", "Closed"}
    <3>1. egress \in Seq(Message) /\ egress # <<>>
      OBVIOUS
    <3>2. msg \in Message
      BY <3>1
    <3> QED BY <3>2 DEF Message
  <2>2. egress' \in Seq(Message) /\ Len(egress') <= EGRESS_CHANNEL_CAP
    BY QuicTunnelAssumption
  <2>3. st[msg.stream] \in StreamState
    BY <2>1
  <2>4. Queue(st[msg.stream], msg) \in StreamState
    <3>1. Append(st[msg.stream].pending, msg.chunk) \in Seq(Chunk)
      BY <2>1, <2>3 DEF StreamState
    <3> QED BY <2>1, <2>3, <3>1 DEF Queue, StreamState
  <2>5. st' \in [Streams -> StreamState]
    BY <2>1, <2>3, <2>4
  <2> QED BY <2>2, <2>5
<1>3. CASE SelectEgressUnknown
  <2>1. egress' \in Seq(Message) /\ Len(egress') <= EGRESS_CHANNEL_CAP
    BY <1>3, QuicTunnelAssumption DEF SelectEgressUnknown
  <2> QED BY <1>3, <2>1 DEF SelectEgressUnknown
<1>4. CASE SelectCredit  BY <1>4 DEF SelectCredit
<1>5. CASE UdpError
  <2>1. st' \in [Streams -> StreamState]
    BY <1>5, FreshStates DEF UdpError
  <2>2. egress' \in Seq(Message) /\ Len(egress') <= EGRESS_CHANNEL_CAP
    BY <1>5, QuicTunnelAssumption DEF UdpError
  <2> QED BY <1>5, <2>1, <2>2 DEF UdpError
<1> QED BY <1>1, <1>2, <1>3, <1>4, <1>5

\* open_stream leaves the state well typed.
LEMMA TypeOpenStream ==
  ASSUME TypeOK, NEW s \in Streams, OpenStream(s)
  PROVE  TypeOK'
<1>1. st' \in [Streams -> StreamState]
  BY FreshStates DEF TypeOK, OpenStream
<1>2. bridge' \in [Streams -> BridgeTask]
  <2>1. bridge[s] \in BridgeTask /\ bridge \in [Streams -> BridgeTask]
    BY DEF TypeOK
  <2> QED BY <2>1 DEF OpenStream, BridgeTask
<1> QED BY <1>1, <1>2 DEF TypeOK, OpenStream, quicVars

\* poll_h3 leaves the state well typed.
LEMMA TypePoll ==
  ASSUME TypeOK, NEW s \in Streams, Poll(s)
  PROVE  TypeOK'
<1> USE DEF TypeOK
<1>0. st[s] \in StreamState /\ rcv[s] \in ReceivingHalf /\ snd[s] \in SendingHalf
      /\ bridge[s] \in BridgeTask
  OBVIOUS
<1>a. ASSUME MarkReadable(s) PROVE st' \in [Streams -> StreamState]
  <2>1. st[s].present \in BOOLEAN  BY <1>0 DEF StreamState
  <2>2. [st[s] EXCEPT !.readable = st[s].present] \in StreamState
    BY <1>0, <2>1 DEF StreamState
  <2> QED BY <1>a, <2>2 DEF MarkReadable
<1>1. st' \in [Streams -> StreamState]
  BY <1>a, FreshStates DEF Poll, PollHeadersOk, PollHeadersUnanswered, PollRefused,
     PollNotTunnel, PollData, PollFinished, PollReset
<1>2. rcv' \in [Streams -> ReceivingHalf]
  <2>1. CASE PollHeadersOk(s)   BY <1>0, <2>1 DEF PollHeadersOk, ReceivingHalf
  <2>2. CASE PollRefused(s)     BY <1>0, <2>2 DEF PollRefused, ReceivingHalf
  <2>3. CASE PollNotTunnel(s)   BY <1>0, <2>3 DEF PollNotTunnel, ReceivingHalf
  <2>4. CASE PollData(s)        BY <1>0, <2>4 DEF PollData, ReceivingHalf
  <2>5. CASE PollFinished(s)    BY <1>0, <2>5 DEF PollFinished, ReceivingHalf
  <2>6. CASE PollReset(s)       BY <1>0, <2>6 DEF PollReset, ReceivingHalf
  <2>7. CASE PollHeadersUnanswered(s)
    BY <1>0, <2>7 DEF PollHeadersUnanswered, ReceivingHalf
  <2> QED BY <2>1, <2>2, <2>3, <2>4, <2>5, <2>6, <2>7 DEF Poll
<1>3. snd' \in [Streams -> SendingHalf]
  <2>1. CASE PollNotTunnel(s)
    <3>1. ASSUME NEW b \in BOOLEAN PROVE [snd[s] EXCEPT !.fin = b] \in SendingHalf
      BY <1>0 DEF SendingHalf
    <3> QED BY <2>1, <3>1 DEF PollNotTunnel
  <2>2. CASE PollHeadersUnanswered(s)
    <3>1. [snd[s] EXCEPT !.reset = TRUE] \in SendingHalf  BY <1>0 DEF SendingHalf
    <3> QED BY <2>2, <3>1 DEF PollHeadersUnanswered
  <2> QED BY <2>1, <2>2 DEF Poll, PollHeadersOk, PollRefused, PollData, PollFinished, PollReset
<1>4. bridge' \in [Streams -> BridgeTask]
  <2>1. CASE PollHeadersOk(s)
    <3>1. [bridge[s] EXCEPT !.pc = "dialing"] \in BridgeTask
      BY <1>0 DEF BridgeTask
    <3> QED BY <2>1, <3>1 DEF PollHeadersOk
  <2> QED BY <2>1 DEF Poll, PollHeadersUnanswered, PollRefused, PollNotTunnel,
                      PollData, PollFinished, PollReset
<1> QED BY <1>1, <1>2, <1>3, <1>4 DEF Poll

\* The phase changes of a turn leave the state well typed.
LEMMA TypePhases ==
  ASSUME TypeOK, RecvDone \/ ConnCloses \/ PollDone \/ PumpInEnd \/ PumpOutEnd
  PROVE  TypeOK'
BY DEF TypeOK, quicVars, taskVars, RecvDone, ConnCloses, PollDone, PumpInEnd, PumpOutEnd

\* pump_inbound leaves the state well typed; try_reserve keeps the channel
\* within its capacity.
LEMMA TypePumpInbound ==
  ASSUME TypeOK, NEW s \in Streams, PumpInbound(s)
  PROVE  TypeOK'
<1> USE DEF TypeOK
<1>0. /\ st[s] \in StreamState /\ rcv[s] \in ReceivingHalf /\ rx[s] \in Seq(Chunk)
      /\ rcv[s].read \in Nat /\ rcv[s].arrived \in Nat
  BY DEF ReceivingHalf
<1>1. st' \in [Streams -> StreamState]
  <2>1. ASSUME NEW b \in BOOLEAN, StopReading(s, b)
        PROVE  st' \in [Streams -> StreamState]
    <3>1. [st[s] EXCEPT !.readable = FALSE, !.inbound_tx = b] \in StreamState
      BY <1>0 DEF StreamState
    <3> QED BY <2>1, <3>1 DEF StopReading
  <2>2. (~StreamFinished(s)) \in BOOLEAN
    OBVIOUS
  <2> QED BY <2>1, <2>2 DEF PumpInbound, PumpInNoSender, PumpInFull, PumpInClosed,
             PumpInRecv, PumpInDone, PumpInError
<1>2. /\ rcv' \in [Streams -> ReceivingHalf]
      /\ rx' \in [Streams -> Seq(Chunk)]
      /\ \A t \in Streams : Len(rx'[t]) <= INBOUND_CHANNEL_CAP
  <2>1. CASE PumpInClosed(s)
    <3>1. [rcv[s] EXCEPT !.shut = TRUE] \in ReceivingHalf  BY <1>0 DEF ReceivingHalf
    <3> QED BY <2>1, <3>1 DEF PumpInClosed
  <2>2. CASE PumpInDone(s)
    <3>1. [rcv[s] EXCEPT !.armed = TRUE] \in ReceivingHalf  BY <1>0 DEF ReceivingHalf
    <3> QED BY <2>2, <3>1 DEF PumpInDone
  <2>3. CASE PumpInRecv(s)
    <3>1. PICK n \in 1 .. Least(RECV_CHUNK, rcv[s].arrived - rcv[s].read) :
            /\ rx' = [rx EXCEPT ![s] =
                   Append(@, [lo |-> rcv[s].read, hi |-> rcv[s].read + n])]
            /\ rcv' = [rcv EXCEPT ![s].read = @ + n]
      BY <2>3 DEF PumpInRecv
    <3>2. n \in Nat /\ rcv[s].read + n \in Nat
      BY <1>0
    <3>3. [rcv[s] EXCEPT !.read = rcv[s].read + n] \in ReceivingHalf
      BY <1>0, <3>2 DEF ReceivingHalf
    <3>4. [lo |-> rcv[s].read, hi |-> rcv[s].read + n] \in Chunk
      BY <1>0, <3>2 DEF Chunk
    <3>5. Len(rx[s]) < INBOUND_CHANNEL_CAP
      BY <2>3 DEF PumpInRecv, Permit
    <3>6. rx'[s] \in Seq(Chunk) /\ Len(rx'[s]) <= INBOUND_CHANNEL_CAP
      BY <1>0, <3>1, <3>4, <3>5, QuicTunnelAssumption
    <3>7. \A t \in Streams \ {s} : rx'[t] = rx[t]
      BY <3>1
    <3> QED BY <3>1, <3>3, <3>6, <3>7
  <2> QED BY <2>1, <2>2, <2>3 DEF PumpInbound, PumpInNoSender, PumpInFull, PumpInError
<1>3. todo' \subseteq Streams
  BY DEF PumpInbound, PumpInNoSender, PumpInFull, PumpInClosed, PumpInRecv,
         PumpInDone, PumpInError, Leave
<1> QED BY <1>1, <1>2, <1>3 DEF PumpInbound, taskVars

\* pump_outbound leaves the state well typed.
LEMMA TypePumpOutbound ==
  ASSUME TypeOK, NEW s \in Streams, PumpOutbound(s)
  PROVE  TypeOK'
<1> USE DEF TypeOK
<1>0. /\ st[s] \in StreamState /\ snd[s] \in SendingHalf
      /\ st[s].pending \in Seq(Chunk)
      /\ snd[s].off \in Nat /\ snd[s].credit \in Nat
  BY DEF StreamState, SendingHalf
<1>1. CASE PumpOutSend(s)
  <2> DEFINE front == Head(st[s].pending)
             n == Least(front.hi - front.lo, snd[s].credit - snd[s].off)
  <2>1. st[s].pending # <<>> /\ snd[s].off < snd[s].credit
    BY <1>1 DEF PumpOutSend
  <2>2. front \in Chunk
    BY <1>0, <2>1
  <2>3. front.lo \in Nat /\ front.hi \in Nat
    BY <2>2 DEF Chunk
  <2>4. front.lo + n \in Nat
    <3>1. ASSUME NEW lo \in Nat, NEW hi \in Nat, NEW off \in Nat, NEW credit \in Nat,
                 off < credit
          PROVE  lo + Least(hi - lo, credit - off) \in Nat
      BY <3>1 DEF Least
    <3> QED BY <1>0, <2>1, <2>3, <3>1
  <2>5. snd' \in [Streams -> SendingHalf]
    <3>1. [snd[s] EXCEPT !.intact = snd[s].intact /\ front.lo = snd[s].off,
                         !.off = front.lo + n] \in SendingHalf
      BY <1>0, <2>4 DEF SendingHalf
    <3>2. snd' = [snd EXCEPT ![s] =
                    [snd[s] EXCEPT !.intact = snd[s].intact /\ front.lo = snd[s].off,
                                   !.off = front.lo + n]]
      BY <1>1 DEF PumpOutSend
    <3> QED BY <3>1, <3>2
  <2>6. st' \in [Streams -> StreamState]
    <3>1. CASE n = front.hi - front.lo
      <4>1. Tail(st[s].pending) \in Seq(Chunk)
        BY <1>0, <2>1
      <4>2. [st[s] EXCEPT !.pending = Tail(st[s].pending)] \in StreamState
        BY <1>0, <4>1 DEF StreamState
      <4> QED BY <1>1, <3>1, <4>2 DEF PumpOutSend
    <3>2. CASE n # front.hi - front.lo
      <4> DEFINE rest == [st[s].pending EXCEPT ![1].lo = @ + n]
      <4>1. 1 \in DOMAIN st[s].pending /\ st[s].pending[1] = front
        BY <1>0, <2>1
      <4>2. [front EXCEPT !.lo = front.lo + n] \in Chunk
        BY <2>2, <2>4 DEF Chunk
      <4>3. rest = [st[s].pending EXCEPT ![1] = [front EXCEPT !.lo = front.lo + n]]
        BY <4>1
      <4>4. rest \in Seq(Chunk)
        BY <1>0, <4>1, <4>2, <4>3
      <4>5. [st[s] EXCEPT !.pending = rest] \in StreamState
        BY <1>0, <4>4 DEF StreamState
      <4>6. st' = [st EXCEPT ![s] = [st[s] EXCEPT !.pending = rest]]
        BY <1>1, <3>2 DEF PumpOutSend
      <4> QED BY <4>5, <4>6
    <3> QED BY <3>1, <3>2
  <2>7. todo' \subseteq Streams
    BY <1>1 DEF PumpOutSend, Leave
  <2> QED BY <2>5, <2>6, <2>7 DEF PumpOutbound, taskVars
<1>2. CASE PumpOutBlocked(s)
  BY <1>2 DEF PumpOutBlocked, PumpOutbound, Leave, taskVars
<1>3. CASE PumpOutError(s)
  <2>0. <<>> \in Seq(Chunk)
    OBVIOUS
  <2>1. [st[s] EXCEPT !.pending = <<>>, !.fin_sent = TRUE] \in StreamState
    BY <1>0, <2>0 DEF StreamState
  <2> QED BY <1>3, <2>1 DEF PumpOutError, PumpOutbound, Leave, taskVars
<1>4. CASE PumpOutFin(s)
  <2>1. ASSUME NEW b \in BOOLEAN PROVE [st[s] EXCEPT !.fin_sent = b] \in StreamState
    BY <1>0 DEF StreamState
  <2>2. ASSUME NEW b \in BOOLEAN PROVE [snd[s] EXCEPT !.fin = b] \in SendingHalf
    BY <1>0 DEF SendingHalf
  <2> QED BY <1>4, <2>1, <2>2 DEF PumpOutFin, PumpOutbound, Leave, taskVars
<1> QED BY <1>1, <1>2, <1>3, <1>4 DEF PumpOutbound

\* reap_streams leaves the state well typed.
LEMMA TypeReap ==
  ASSUME TypeOK, ReapStreams
  PROVE  TypeOK'
<1> USE DEF TypeOK
<1>1. st' \in [Streams -> StreamState]
  BY FreshStates DEF ReapStreams
<1>2. snd' \in [Streams -> SendingHalf]
  <2>1. ASSUME NEW s \in Streams, NEW b \in BOOLEAN
        PROVE [snd[s] EXCEPT !.reset = b] \in SendingHalf
    <3>1. snd[s] \in SendingHalf
      OBVIOUS
    <3> QED BY ONLY <3>1, b \in BOOLEAN DEF SendingHalf
  <2> QED BY <2>1 DEF ReapStreams
<1>3. rcv' \in [Streams -> ReceivingHalf]
  <2>1. ASSUME NEW s \in Streams, NEW b \in BOOLEAN
        PROVE [rcv[s] EXCEPT !.shut = b] \in ReceivingHalf
    <3>1. rcv[s] \in ReceivingHalf
      OBVIOUS
    <3> QED BY ONLY <3>1, b \in BOOLEAN DEF ReceivingHalf
  <2> QED BY <2>1 DEF ReapStreams
<1>4. egress' \in Seq(Message) /\ Len(egress') <= EGRESS_CHANNEL_CAP
  BY QuicTunnelAssumption DEF ReapStreams
<1> QED BY <1>1, <1>2, <1>3, <1>4 DEF ReapStreams, taskVars

\* The bridge tasks leave the state well typed; mpsc keeps the egress channel
\* within its capacity.
LEMMA TypeBridge ==
  ASSUME TypeOK, NEW s \in Streams, Bridge(s)
  PROVE  TypeOK'
<1> USE DEF TypeOK
<1>0. /\ bridge[s] \in BridgeTask /\ held[s] \in Chunk /\ tcp[s] \in LocalSocket
      /\ rx[s] \in Seq(Chunk)
      /\ held[s].lo \in Nat /\ held[s].hi \in Nat
      /\ tcp[s].read \in Nat /\ tcp[s].wrote \in Nat
  BY DEF Chunk, LocalSocket
<1>a. ASSUME NEW pc \in {"copying", "done"}
      PROVE  [bridge[s] EXCEPT !.pc = pc] \in BridgeTask
  BY <1>0 DEF BridgeTask
<1>b. ASSUME NEW msg \in Message, Send(msg)
      PROVE  egress' \in Seq(Message) /\ Len(egress') <= EGRESS_CHANNEL_CAP
  BY <1>b, QuicTunnelAssumption DEF Send, EgressRoom
<1>c. ASSUME NEW b \in BOOLEAN, DropStream(s, b)
      PROVE  TypeOK'
  <2>1. [bridge[s] EXCEPT !.pc = "closing", !.failed = b] \in BridgeTask
    BY <1>0 DEF BridgeTask
  <2>2. Nothing \in Chunk
    BY DEF Nothing, Chunk
  <2>3. /\ rx' \in [Streams -> Seq(Chunk)]
        /\ \A t \in Streams : Len(rx'[t]) <= INBOUND_CHANNEL_CAP
    BY <1>c, QuicTunnelAssumption DEF DropStream
  <2> QED BY <1>c, <2>1, <2>2, <2>3 DEF DropStream, Bridge, loopVars, quicVars
<1>1. CASE DialOk(s)
  BY <1>1, <1>a DEF DialOk, Bridge, loopVars, quicVars
<1>2. CASE DialFail(s)
  BY <1>2, <1>c DEF DialFail
<1>3. CASE CopyUp(s)
  <2>1. PICK n \in 1 .. COPY_BUF :
          /\ Send(Msg(s, "Data", tcp[s].read, tcp[s].read + n))
          /\ tcp' = [tcp EXCEPT ![s].read = @ + n]
    BY <1>3 DEF CopyUp
  <2>2. tcp[s].read + n \in Nat
    BY <1>0, QuicTunnelAssumption
  <2>3. [tcp[s] EXCEPT !.read = tcp[s].read + n] \in LocalSocket
    BY <1>0, <2>2 DEF LocalSocket
  <2>4. Msg(s, "Data", tcp[s].read, tcp[s].read + n) \in Message
    BY <1>0, <2>2 DEF Msg, Message, Chunk
  <2> QED BY <1>3, <2>1, <2>3, <2>4, <1>b DEF CopyUp, Bridge, loopVars, quicVars
<1>4. CASE ShutdownUp(s)
  <2>1. [bridge[s] EXCEPT !.up = "done"] \in BridgeTask
    BY <1>0 DEF BridgeTask
  <2>2. Msg(s, "Fin", 0, 0) \in Message
    BY DEF Msg, Message, Chunk
  <2>3. egress' \in Seq(Message) /\ Len(egress') <= EGRESS_CHANNEL_CAP
    BY <1>4, <1>b, <2>2 DEF ShutdownUp, SendIgnored
  <2> QED BY <1>4, <2>1, <2>3 DEF ShutdownUp, Bridge, loopVars, quicVars
<1>5. CASE PopRx(s)
  <2>1. Head(rx[s]) \in Chunk /\ Tail(rx[s]) \in Seq(Chunk)
        /\ Len(Tail(rx[s])) <= INBOUND_CHANNEL_CAP
    BY <1>0, <1>5, QuicTunnelAssumption DEF PopRx
  <2>2. /\ rx' \in [Streams -> Seq(Chunk)]
        /\ \A t \in Streams : Len(rx'[t]) <= INBOUND_CHANNEL_CAP
    BY <1>5, <2>1 DEF PopRx
  <2> QED BY <1>5, <2>1, <2>2 DEF PopRx, Bridge, loopVars, quicVars
<1>6. CASE WriteTcp(s)
  <2>1. PICK n \in 1 .. (held[s].hi - held[s].lo) :
          /\ tcp' = [tcp EXCEPT ![s].intact = @ /\ held[s].lo = tcp[s].wrote,
                                ![s].wrote = held[s].lo + n]
          /\ held' = [held EXCEPT ![s].lo = @ + n]
    BY <1>6 DEF WriteTcp
  <2>2. held[s].lo + n \in Nat
    BY <1>0
  <2>3. [held[s] EXCEPT !.lo = held[s].lo + n] \in Chunk
    BY <1>0, <2>2 DEF Chunk
  <2>4. [tcp[s] EXCEPT !.intact = tcp[s].intact /\ held[s].lo = tcp[s].wrote,
                       !.wrote = held[s].lo + n] \in LocalSocket
    BY <1>0, <2>2 DEF LocalSocket
  <2>5. tcp' = [tcp EXCEPT ![s] =
                 [tcp[s] EXCEPT !.intact = tcp[s].intact /\ held[s].lo = tcp[s].wrote,
                                !.wrote = held[s].lo + n]]
    BY <2>1
  <2>6. held' \in [Streams -> Chunk] /\ tcp' \in [Streams -> LocalSocket]
    BY <2>1, <2>3, <2>4, <2>5
  <2> QED BY <1>6, <2>6 DEF WriteTcp, Bridge, loopVars, quicVars
<1>7. CASE ShutdownTcp(s)
  <2>1. [bridge[s] EXCEPT !.down = "done"] \in BridgeTask
    BY <1>0 DEF BridgeTask
  <2>2. [tcp[s] EXCEPT !.shut = TRUE] \in LocalSocket
    BY <1>0 DEF LocalSocket
  <2> QED BY <1>7, <2>1, <2>2 DEF ShutdownTcp, Bridge, loopVars, quicVars
<1>8. CASE CopyDone(s)
  BY <1>8, <1>c DEF CopyDone
<1>9. CASE CopyError(s)
  BY <1>9, <1>c DEF CopyError
<1>10. CASE SendClosed(s)
  <2>1. Msg(s, "Closed", 0, 0) \in Message
    BY DEF Msg, Message, Chunk
  <2>2. egress' \in Seq(Message) /\ Len(egress') <= EGRESS_CHANNEL_CAP
    BY <1>10, <1>b, <2>1 DEF SendClosed, SendIgnored
  <2> QED BY <1>10, <1>a, <2>2 DEF SendClosed, Bridge, loopVars, quicVars
<1> QED BY <1>1, <1>2, <1>3, <1>4, <1>5, <1>6, <1>7, <1>8, <1>9, <1>10 DEF Bridge

\* Every step leaves the state well typed.
LEMMA TypeStep == TypeOK /\ [Next]_vars => TypeOK'
<1> SUFFICES ASSUME TypeOK, [Next]_vars PROVE TypeOK'
  OBVIOUS
<1>1. CASE UNCHANGED vars
  BY <1>1 DEF TypeOK, vars, loopVars, quicVars, taskVars
<1>2. CASE Loop
  BY <1>2, TypeSelect, TypePhases, TypePoll, TypePumpInbound, TypePumpOutbound, TypeReap
     DEF Loop, Turn
<1>3. CASE ConnCloses
  BY <1>3, TypePhases
<1>4. ASSUME NEW s \in Streams, OpenStream(s) \/ Network(s) \/ Bridge(s)
      PROVE  TypeOK'
  BY <1>4, TypeOpenStream, TypeNetwork, TypeBridge
<1> QED BY <1>1, <1>2, <1>3, <1>4 DEF Next

\* Every reachable state is well typed; in particular neither the inbound
\* channels nor the egress channel ever hold more than their capacity.
THEOREM TypeCorrect == Spec => []TypeOK
<1> QED BY TypeInit, TypeStep, PTL DEF Spec

-----------------------------------------------------------------------------
(* No wake-up is lost.                                                     *)

\* Stream s could make progress, had pump_inbound another look at it.
Retryable(s) ==
  /\ st[s].present /\ st[s].readable
  /\ ReceiverAlive(s)
  /\ Len(rx[s]) < INBOUND_CHANNEL_CAP

\* NoLostWakeup speaks of select! only; between two selects what stands in
\* for the permit is that the running turn has pump_inbound still before it,
\* or, inside pump_inbound, that the stream is still to be visited.
RetryIsDue == \A s \in Streams :
  Retryable(s) => \/ read_credit
                  \/ phase \in {"recv", "poll"}
                  \/ phase = "in" /\ s \in todo

\* No sender is blocked at first.
LEMMA RetryInit == Init => RetryIsDue
BY DEF Init, NoState, RetryIsDue, Retryable

\* The loop's own steps: a visit of pump_inbound that ends leaves the stream
\* unreadable or its channel full.
LEMMA RetryLoop ==
  ASSUME TypeOK, RetryIsDue, Loop
  PROVE  RetryIsDue'
<1> SUFFICES ASSUME NEW t \in Streams, Retryable(t)'
             PROVE  \/ read_credit'
                    \/ phase' \in {"recv", "poll"}
                    \/ phase' = "in" /\ t \in todo'
  BY DEF RetryIsDue
<1> USE DEF Retryable, ReceiverAlive
<1>0. Retryable(t) => \/ read_credit
                      \/ phase \in {"recv", "poll"}
                      \/ phase = "in" /\ t \in todo
  BY DEF RetryIsDue
<1>1. CASE SelectUdp \/ SelectEgress \/ SelectCredit
  BY <1>1 DEF SelectUdp, SelectEgress, SelectCredit
<1>2. CASE SelectEgressUnknown
  BY <1>0, <1>2 DEF SelectEgressUnknown, loopVars, taskVars
<1>3. CASE UdpError
  BY <1>3 DEF UdpError, NoState
<1>4. CASE RecvDone
  BY <1>4 DEF RecvDone
<1>5. CASE \E s \in Streams : Poll(s)
  BY <1>5 DEF Poll
<1>6. CASE PollDone
  BY <1>6 DEF PollDone, taskVars
<1>7. ASSUME NEW s \in Streams, PumpInbound(s)
      PROVE  read_credit' \/ (phase' = "in" /\ t \in todo')
  <2>1. /\ phase = "in" /\ phase' = "in"
        /\ read_credit' = read_credit /\ bridge' = bridge
    BY <1>7 DEF PumpInbound, taskVars
  <2>2. CASE t # s
    <3>1. st'[t] = st[t] /\ rx'[t] = rx[t] /\ (t \in todo => t \in todo')
      BY <1>7, <2>2 DEF PumpInbound, PumpInNoSender, PumpInFull, PumpInClosed,
         PumpInRecv, PumpInDone, PumpInError, StopReading, Leave, TypeOK
    <3> QED BY <1>0, <2>1, <3>1
  <2>3. CASE t = s
    <3>1. CASE PumpInRecv(s)
      BY <1>7, <2>1, <2>3, <3>1 DEF PumpInRecv, PumpInbound
    <3>2. CASE PumpInFull(s)
      BY <2>3, <3>2, QuicTunnelAssumption DEF PumpInFull, TypeOK
    <3>3. CASE ~PumpInRecv(s) /\ ~PumpInFull(s)
      <4>1. \E b \in BOOLEAN : StopReading(s, b)
        BY <1>7, <3>3 DEF PumpInbound, PumpInNoSender, PumpInClosed, PumpInDone,
           PumpInError, StreamFinished
      <4>2. ~st'[s].readable
        BY <4>1 DEF StopReading, TypeOK, StreamState
      <4> QED BY <2>3, <4>2
    <3> QED BY <3>1, <3>2, <3>3
  <2> QED BY <2>2, <2>3
<1>8. CASE PumpInEnd
  BY <1>0, <1>8 DEF PumpInEnd, taskVars
<1>9. ASSUME NEW s \in Streams, PumpOutbound(s)
      PROVE  read_credit'
  <2>1. /\ phase = "out" /\ read_credit' = read_credit
        /\ bridge' = bridge /\ rx' = rx
    BY <1>9 DEF PumpOutbound, taskVars
  <2>2. st'[t].present = st[t].present /\ st'[t].readable = st[t].readable
    <3>0. st \in [Streams -> StreamState]
      BY DEF TypeOK
    <3>1. CASE PumpOutSend(s)
      BY <3>0, <3>1 DEF PumpOutSend, StreamState
    <3>2. CASE PumpOutBlocked(s)
      BY <3>2 DEF PumpOutBlocked
    <3>3. CASE PumpOutError(s)
      BY <3>0, <3>3 DEF PumpOutError, StreamState
    <3>4. CASE PumpOutFin(s)
      BY <3>0, <3>4 DEF PumpOutFin, StreamState
    <3> QED BY <1>9, <3>1, <3>2, <3>3, <3>4 DEF PumpOutbound
  <2> QED BY <1>0, <2>1, <2>2
<1>10. CASE PumpOutEnd
  BY <1>0, <1>10 DEF PumpOutEnd, taskVars
<1>11. CASE ReapStreams
  BY <1>0, <1>11 DEF ReapStreams, NoState, taskVars
<1> QED BY <1>1, <1>2, <1>3, <1>4, <1>5, <1>6, <1>7, <1>8, <1>9, <1>10, <1>11
        DEF Loop, Turn

\* The bridges: only poll_read makes room in a live channel, and it notifies.
LEMMA RetryBridge ==
  ASSUME TypeOK, RetryIsDue, NEW s \in Streams, Bridge(s)
  PROVE  RetryIsDue'
<1> SUFFICES ASSUME NEW t \in Streams, Retryable(t)', ~read_credit'
             PROVE  Retryable(t) /\ ~read_credit
  BY DEF RetryIsDue, Bridge, loopVars
<1>1. st' = st
  BY DEF Bridge, loopVars
<1>2. read_credit' = read_credit /\ ~PopRx(s)
  BY DEF Bridge, DialOk, DialFail, DropStream, CopyUp, ShutdownUp, PopRx, WriteTcp,
     ShutdownTcp, CopyDone, CopyError, SendClosed
<1>3. ReceiverAlive(t) /\ rx'[t] = rx[t]
  <2>1. bridge' = [bridge EXCEPT ![s] = bridge'[s]]
    BY DEF TypeOK, Bridge, DialOk, DialFail, DropStream, CopyUp, ShutdownUp,
       PopRx, WriteTcp, ShutdownTcp, CopyDone, CopyError, SendClosed
  <2>2. CASE t # s
    <3>1. bridge'[t] = bridge[t]
      BY <2>1, <2>2 DEF TypeOK
    <3>2. rx'[t] = rx[t]
      BY <2>2 DEF TypeOK, Bridge, DialOk, DialFail, DropStream, CopyUp, ShutdownUp,
         PopRx, WriteTcp, ShutdownTcp, CopyDone, CopyError, SendClosed
    <3> QED BY <3>1, <3>2 DEF Retryable, ReceiverAlive
  <2>3. CASE t = s
    <3>0. bridge'[s].pc \in {"dialing", "copying"} /\ bridge[s] \in BridgeTask
      BY <2>3 DEF Retryable, ReceiverAlive, TypeOK
    <3>1. ~DialFail(s) /\ ~CopyDone(s) /\ ~CopyError(s) /\ ~SendClosed(s)
      BY <3>0 DEF DialFail, CopyDone, CopyError, SendClosed, DropStream, TypeOK,
         BridgeTask
    <3>2. rx' = rx
      BY <1>2, <3>1 DEF Bridge, DialOk, CopyUp, ShutdownUp, WriteTcp, ShutdownTcp
    <3>3. bridge[s].pc \in {"dialing", "copying"}
      BY <1>2, <3>1 DEF Bridge, DialOk, CopyUp, ShutdownUp, WriteTcp, ShutdownTcp,
         CopiesUp, CopiesDown, Copying
    <3> QED BY <2>3, <3>2, <3>3 DEF ReceiverAlive
  <2> QED BY <2>2, <2>3
<1> QED BY <1>1, <1>2, <1>3 DEF Retryable

\* Every step keeps a retry due for a message that did not fit.
LEMMA RetryStep == TypeOK /\ RetryIsDue /\ [Next]_vars => RetryIsDue'
<1> SUFFICES ASSUME TypeOK, RetryIsDue, [Next]_vars PROVE RetryIsDue'
  OBVIOUS
<1>1. CASE UNCHANGED vars
  BY <1>1 DEF RetryIsDue, Retryable, ReceiverAlive, vars, loopVars, taskVars
<1>2. CASE Loop
  BY <1>2, RetryLoop
<1>3. CASE ConnCloses
  BY <1>3 DEF ConnCloses, RetryIsDue, Retryable, ReceiverAlive, taskVars
<1>4. ASSUME NEW s \in Streams, OpenStream(s)
      PROVE  RetryIsDue'
  <2> SUFFICES ASSUME NEW t \in Streams, Retryable(t)'
               PROVE  read_credit'
    BY DEF RetryIsDue
  <2>1. t # s
    BY <1>4 DEF OpenStream, Retryable, Tunnel, NoState, TypeOK
  <2>2. Retryable(t)
    BY <1>4, <2>1 DEF OpenStream, Retryable, ReceiverAlive, TypeOK
  <2> QED BY <1>4, <2>2 DEF OpenStream, RetryIsDue
<1>5. ASSUME NEW s \in Streams, Network(s)
      PROVE  RetryIsDue'
  BY <1>5 DEF Network, RetryIsDue, Retryable, ReceiverAlive, loopVars, taskVars
<1>6. ASSUME NEW s \in Streams, Bridge(s)
      PROVE  RetryIsDue'
  BY <1>6, RetryBridge
<1> QED BY <1>1, <1>2, <1>3, <1>4, <1>5, <1>6 DEF Next

\* The loop never sleeps on a stream it could serve: whenever it waits in
\* select! with a readable stream whose channel has room, the Notify holds a
\* permit, for any number of streams and any capacities.
THEOREM WakeupCorrect == Spec => []NoLostWakeup
<1>1. RetryIsDue => NoLostWakeup
  BY DEF RetryIsDue, Retryable, NoLostWakeup
<1> QED BY <1>1, TypeCorrect, RetryInit, RetryStep, PTL DEF Spec

-----------------------------------------------------------------------------
(* Inbound bytes stay in order.                                            *)

\* The end of what lies in front of the i-th chunk of the inbound channel:
\* the bytes the bridge holds, or the chunk before.
Edge(s, i) == IF i = 0 THEN held[s].hi ELSE rx[s][i].hi

\* From the last byte the socket took to the last one recv_body returned, the
\* bytes the bridge holds and the chunks of the channel follow each other.
Contiguous(s) ==
  /\ held[s].lo = tcp[s].wrote
  /\ held[s].lo <= held[s].hi
  /\ held[s].hi <= rcv[s].read
  /\ \A i \in 1 .. Len(rx[s]) : /\ rx[s][i].lo = Edge(s, i - 1)
                                /\ rx[s][i].lo <= rx[s][i].hi
                                /\ rx[s][i].hi <= rcv[s].read
  /\ Edge(s, Len(rx[s])) = rcv[s].read

\* The chain holds until the bridge lets go of its QuicStream, which it never
\* gets back: the server makes a bridge for the first HEADERS only.
InboundChain(s) ==
  /\ tcp[s].intact
  /\ tcp[s].wrote <= rcv[s].read
  /\ bridge[s].pc \in {"none", "dialing", "copying"} => Contiguous(s)
  /\ Role = "server" /\ rcv[s].hdrs \in {"none", "ok"} => bridge[s].pc = "none"

ChainInv == \A s \in Streams : InboundChain(s)

\* Nothing is in the chain at first.
LEMMA ChainInit == Init => ChainInv
<1> SUFFICES ASSUME Init, NEW s \in Streams PROVE InboundChain(s)
  BY DEF ChainInv
<1>1. /\ rx[s] = <<>> /\ held[s] = Nothing /\ rcv[s].read = 0
      /\ tcp[s].wrote = 0 /\ tcp[s].intact /\ bridge[s].pc = "none"
  BY DEF Init
<1>2. held[s].lo = 0 /\ held[s].hi = 0
  BY <1>1 DEF Nothing
<1>3. Len(rx[s]) = 0
  BY <1>1
<1>4. Contiguous(s)
  BY <1>1, <1>2, <1>3 DEF Contiguous, Edge
<1> QED BY <1>1, <1>4 DEF InboundChain

\* A step that touches nothing of the receive path of a stream.
LEMMA ChainUnmoved ==
  ASSUME NEW s \in Streams, InboundChain(s),
         rcv'[s].read = rcv[s].read, rcv'[s].hdrs = rcv[s].hdrs,
         rx'[s] = rx[s], held'[s] = held[s],
         tcp'[s].wrote = tcp[s].wrote, tcp'[s].intact = tcp[s].intact,
         bridge'[s].pc = bridge[s].pc
  PROVE  InboundChain(s)'
BY DEF InboundChain, Contiguous, Edge

\* The chain at its ends: recv_body appends, poll_read takes the head.
LEMMA ChainAppend ==
  ASSUME TypeOK, NEW s \in Streams, InboundChain(s), ReceiverAlive(s),
         NEW n \in Nat,
         rx'[s] = Append(rx[s], [lo |-> rcv[s].read, hi |-> rcv[s].read + n]),
         rcv'[s].read = rcv[s].read + n, rcv'[s].hdrs = rcv[s].hdrs,
         UNCHANGED taskVars
  PROVE  InboundChain(s)'
<1> DEFINE chunk == [lo |-> rcv[s].read, hi |-> rcv[s].read + n]
           len == Len(rx[s])
<1>0. /\ rx[s] \in Seq(Chunk) /\ rcv[s].read \in Nat /\ tcp[s].wrote \in Nat
      /\ held[s].lo \in Nat /\ held[s].hi \in Nat
      /\ len \in Nat
      /\ \A i \in 1 .. len : rx[s][i].lo \in Nat /\ rx[s][i].hi \in Nat
  <2>1. rx[s] \in Seq(Chunk) /\ held[s] \in Chunk
    BY DEF TypeOK
  <2>2. rcv[s].read \in Nat /\ tcp[s].wrote \in Nat
    BY DEF TypeOK, ReceivingHalf, LocalSocket
  <2>3. len \in Nat /\ \A i \in 1 .. len : rx[s][i] \in Chunk
    BY <2>1
  <2> QED BY <2>1, <2>2, <2>3 DEF Chunk
<1>1. Contiguous(s)
  BY DEF InboundChain, ReceiverAlive
<1>2. chunk \in Chunk
  BY <1>0 DEF Chunk
<1>3. /\ Len(rx'[s]) = len + 1
      /\ \A i \in 1 .. len : rx'[s][i] = rx[s][i]
      /\ rx'[s][len + 1] = chunk
  BY <1>0, <1>2
<1>4. held' = held /\ tcp' = tcp /\ bridge' = bridge
  BY DEF taskVars
<1>5. \A i \in 0 .. len : Edge(s, i)' = Edge(s, i)
  BY <1>0, <1>3, <1>4 DEF Edge
<1>6. Edge(s, Len(rx[s]))' = rcv'[s].read
  BY <1>0, <1>3 DEF Edge
<1>7. ASSUME NEW i \in 1 .. len + 1
      PROVE  /\ rx'[s][i].lo = Edge(s, i - 1)'
             /\ rx'[s][i].lo <= rx'[s][i].hi
             /\ rx'[s][i].hi <= rcv'[s].read
  <2>1. CASE i \in 1 .. len
    <3>1. /\ rx[s][i].lo = Edge(s, i - 1) /\ rx[s][i].lo <= rx[s][i].hi
          /\ rx[s][i].hi <= rcv[s].read
      BY <1>1, <2>1 DEF Contiguous
    <3>2. i - 1 \in 0 .. len
      BY <1>0, <2>1
    <3> QED BY <1>0, <1>3, <1>5, <2>1, <3>1, <3>2
  <2>2. CASE i = len + 1
    <3>1. i - 1 = len /\ len \in 0 .. len
      BY <1>0, <2>2
    <3>2. Edge(s, i - 1)' = rcv[s].read
      BY <1>1, <1>5, <3>1 DEF Contiguous
    <3> QED BY <1>0, <1>3, <2>2, <3>2
  <2> QED BY <1>0, <2>1, <2>2
<1>8. Contiguous(s)'
  BY <1>0, <1>1, <1>3, <1>4, <1>6, <1>7 DEF Contiguous
<1> QED BY <1>0, <1>4, <1>8 DEF InboundChain

\* poll_read takes the head of the channel, and the chain starts there.
LEMMA ChainPop ==
  ASSUME TypeOK, NEW s \in Streams, InboundChain(s), PopRx(s), UNCHANGED quicVars
  PROVE  InboundChain(s)'
<1> DEFINE len == Len(rx[s])
<1>0. /\ rx[s] \in Seq(Chunk) /\ rx[s] # <<>> /\ len \in Nat \ {0}
      /\ held[s].lo = held[s].hi
      /\ \A i \in 1 .. len : rx[s][i].lo \in Nat /\ rx[s][i].hi \in Nat
  <2>1. rx[s] \in Seq(Chunk) /\ rx[s] # <<>> /\ held[s].lo = held[s].hi
    BY DEF TypeOK, PopRx, HeldEmpty
  <2>2. len \in Nat \ {0} /\ \A i \in 1 .. len : rx[s][i] \in Chunk
    BY <2>1
  <2> QED BY <2>1, <2>2 DEF Chunk
<1>1. Contiguous(s)
  BY DEF InboundChain, PopRx, CopiesDown, Copying
<1>2. /\ held'[s] = rx[s][1]
      /\ rx'[s] = Tail(rx[s])
      /\ rcv' = rcv /\ tcp' = tcp /\ bridge' = bridge
  BY <1>0 DEF PopRx, quicVars, TypeOK
<1>3. /\ Len(rx'[s]) = len - 1
      /\ \A i \in 1 .. len - 1 : rx'[s][i] = rx[s][i + 1]
  BY <1>0, <1>2
<1>4. \A i \in 0 .. len - 1 : Edge(s, i)' = Edge(s, i + 1)
  BY <1>0, <1>2, <1>3 DEF Edge
<1>5. /\ rx[s][1].lo = held[s].hi /\ rx[s][1].lo <= rx[s][1].hi
      /\ rx[s][1].hi <= rcv[s].read
  BY <1>0, <1>1 DEF Contiguous, Edge
<1>6. ASSUME NEW i \in 1 .. len - 1
      PROVE  /\ rx'[s][i].lo = Edge(s, i - 1)'
             /\ rx'[s][i].lo <= rx'[s][i].hi
             /\ rx'[s][i].hi <= rcv'[s].read
  <2>1. i + 1 \in 1 .. len /\ i - 1 \in 0 .. len - 1 /\ (i + 1) - 1 = i /\ (i - 1) + 1 = i
    BY <1>0
  <2>2. /\ rx[s][i + 1].lo = Edge(s, i) /\ rx[s][i + 1].lo <= rx[s][i + 1].hi
        /\ rx[s][i + 1].hi <= rcv[s].read
    BY <1>1, <2>1 DEF Contiguous
  <2> QED BY <1>2, <1>3, <1>4, <2>1, <2>2
<1>7. Edge(s, Len(rx[s]))' = rcv'[s].read
  BY <1>0, <1>1, <1>2, <1>3, <1>4 DEF Contiguous
<1>8. Contiguous(s)'
  BY <1>0, <1>1, <1>2, <1>3, <1>5, <1>6, <1>7 DEF Contiguous
<1> QED BY <1>2, <1>8 DEF InboundChain

\* A partial write to the socket moves the front of what the bridge holds.
LEMMA ChainWrite ==
  ASSUME TypeOK, NEW s \in Streams, InboundChain(s), WriteTcp(s), UNCHANGED quicVars
  PROVE  InboundChain(s)'
<1>1. Contiguous(s)
  BY DEF InboundChain, WriteTcp, Copying
<1>2. PICK n \in 1 .. (held[s].hi - held[s].lo) :
        /\ tcp' = [tcp EXCEPT ![s].intact = @ /\ held[s].lo = tcp[s].wrote,
                              ![s].wrote = held[s].lo + n]
        /\ held' = [held EXCEPT ![s].lo = @ + n]
  BY DEF WriteTcp
<1>3. /\ tcp[s] \in LocalSocket /\ held[s] \in Chunk
      /\ tcp[s].intact /\ held[s].lo = tcp[s].wrote
      /\ held[s].lo \in Nat /\ held[s].hi \in Nat /\ rcv[s].read \in Nat
  BY <1>1 DEF TypeOK, InboundChain, Contiguous, Chunk, ReceivingHalf
<1>4. /\ held'[s].lo = held[s].lo + n /\ held'[s].hi = held[s].hi
      /\ tcp'[s].wrote = held[s].lo + n /\ tcp'[s].intact
  BY <1>2, <1>3 DEF TypeOK, LocalSocket, Chunk
<1>5. rx' = rx /\ rcv' = rcv /\ bridge' = bridge
  BY DEF WriteTcp, quicVars
<1>6. Contiguous(s)'
  BY <1>1, <1>3, <1>4, <1>5 DEF Contiguous, Edge
<1> QED BY <1>3, <1>4, <1>5, <1>6 DEF InboundChain, Contiguous


\* A bridge that lets go of its stream, or has.
LEMMA ChainDrop ==
  ASSUME TypeOK, NEW s \in Streams, InboundChain(s), bridge[s].pc # "none",
         bridge'[s].pc \in {"closing", "done"}, UNCHANGED <<tcp, rcv>>
  PROVE  InboundChain(s)'
BY DEF InboundChain

\* A bridge that starts.
LEMMA ChainStart ==
  ASSUME TypeOK, NEW s \in Streams, InboundChain(s), bridge[s].pc \in {"none", "dialing"},
         bridge'[s].pc \in {"dialing", "copying"},
         rcv'[s].read = rcv[s].read,
         Role = "server" => rcv'[s].hdrs \notin {"none", "ok"},
         UNCHANGED <<rx, held, tcp>>
  PROVE  InboundChain(s)'
BY DEF InboundChain, Contiguous, Edge

\* The bridge moves bytes along the chain and never past one another.
LEMMA ChainBridge ==
  ASSUME TypeOK, ChainInv, NEW s \in Streams, Bridge(s)
  PROVE  ChainInv'
<1> SUFFICES ASSUME NEW t \in Streams PROVE InboundChain(t)'
  BY DEF ChainInv
<1>0. /\ InboundChain(s) /\ InboundChain(t)
      /\ UNCHANGED quicVars /\ rcv' = rcv
  BY DEF ChainInv, Bridge, quicVars
<1>1. CASE t # s
  <2>1. /\ rx'[t] = rx[t] /\ held'[t] = held[t] /\ tcp'[t] = tcp[t]
        /\ bridge'[t] = bridge[t]
    BY <1>1 DEF TypeOK, Bridge, DialOk, DialFail, DropStream, CopyUp, ShutdownUp,
       PopRx, WriteTcp, ShutdownTcp, CopyDone, CopyError, SendClosed
  <2> QED BY <1>0, <2>1, ChainUnmoved
<1>2. CASE t = s
  <2>0. bridge[s] \in BridgeTask /\ tcp[s] \in LocalSocket
    BY DEF TypeOK
  <2>1. CASE DialOk(s)
    <3>1. bridge[s].pc = "dialing" /\ bridge'[s].pc = "copying" /\ UNCHANGED <<rx, held, tcp>>
      BY <2>0, <2>1 DEF DialOk, TypeOK, BridgeTask
    <3>2. Role = "server" => rcv'[s].hdrs \notin {"none", "ok"}
      BY <1>0, <3>1 DEF InboundChain
    <3> QED BY <1>0, <1>2, <3>1, <3>2, ChainStart
  <2>2. CASE DialFail(s) \/ CopyDone(s) \/ CopyError(s)
    <3>1. bridge[s].pc # "none" /\ bridge'[s].pc = "closing" /\ tcp' = tcp
      BY <2>0, <2>2 DEF DialFail, CopyDone, CopyError, Copying, DropStream, TypeOK,
         BridgeTask
    <3> QED BY <1>0, <1>2, <3>1, ChainDrop
  <2>3. CASE SendClosed(s)
    <3>1. bridge[s].pc # "none" /\ bridge'[s].pc = "done" /\ tcp' = tcp
      BY <2>0, <2>3 DEF SendClosed, TypeOK, BridgeTask
    <3> QED BY <1>0, <1>2, <3>1, ChainDrop
  <2>4. CASE CopyUp(s) \/ ShutdownUp(s) \/ ShutdownTcp(s)
    <3>1. bridge'[s].pc = bridge[s].pc /\ rx' = rx /\ held' = held
      BY <2>0, <2>4 DEF CopyUp, ShutdownUp, ShutdownTcp, TypeOK, BridgeTask
    <3>2. tcp'[s].wrote = tcp[s].wrote /\ tcp'[s].intact = tcp[s].intact
      BY <2>0, <2>4 DEF CopyUp, ShutdownUp, ShutdownTcp, TypeOK, LocalSocket
    <3> QED BY <1>0, <1>2, <3>1, <3>2, ChainUnmoved
  <2>5. CASE PopRx(s)
    BY <1>0, <1>2, <2>5, ChainPop
  <2>6. CASE WriteTcp(s)
    BY <1>0, <1>2, <2>6, ChainWrite
  <2> QED BY <2>1, <2>2, <2>3, <2>4, <2>5, <2>6 DEF Bridge
<1> QED BY <1>1, <1>2


\* Steps of the loop that leave the tasks and the channels alone and move
\* quiche's headers, if at all, further on.
LEMMA ChainQuiet ==
  ASSUME TypeOK, ChainInv, UNCHANGED <<rx, taskVars>>,
         \A t \in Streams : /\ rcv'[t].read = rcv[t].read
                            /\ \/ rcv'[t].hdrs = rcv[t].hdrs
                               \/ rcv[t].hdrs \in {"none", "ok"}
                               \/ rcv'[t].hdrs \notin {"none", "ok"}
  PROVE  ChainInv'
<1> SUFFICES ASSUME NEW t \in Streams PROVE InboundChain(t)'
  BY DEF ChainInv
<1>1. InboundChain(t) /\ bridge' = bridge /\ held' = held /\ tcp' = tcp
  BY DEF ChainInv, taskVars
<1> QED BY <1>1 DEF InboundChain, Contiguous, Edge

\* A datagram adds to what the peer wrote and keeps what was read.
LEMMA ChainNetwork ==
  ASSUME TypeOK, ChainInv, NEW s \in Streams, Network(s)
  PROVE  ChainInv'
<1>1. UNCHANGED <<rx, taskVars>>
  BY DEF Network
<1>2. \A t \in Streams : /\ rcv'[t].read = rcv[t].read
                         /\ \/ rcv'[t].hdrs = rcv[t].hdrs
                            \/ rcv[t].hdrs \in {"none", "ok"}
                            \/ rcv'[t].hdrs \notin {"none", "ok"}
  <2>0. rcv \in [Streams -> ReceivingHalf]
    BY DEF TypeOK
  <2>1. CASE FrameHeaders(s)
    BY <2>0, <2>1 DEF FrameHeaders, ReceivingHalf
  <2>2. CASE FrameData(s) \/ FrameFin(s) \/ FrameReset(s)
    BY <2>0, <2>2 DEF FrameData, FrameFin, FrameReset, ReceivingHalf
  <2>3. CASE FrameStop(s) \/ FrameCredit(s)
    BY <2>3 DEF FrameStop, FrameCredit
  <2> QED BY <2>1, <2>2, <2>3 DEF Network
<1> QED BY <1>1, <1>2, ChainQuiet

\* poll_h3 reads bodies where the previous one ended.
LEMMA ChainPoll ==
  ASSUME TypeOK, ChainInv, NEW s \in Streams, Poll(s)
  PROVE  ChainInv'
<1>0. rcv \in [Streams -> ReceivingHalf] /\ UNCHANGED <<rx, held, tcp>>
  BY DEF TypeOK, Poll
<1>1. CASE PollHeadersOk(s) /\ Role = "server"
  <2> SUFFICES ASSUME NEW t \in Streams PROVE InboundChain(t)'
    BY DEF ChainInv
  <2>1. InboundChain(t) /\ InboundChain(s)
    BY DEF ChainInv
  <2>2. CASE t # s
    <3>1. rcv'[t] = rcv[t] /\ bridge'[t] = bridge[t]
      BY <1>1, <2>2 DEF PollHeadersOk, TypeOK
    <3> QED BY <1>0, <2>1, <3>1, ChainUnmoved
  <2>3. CASE t = s
    <3>1. bridge[s].pc = "none"
      BY <1>1, <2>1 DEF PollHeadersOk, InboundChain
    <3>2. /\ bridge'[s].pc = "dialing"
          /\ rcv'[s].read = rcv[s].read /\ rcv'[s].hdrs = "seen"
      BY <1>0, <1>1 DEF PollHeadersOk, ReceivingHalf, TypeOK, BridgeTask
    <3> QED BY <1>0, <2>1, <2>3, <3>1, <3>2, ChainStart
  <2> QED BY <2>2, <2>3
<1>2. CASE ~(PollHeadersOk(s) /\ Role = "server")
  <2>1. bridge' = bridge
    BY <1>2 DEF Poll, PollHeadersOk, PollHeadersUnanswered, PollRefused,
       PollNotTunnel, PollData, PollFinished, PollReset
  <2>2. \A t \in Streams : /\ rcv'[t].read = rcv[t].read
                           /\ \/ rcv'[t].hdrs = rcv[t].hdrs
                              \/ rcv'[t].hdrs \notin {"none", "ok"}
    <3>1. CASE PollHeadersOk(s)
      BY <1>0, <3>1 DEF PollHeadersOk, ReceivingHalf
    <3>2. CASE PollRefused(s) \/ PollNotTunnel(s)
      BY <1>0, <3>2 DEF PollRefused, PollNotTunnel, ReceivingHalf
    <3>3. CASE PollData(s)
      BY <1>0, <3>3 DEF PollData, ReceivingHalf
    <3>4. CASE PollFinished(s) \/ PollReset(s)
      BY <1>0, <3>4 DEF PollFinished, PollReset, ReceivingHalf
    <3>5. CASE PollHeadersUnanswered(s)
      BY <1>0, <3>5 DEF PollHeadersUnanswered, ReceivingHalf
    <3> QED BY <3>1, <3>2, <3>3, <3>4, <3>5 DEF Poll
  <2> QED BY <1>0, <2>1, <2>2, ChainQuiet DEF taskVars
<1> QED BY <1>1, <1>2

\* pump_inbound appends what it reads to the chain, or keeps it in pending.
LEMMA ChainPumpInbound ==
  ASSUME TypeOK, ChainInv, NEW s \in Streams, PumpInbound(s)
  PROVE  ChainInv'
<1>0. rcv \in [Streams -> ReceivingHalf] /\ UNCHANGED taskVars
  BY DEF TypeOK, PumpInbound
<1>1. CASE PumpInRecv(s)
  <2> SUFFICES ASSUME NEW t \in Streams PROVE InboundChain(t)'
    BY DEF ChainInv
  <2>0. InboundChain(s) /\ InboundChain(t) /\ ReceiverAlive(s)
    BY <1>1 DEF ChainInv, PumpInRecv, Permit
  <2>1. PICK n \in 1 .. Least(RECV_CHUNK, rcv[s].arrived - rcv[s].read) :
          /\ rx' = [rx EXCEPT ![s] =
                      Append(@, [lo |-> rcv[s].read, hi |-> rcv[s].read + n])]
          /\ rcv' = [rcv EXCEPT ![s].read = @ + n]
    BY <1>1 DEF PumpInRecv
  <2>2. CASE t # s
    <3>1. rx'[t] = rx[t] /\ rcv'[t] = rcv[t]
      BY <2>1, <2>2 DEF TypeOK
    <3> QED BY <1>0, <2>0, <3>1, ChainUnmoved DEF taskVars
  <2>3. CASE t = s
    <3>1. n \in Nat
      BY <2>1
    <3>2. /\ rx'[s] = Append(rx[s], [lo |-> rcv[s].read, hi |-> rcv[s].read + n])
          /\ rcv'[s].read = rcv[s].read + n /\ rcv'[s].hdrs = rcv[s].hdrs
      BY <1>0, <2>1 DEF TypeOK, ReceivingHalf
    <3> QED BY <1>0, <2>0, <2>3, <3>1, <3>2, ChainAppend
  <2> QED BY <2>2, <2>3
<1>2. CASE ~PumpInRecv(s)
  <2>1. rx' = rx
    BY <1>2 DEF PumpInbound, PumpInNoSender, PumpInFull, PumpInClosed, PumpInDone,
       PumpInError
  <2>2. \A t \in Streams : rcv'[t].read = rcv[t].read /\ rcv'[t].hdrs = rcv[t].hdrs
    <3>1. CASE PumpInClosed(s)
      BY <1>0, <3>1 DEF PumpInClosed, ReceivingHalf
    <3>2. CASE PumpInDone(s)
      BY <1>0, <3>2 DEF PumpInDone, ReceivingHalf
    <3>3. CASE PumpInNoSender(s) \/ PumpInFull(s) \/ PumpInError(s)
      BY <3>3 DEF PumpInNoSender, PumpInFull, PumpInError
    <3> QED BY <1>2, <3>1, <3>2, <3>3 DEF PumpInbound
  <2> QED BY <1>0, <2>1, <2>2, ChainQuiet
<1> QED BY <1>1, <1>2

\* Every step keeps the chain.
LEMMA ChainStep == TypeOK /\ ChainInv /\ [Next]_vars => ChainInv'
<1> SUFFICES ASSUME TypeOK, ChainInv, [Next]_vars PROVE ChainInv'
  OBVIOUS
<1>1. CASE UNCHANGED vars
  BY <1>1, ChainQuiet DEF vars, quicVars
<1>2. CASE \/ SelectUdp \/ SelectEgress \/ SelectEgressUnknown \/ SelectCredit
           \/ UdpError \/ RecvDone \/ PollDone \/ PumpInEnd \/ PumpOutEnd \/ ConnCloses
  <2>1. UNCHANGED <<rcv, rx, taskVars>>
    BY <1>2 DEF SelectUdp, SelectEgress, SelectEgressUnknown, SelectCredit, UdpError,
       RecvDone, PollDone, PumpInEnd, PumpOutEnd, ConnCloses, quicVars
  <2> QED BY <2>1, ChainQuiet
<1>3. CASE ReapStreams
  <2>1. \A t \in Streams : rcv'[t].read = rcv[t].read /\ rcv'[t].hdrs = rcv[t].hdrs
    BY <1>3 DEF ReapStreams, TypeOK, ReceivingHalf
  <2> QED BY <1>3, <2>1, ChainQuiet DEF ReapStreams
<1>4. ASSUME NEW s \in Streams, PumpOutbound(s) PROVE ChainInv'
  BY <1>4, ChainQuiet DEF PumpOutbound
<1>5. ASSUME NEW s \in Streams, OpenStream(s) PROVE ChainInv'
  <2> SUFFICES ASSUME NEW t \in Streams PROVE InboundChain(t)'
    BY DEF ChainInv
  <2>0. InboundChain(t) /\ UNCHANGED <<rcv, rx, held, tcp>>
    BY <1>5 DEF ChainInv, OpenStream, quicVars
  <2>1. CASE t # s
    <3>1. bridge'[t] = bridge[t]
      BY <1>5, <2>1 DEF OpenStream, TypeOK
    <3> QED BY <2>0, <3>1, ChainUnmoved
  <2>2. CASE t = s
    <3>1. bridge[s].pc = "none" /\ bridge'[s].pc = "copying" /\ Role # "server"
      BY <1>5, QuicTunnelAssumption DEF OpenStream, TypeOK, BridgeTask
    <3> QED BY <2>0, <2>2, <3>1, ChainStart
  <2> QED BY <2>1, <2>2
<1>6. ASSUME NEW s \in Streams,
             Network(s) \/ Bridge(s) \/ Poll(s) \/ PumpInbound(s)
      PROVE  ChainInv'
  BY <1>6, ChainNetwork, ChainBridge, ChainPoll, ChainPumpInbound
<1> QED BY <1>1, <1>2, <1>3, <1>4, <1>5, <1>6 DEF Next, Loop, Turn

\* The receive path neither loses, repeats nor reorders a byte: whatever
\* recv_body returns, however the tasks interleave and wherever a socket
\* write stops, the local peer gets a prefix of what was read from quiche.
THEOREM InboundCorrect == Spec => []InboundInOrder
<1>1. ChainInv => InboundInOrder
  BY DEF ChainInv, InboundChain, InboundInOrder
<1> QED BY <1>1, TypeCorrect, ChainInit, ChainStep, PTL DEF Spec


-----------------------------------------------------------------------------
(* The path from the local socket to quiche: pending and then the messages *)
(* of the stream in the shared egress channel tile the interval between    *)
(* what quiche has taken and what the socket has given.                    *)

\* The positions in the channel e that carry bytes of s.
Mine(e, s) == {i \in 1 .. Len(e) : e[i].stream = s /\ e[i].out = "Data"}

In(c, b) == c.lo <= b /\ b < c.hi

Within(c, from, to) == from <= c.lo /\ c.lo < c.hi /\ c.hi <= to

\* p and then the messages of s in e cover from .. to - 1, in order.
Tiles(p, e, s, from, to) ==
  /\ \A i \in 1 .. Len(p) : Within(p[i], from, to)
  /\ \A i \in Mine(e, s) : Within(e[i].chunk, from, to)
  /\ \A i, j \in 1 .. Len(p) : i < j => p[i].hi <= p[j].lo
  /\ \A i, j \in Mine(e, s) : i < j => e[i].chunk.hi <= e[j].chunk.lo
  /\ \A i \in 1 .. Len(p), j \in Mine(e, s) : p[i].hi <= e[j].chunk.lo
  /\ \A b \in from .. to - 1 :
       \/ \E i \in 1 .. Len(p) : In(p[i], b)
       \/ \E i \in Mine(e, s) : In(e[i].chunk, b)

\* poll_write reserves a slot and appends what the socket gave next.
LEMMA TilesWrite ==
  ASSUME NEW p \in Seq(Chunk), NEW e \in Seq(Message), NEW s \in Streams,
         NEW from \in Nat, NEW to \in Nat, NEW n \in Nat \ {0},
         Tiles(p, e, s, from, to), from <= to
  PROVE  Tiles(p, Append(e, Msg(s, "Data", to, to + n)), s, from, to + n)
<1> DEFINE m == Msg(s, "Data", to, to + n)
           f == Append(e, m)
           len == Len(e)
<1>1. /\ m \in Message /\ m.stream = s /\ m.out = "Data"
      /\ m.chunk.lo = to /\ m.chunk.hi = to + n
  BY DEF Msg, Message, Chunk
<1>2. /\ len \in Nat /\ Len(f) = len + 1 /\ f[len + 1] = m
      /\ \A i \in 1 .. len : f[i] = e[i] /\ e[i] \in Message
  <2>1. m \in Message
    BY <1>1
  <2> HIDE DEF m
  <2> QED BY <2>1
<1>3. Mine(f, s) = Mine(e, s) \cup {len + 1} /\ \A i \in Mine(e, s) : i \in 1 .. len
  BY <1>1, <1>2 DEF Mine
<1>4. \A i \in 1 .. Len(p) : p[i] \in Chunk
  OBVIOUS
<1>5. \A i \in Mine(f, s) :
        \/ i \in Mine(e, s) /\ i < len + 1 /\ f[i] = e[i]
        \/ i = len + 1 /\ f[i] = m
  BY <1>2, <1>3
<1>A. /\ \A i \in 1 .. Len(p) : p[i].lo \in Nat /\ p[i].hi \in Nat
      /\ \A i \in Mine(e, s) : e[i].chunk.lo \in Nat /\ e[i].chunk.hi \in Nat
  BY <1>2, <1>3, <1>4 DEF Message, Chunk
<1> HIDE DEF m, f, len
<1>6. /\ \A i \in 1 .. Len(p) : Within(p[i], from, to + n)
      /\ \A i \in Mine(f, s) : Within(f[i].chunk, from, to + n)
  BY <1>1, <1>A, <1>5 DEF Tiles, Within
<1>7. \A i, j \in Mine(f, s) : i < j => f[i].chunk.hi <= f[j].chunk.lo
  <2> SUFFICES ASSUME NEW i \in Mine(f, s), NEW j \in Mine(f, s), i < j
               PROVE  f[i].chunk.hi <= f[j].chunk.lo
    OBVIOUS
  <2>1. i \in Mine(e, s) /\ f[i] = e[i]
    BY <1>2, <1>5, <1>3
  <2>2. CASE j \in Mine(e, s) /\ f[j] = e[j]
    BY <2>1, <2>2 DEF Tiles
  <2>3. CASE f[j] = m
    BY <1>1, <2>1, <2>3 DEF Tiles, Within
  <2> QED BY <1>5, <2>2, <2>3
<1>8. \A i \in 1 .. Len(p), j \in Mine(f, s) : p[i].hi <= f[j].chunk.lo
  BY <1>1, <1>A, <1>5 DEF Tiles, Within
<1>9. ASSUME NEW b \in from .. (to + n) - 1
      PROVE  \/ \E i \in 1 .. Len(p) : In(p[i], b)
             \/ \E i \in Mine(f, s) : In(f[i].chunk, b)
  <2>1. CASE b \in from .. to - 1
    BY <1>2, <1>3, <2>1 DEF Tiles
  <2>2. CASE b \notin from .. to - 1
    <3>1. In(m.chunk, b)
      BY <1>1, <2>2 DEF In
    <3> QED BY <1>2, <1>3, <3>1
  <2> QED BY <2>1, <2>2
<1>10. \A i, j \in 1 .. Len(p) : i < j => p[i].hi <= p[j].lo
  BY DEF Tiles
<1>11. Tiles(p, f, s, from, to + n)
  BY <1>6, <1>7, <1>8, <1>9, <1>10 DEF Tiles
<1> QED BY <1>11 DEF f, m

\* A message that carries no bytes of s changes nothing for s.
LEMMA TilesOther ==
  ASSUME NEW p \in Seq(Chunk), NEW e \in Seq(Message), NEW s \in Streams,
         NEW from, NEW to, NEW m \in Message, m.stream # s \/ m.out # "Data",
         Tiles(p, e, s, from, to)
  PROVE  Tiles(p, Append(e, m), s, from, to)
<1>1. /\ Mine(Append(e, m), s) = Mine(e, s)
      /\ \A i \in Mine(e, s) : Append(e, m)[i] = e[i]
  BY DEF Mine
<1> QED BY <1>1 DEF Tiles

\* The messages left when the loop has taken the first.
LEMMA MineOfTail ==
  ASSUME NEW e \in Seq(Message), e # <<>>, NEW s
  PROVE  /\ \A i \in Mine(Tail(e), s) : i + 1 \in Mine(e, s) /\ Tail(e)[i] = e[i + 1]
         /\ \A i \in Mine(e, s) : i # 1 =>
              i - 1 \in Mine(Tail(e), s) /\ Tail(e)[i - 1] = e[i]
<1>1. /\ Len(e) \in Nat \ {0} /\ Len(Tail(e)) = Len(e) - 1
      /\ \A i \in 1 .. Len(e) - 1 : Tail(e)[i] = e[i + 1]
  OBVIOUS
<1> QED BY <1>1 DEF Mine

LEMMA TilesSkip ==
  ASSUME NEW p \in Seq(Chunk), NEW e \in Seq(Message), e # <<>>, NEW s \in Streams,
         NEW from, NEW to, Head(e).stream # s \/ Head(e).out # "Data",
         Tiles(p, e, s, from, to)
  PROVE  Tiles(p, Tail(e), s, from, to)
<1>1. 1 \notin Mine(e, s)
  BY DEF Mine
<1>2. /\ \A i \in Mine(Tail(e), s) : i + 1 \in Mine(e, s) /\ Tail(e)[i] = e[i + 1]
      /\ \A i \in Mine(e, s) : i - 1 \in Mine(Tail(e), s) /\ Tail(e)[i - 1] = e[i]
  BY <1>1, MineOfTail
<1>3. /\ \A i \in Mine(Tail(e), s) : i \in Nat
      /\ \A i \in Mine(e, s) : i \in Nat
  BY DEF Mine
<1> DEFINE f == Tail(e)
<1> HIDE DEF f
<1>4. /\ \A i \in Mine(f, s) : Within(f[i].chunk, from, to)
      /\ \A i \in 1 .. Len(p), j \in Mine(f, s) : p[i].hi <= f[j].chunk.lo
  BY <1>2 DEF Tiles, f
<1>5. \A i, j \in Mine(f, s) : i < j => f[i].chunk.hi <= f[j].chunk.lo
  <2> SUFFICES ASSUME NEW i \in Mine(f, s), NEW j \in Mine(f, s), i < j
               PROVE  f[i].chunk.hi <= f[j].chunk.lo
    OBVIOUS
  <2>1. /\ i + 1 \in Mine(e, s) /\ j + 1 \in Mine(e, s)
        /\ f[i] = e[i + 1] /\ f[j] = e[j + 1]
    BY <1>2 DEF f
  <2>2. i + 1 < j + 1
    BY <1>3 DEF f
  <2> QED BY <2>1, <2>2 DEF Tiles
<1>6. ASSUME NEW b \in from .. to - 1
      PROVE  \/ \E i \in 1 .. Len(p) : In(p[i], b)
             \/ \E i \in Mine(f, s) : In(f[i].chunk, b)
  <2>1. CASE \E i \in 1 .. Len(p) : In(p[i], b)
    BY <2>1
  <2>2. CASE \E i \in Mine(e, s) : In(e[i].chunk, b)
    <3>1. PICK i \in Mine(e, s) : In(e[i].chunk, b)
      BY <2>2
    <3>2. i - 1 \in Mine(f, s) /\ f[i - 1] = e[i]
      BY <1>2 DEF f
    <3> QED BY <3>1, <3>2
  <2> QED BY <2>1, <2>2 DEF Tiles
<1> QED BY <1>4, <1>5, <1>6 DEF Tiles, f

\* The loop moves the first message of s to the end of pending.
LEMMA TilesDeliver ==
  ASSUME NEW p \in Seq(Chunk), NEW e \in Seq(Message), e # <<>>, NEW s \in Streams,
         NEW from, NEW to, Head(e).stream = s, Head(e).out = "Data",
         Tiles(p, e, s, from, to)
  PROVE  Tiles(Append(p, Head(e).chunk), Tail(e), s, from, to)
<1> DEFINE f == Tail(e)
           c == Head(e).chunk
           q == Append(p, c)
           len == Len(p)
<1>1. 1 \in Mine(e, s) /\ e[1].chunk = c
  BY DEF Mine
<1>2. /\ \A i \in Mine(f, s) : i + 1 \in Mine(e, s) /\ f[i] = e[i + 1]
      /\ \A i \in Mine(e, s) : i # 1 => i - 1 \in Mine(f, s) /\ f[i - 1] = e[i]
  BY MineOfTail
<1>3. \A i \in Mine(f, s) : i \in Nat \ {0}
  BY DEF Mine
<1>4. c \in Chunk
  <2>1. Head(e) \in Message
    OBVIOUS
  <2> QED BY <2>1 DEF Message
<1> HIDE DEF f, c
<1>5. /\ len \in Nat /\ Len(q) = len + 1 /\ q[len + 1] = c
      /\ \A i \in 1 .. len : q[i] = p[i]
  BY <1>4
<1> HIDE DEF q, len
<1>6. \A i \in 1 .. Len(q) :
        \/ i \in 1 .. len /\ q[i] = p[i]
        \/ i = len + 1 /\ q[i] = c
  BY <1>5
<1>7. Within(c, from, to) /\ \A i \in 1 .. len : p[i].hi <= c.lo
  BY <1>1 DEF Tiles, len
<1>8. \A j \in Mine(f, s) : c.hi <= f[j].chunk.lo /\ Within(f[j].chunk, from, to)
  <2> SUFFICES ASSUME NEW j \in Mine(f, s)
               PROVE  c.hi <= f[j].chunk.lo /\ Within(f[j].chunk, from, to)
    OBVIOUS
  <2>1. j + 1 \in Mine(e, s) /\ f[j] = e[j + 1]
    BY <1>2
  <2>2. 1 < j + 1
    BY <1>3
  <2> QED BY <1>1, <2>1, <2>2 DEF Tiles
<1>9. \A i \in 1 .. Len(q) : Within(q[i], from, to)
  BY <1>6, <1>7 DEF Tiles, len
<1>10. \A i, j \in 1 .. Len(q) : i < j => q[i].hi <= q[j].lo
  <2> SUFFICES ASSUME NEW i \in 1 .. Len(q), NEW j \in 1 .. Len(q), i < j
               PROVE  q[i].hi <= q[j].lo
    OBVIOUS
  <2>1. i \in 1 .. len /\ q[i] = p[i]
    BY <1>5
  <2>2. CASE j \in 1 .. len /\ q[j] = p[j]
    BY <2>1, <2>2 DEF Tiles, len
  <2>3. CASE q[j] = c
    BY <1>7, <2>1, <2>3
  <2> QED BY <1>6, <2>2, <2>3
<1>11. \A i, j \in Mine(f, s) : i < j => f[i].chunk.hi <= f[j].chunk.lo
  <2> SUFFICES ASSUME NEW i \in Mine(f, s), NEW j \in Mine(f, s), i < j
               PROVE  f[i].chunk.hi <= f[j].chunk.lo
    OBVIOUS
  <2>1. /\ i + 1 \in Mine(e, s) /\ j + 1 \in Mine(e, s)
        /\ f[i] = e[i + 1] /\ f[j] = e[j + 1]
    BY <1>2
  <2>2. i + 1 < j + 1
    BY <1>3
  <2> QED BY <2>1, <2>2 DEF Tiles
<1>12. \A i \in 1 .. Len(q), j \in Mine(f, s) : q[i].hi <= f[j].chunk.lo
  <2> SUFFICES ASSUME NEW i \in 1 .. Len(q), NEW j \in Mine(f, s)
               PROVE  q[i].hi <= f[j].chunk.lo
    OBVIOUS
  <2>1. CASE i \in 1 .. len /\ q[i] = p[i]
    BY <1>2, <2>1 DEF Tiles, len
  <2>2. CASE q[i] = c
    BY <1>8, <2>2
  <2> QED BY <1>6, <2>1, <2>2
<1>13. ASSUME NEW b \in from .. to - 1
       PROVE  \/ \E i \in 1 .. Len(q) : In(q[i], b)
              \/ \E i \in Mine(f, s) : In(f[i].chunk, b)
  <2>1. CASE \E i \in 1 .. len : In(p[i], b)
    BY <1>5, <2>1
  <2>2. CASE \E i \in Mine(e, s) : In(e[i].chunk, b)
    <3>1. PICK i \in Mine(e, s) : In(e[i].chunk, b)
      BY <2>2
    <3>2. CASE i = 1
      BY <1>1, <1>5, <3>1, <3>2
    <3>3. CASE i # 1
      BY <1>2, <3>1, <3>3
    <3> QED BY <3>2, <3>3
  <2> QED BY <2>1, <2>2 DEF Tiles, len
<1>14. Tiles(q, f, s, from, to)
  BY <1>8, <1>9, <1>10, <1>11, <1>12, <1>13 DEF Tiles
<1> QED BY <1>14 DEF q, f, c

\* send_body starts at the first byte quiche has not had.
LEMMA TilesFront ==
  ASSUME NEW p \in Seq(Chunk), p # <<>>, NEW e \in Seq(Message), NEW s \in Streams,
         NEW from \in Nat, NEW to \in Nat, Tiles(p, e, s, from, to)
  PROVE  Head(p).lo = from /\ from < Head(p).hi /\ Head(p).hi <= to
<1>0. /\ Len(p) \in Nat \ {0} /\ Head(p) = p[1] /\ p[1] \in Chunk
      /\ \A i \in 1 .. Len(p) : p[i] \in Chunk
  OBVIOUS
<1>1. p[1].lo \in Nat /\ p[1].hi \in Nat /\ Within(p[1], from, to)
  BY <1>0 DEF Tiles, Chunk
<1>2. from \in from .. to - 1
  BY <1>1 DEF Within
<1>3. CASE \E i \in 1 .. Len(p) : In(p[i], from)
  <2>1. PICK i \in 1 .. Len(p) : In(p[i], from)
    BY <1>3
  <2>2. CASE i = 1
    BY <1>0, <1>1, <2>1, <2>2 DEF In, Within
  <2>3. CASE i # 1
    <3>1. p[1].hi <= p[i].lo /\ p[i].lo <= from
      BY <1>0, <2>1, <2>3 DEF Tiles, In
    <3>2. p[i].lo \in Nat
      BY <1>0 DEF Chunk
    <3> QED BY <1>1, <3>1, <3>2 DEF Within
  <2> QED BY <2>2, <2>3
<1>4. CASE \E i \in Mine(e, s) : In(e[i].chunk, from)
  <2>1. PICK i \in Mine(e, s) : In(e[i].chunk, from)
    BY <1>4
  <2>2. p[1].hi <= e[i].chunk.lo /\ e[i].chunk.lo <= from
    BY <1>0, <2>1 DEF Tiles, In
  <2>3. e[i].chunk.lo \in Nat
    <3>1. i \in 1 .. Len(e)
      BY DEF Mine
    <3>2. e[i] \in Message
      BY <3>1
    <3> QED BY <3>2 DEF Message, Chunk
  <2> QED BY <1>1, <2>2, <2>3 DEF Within
<1> QED BY <1>0, <1>1, <1>2, <1>3, <1>4 DEF Tiles, Within

\* send_body takes the whole front chunk.
LEMMA TilesSendAll ==
  ASSUME NEW p \in Seq(Chunk), p # <<>>, NEW e \in Seq(Message), NEW s \in Streams,
         NEW from \in Nat, NEW to \in Nat, Tiles(p, e, s, from, to)
  PROVE  Tiles(Tail(p), e, s, Head(p).hi, to)
<1> DEFINE q == Tail(p)
           len == Len(p)
           h == Head(p).hi
<1>0. /\ len \in Nat \ {0} /\ Head(p) = p[1] /\ h = p[1].hi
      /\ Len(q) = len - 1 /\ \A i \in 1 .. len - 1 : q[i] = p[i + 1]
      /\ \A i \in 1 .. len : p[i] \in Chunk
  OBVIOUS
<1>1. \A i \in 1 .. len : p[i].lo \in Nat /\ p[i].hi \in Nat
  BY <1>0 DEF Chunk
<1>2. p[1].lo = from /\ from < h /\ h <= to
  BY <1>0, TilesFront
<1>3. \A i \in Mine(e, s) : e[i].chunk.lo \in Nat /\ e[i].chunk.hi \in Nat
  <2> SUFFICES ASSUME NEW i \in Mine(e, s)
               PROVE  e[i].chunk.lo \in Nat /\ e[i].chunk.hi \in Nat
    OBVIOUS
  <2>1. i \in 1 .. Len(e)
    BY DEF Mine
  <2>2. e[i] \in Message
    BY <2>1
  <2> QED BY <2>2 DEF Message, Chunk
<1> HIDE DEF q, len, h
<1>4. \A i \in 1 .. Len(q) : i + 1 \in 1 .. len /\ q[i] = p[i + 1] /\ 1 < i + 1 /\ i \in Nat
  BY <1>0
<1>5. ASSUME NEW i \in 1 .. Len(q) PROVE Within(q[i], h, to)
  <2>1. h <= p[i + 1].lo /\ Within(p[i + 1], from, to)
    BY <1>0, <1>4 DEF Tiles, len
  <2> QED BY <1>4, <2>1 DEF Within
<1>6. ASSUME NEW i \in Mine(e, s) PROVE Within(e[i].chunk, h, to)
  <2>1. h <= e[i].chunk.lo /\ Within(e[i].chunk, from, to)
    BY <1>0 DEF Tiles, len
  <2> QED BY <2>1 DEF Within
<1>7. ASSUME NEW i \in 1 .. Len(q), NEW j \in 1 .. Len(q), i < j
      PROVE  q[i].hi <= q[j].lo
  <2>1. i + 1 < j + 1
    BY <1>4, <1>7
  <2> QED BY <1>4, <2>1 DEF Tiles, len
<1>8. ASSUME NEW i \in 1 .. Len(q), NEW j \in Mine(e, s)
      PROVE  q[i].hi <= e[j].chunk.lo
  BY <1>4 DEF Tiles, len
<1>9. ASSUME NEW b \in h .. to - 1
      PROVE  \/ \E i \in 1 .. Len(q) : In(q[i], b)
             \/ \E i \in Mine(e, s) : In(e[i].chunk, b)
  <2>1. h \in Nat /\ b \in from .. to - 1
    BY <1>0, <1>1, <1>2
  <2>2. CASE \E i \in 1 .. len : In(p[i], b)
    <3>1. PICK i \in 1 .. len : In(p[i], b)
      BY <2>2
    <3>2. i # 1
      BY <1>0, <2>1, <3>1 DEF In
    <3>3. i - 1 \in 1 .. Len(q) /\ q[i - 1] = p[i]
      BY <1>0, <3>2
    <3> QED BY <3>1, <3>3
  <2>3. CASE \E i \in Mine(e, s) : In(e[i].chunk, b)
    BY <2>3
  <2> QED BY <2>1, <2>2, <2>3 DEF Tiles, len
<1>10. Tiles(q, e, s, h, to)
  BY <1>5, <1>6, <1>7, <1>8, <1>9 DEF Tiles
<1> QED BY <1>10 DEF q, h

\* send_body takes n bytes of the front chunk and leaves the rest of it there.
LEMMA TilesSendSome ==
  ASSUME NEW p \in Seq(Chunk), p # <<>>, NEW e \in Seq(Message), NEW s \in Streams,
         NEW from \in Nat, NEW to \in Nat, Tiles(p, e, s, from, to),
         NEW n \in Nat, from + n < Head(p).hi
  PROVE  Tiles([p EXCEPT ![1].lo = @ + n], e, s, from + n, to)
<1> DEFINE q == [p EXCEPT ![1].lo = @ + n]
           len == Len(p)
<1>0. /\ len \in Nat \ {0} /\ Head(p) = p[1]
      /\ \A i \in 1 .. len : p[i] \in Chunk
  OBVIOUS
<1>1. \A i \in 1 .. len : p[i].lo \in Nat /\ p[i].hi \in Nat
  BY <1>0 DEF Chunk
<1>2. p[1].lo = from /\ from + n < p[1].hi /\ p[1].hi <= to
  BY <1>0, TilesFront
<1>3. \A i \in Mine(e, s) : e[i].chunk.lo \in Nat /\ e[i].chunk.hi \in Nat
  <2> SUFFICES ASSUME NEW i \in Mine(e, s)
               PROVE  e[i].chunk.lo \in Nat /\ e[i].chunk.hi \in Nat
    OBVIOUS
  <2>1. i \in 1 .. Len(e)
    BY DEF Mine
  <2>2. e[i] \in Message
    BY <2>1
  <2> QED BY <2>2 DEF Message, Chunk
<1>4. /\ Len(q) = len
      /\ q[1].lo = from + n /\ q[1].hi = p[1].hi
      /\ \A i \in 1 .. len : i # 1 => q[i] = p[i]
  BY <1>0, <1>2 DEF Chunk
<1> HIDE DEF q, len
<1>5. ASSUME NEW i \in 1 .. Len(q), i # 1
      PROVE  q[i] = p[i] /\ p[1].hi <= p[i].lo /\ Within(p[i], from, to)
  BY <1>0, <1>4, <1>5 DEF Tiles, len
<1>6. ASSUME NEW i \in 1 .. Len(q) PROVE Within(q[i], from + n, to)
  <2>1. CASE i = 1
    BY <1>1, <1>2, <1>4, <2>1 DEF Within
  <2>2. CASE i # 1
    <3>1. q[i] = p[i] /\ p[1].hi <= p[i].lo /\ Within(p[i], from, to)
      BY <1>5, <2>2
    <3>2. p[i].lo \in Nat /\ p[1].hi \in Nat
      BY <1>0, <1>1, <1>4
    <3> QED BY <1>2, <3>1, <3>2 DEF Within
  <2> QED BY <2>1, <2>2
<1>7. ASSUME NEW i \in Mine(e, s) PROVE Within(e[i].chunk, from + n, to)
  <2>1. p[1].hi <= e[i].chunk.lo /\ Within(e[i].chunk, from, to)
    BY <1>0 DEF Tiles, len
  <2> QED BY <1>0, <1>1, <1>2, <1>3, <2>1 DEF Within
<1>8. \A i \in 1 .. Len(q) : q[i].hi = p[i].hi
  BY <1>4, <1>5
<1>9. ASSUME NEW i \in 1 .. Len(q), NEW j \in 1 .. Len(q), i < j
      PROVE  q[i].hi <= q[j].lo
  <2>1. q[j] = p[j]
    BY <1>0, <1>4, <1>5, <1>9
  <2> QED BY <1>4, <1>8, <1>9, <2>1 DEF Tiles, len
<1>10. ASSUME NEW i \in 1 .. Len(q), NEW j \in Mine(e, s)
       PROVE  q[i].hi <= e[j].chunk.lo
  BY <1>4, <1>8 DEF Tiles, len
<1>11. ASSUME NEW b \in from + n .. to - 1
       PROVE  \/ \E i \in 1 .. Len(q) : In(q[i], b)
              \/ \E i \in Mine(e, s) : In(e[i].chunk, b)
  <2>1. b \in from .. to - 1
    OBVIOUS
  <2>2. CASE \E i \in 1 .. len : In(p[i], b)
    <3>1. PICK i \in 1 .. len : In(p[i], b)
      BY <2>2
    <3>2. In(q[i], b)
      <4>1. CASE i = 1
        BY <1>4, <3>1, <4>1 DEF In
      <4>2. CASE i # 1
        BY <1>4, <3>1, <4>2
      <4> QED BY <4>1, <4>2
    <3> QED BY <1>4, <3>2
  <2>3. CASE \E i \in Mine(e, s) : In(e[i].chunk, b)
    BY <2>3
  <2> QED BY <2>1, <2>2, <2>3 DEF Tiles, len
<1>12. Tiles(q, e, s, from + n, to)
  BY <1>6, <1>7, <1>9, <1>10, <1>11 DEF Tiles
<1> QED BY <1>12 DEF q

-----------------------------------------------------------------------------
(* OutboundInOrder, from the tiles.                                        *)

\* A stream without a bridge has sent nothing; one that still can send holds
\* exactly the bytes between quiche and the socket.
OutboundChain(s) ==
  /\ snd[s].intact /\ snd[s].off <= tcp[s].read
  /\ ~st[s].present => st[s].pending = <<>>
  /\ phase = "gone" => ~st[s].present
  /\ bridge[s].pc = "none" =>
       /\ tcp[s].read = 0
       /\ \A i \in 1 .. Len(egress) : egress[i].stream # s
  /\ st[s].present /\ ~snd[s].stopped =>
       Tiles(st[s].pending, egress, s, snd[s].off, tcp[s].read)

OutboundInv == \A s \in Streams : OutboundChain(s)

LEMMA OutboundInit == Init => OutboundInv
<1> SUFFICES ASSUME Init, NEW s \in Streams PROVE OutboundChain(s)
  BY DEF OutboundInv
<1>1. /\ snd[s].intact /\ snd[s].off = 0 /\ tcp[s].read = 0
      /\ ~st[s].present /\ st[s].pending = <<>> /\ Len(egress) = 0
  BY DEF Init, NoState
<1> QED BY <1>1 DEF OutboundChain

\* A step that leaves what s sends where it is.
LEMMA OutboundUnmoved ==
  ASSUME TypeOK, NEW s \in Streams, OutboundChain(s),
         st'[s].pending = st[s].pending, st'[s].present = st[s].present,
         snd'[s].off = snd[s].off, snd'[s].intact = snd[s].intact,
         snd[s].stopped => snd'[s].stopped,
         tcp'[s].read = tcp[s].read, egress' = egress,
         bridge'[s].pc = "none" => bridge[s].pc = "none",
         phase' = "gone" => phase = "gone"
  PROVE  OutboundChain(s)'
BY DEF OutboundChain

\* A stream the loop forgets.
LEMMA OutboundForget ==
  ASSUME TypeOK, NEW s \in Streams, OutboundChain(s), st'[s] = NoState,
         snd'[s].off = snd[s].off, snd'[s].intact = snd[s].intact,
         tcp'[s].read = tcp[s].read, egress' \in {egress, <<>>},
         bridge'[s].pc = "none" => bridge[s].pc = "none"
  PROVE  OutboundChain(s)'
<1>1. ~st'[s].present /\ st'[s].pending = <<>>
  BY DEF NoState
<1>2. (\A i \in 1 .. Len(egress) : egress[i].stream # s)
        => (\A i \in 1 .. Len(egress') : egress'[i].stream # s)
  OBVIOUS
<1> QED BY <1>1, <1>2 DEF OutboundChain

\* A tunnel starts with nothing to send.
LEMMA OutboundStart ==
  ASSUME TypeOK, NEW s \in Streams, OutboundChain(s), bridge[s].pc = "none",
         st'[s] = Tunnel, bridge'[s].pc # "none", phase' # "gone",
         UNCHANGED <<snd, tcp, egress>>
  PROVE  OutboundChain(s)'
<1>1. st'[s].pending = <<>>
  BY DEF Tunnel, NoState
<1>2. snd[s].off = 0 /\ tcp[s].read = 0 /\ snd[s].intact
  BY DEF OutboundChain, TypeOK, SendingHalf
<1>3. Mine(egress, s) = {}
  BY DEF OutboundChain, Mine
<1>4. Tiles(<<>>, egress, s, 0, 0)
  BY <1>3 DEF Tiles
<1> QED BY <1>1, <1>2, <1>4 DEF OutboundChain

\* The loop takes a message off the channel, for a stream it has or not.
LEMMA OutboundSelect ==
  ASSUME TypeOK, OutboundInv, SelectEgress
  PROVE  OutboundInv'
<1> SUFFICES ASSUME NEW s \in Streams PROVE OutboundChain(s)'
  BY DEF OutboundInv
<1> DEFINE m == Head(egress)
<1>0. OutboundChain(s)
  BY DEF OutboundInv
<1>1. egress \in Seq(Message) /\ egress # <<>> /\ m \in Message
  BY DEF TypeOK, SelectEgress
<1>2. /\ egress' = Tail(egress) /\ phase' = "poll" /\ UNCHANGED <<quicVars, taskVars>>
      /\ st' = [st EXCEPT ![m.stream] = IF @.present THEN Queue(@, m) ELSE @]
  BY DEF SelectEgress
<1>3. /\ snd' = snd /\ tcp' = tcp /\ bridge' = bridge
  BY <1>2 DEF quicVars, taskVars
<1>4. m.stream \in Streams /\ m.out \in {"Data", "Fin", "Closed"} /\ m.chunk \in Chunk
  BY <1>1 DEF Message
<1>5. st[s] \in StreamState /\ st[s].pending \in Seq(Chunk)
  BY DEF TypeOK, StreamState
<1> HIDE DEF m
<1>6. /\ m.stream # s => st'[s] = st[s]
      /\ m.stream = s => st'[s] = IF st[s].present THEN Queue(st[s], m) ELSE st[s]
  BY <1>2, <1>4 DEF TypeOK
<1>7. (\A i \in 1 .. Len(egress) : egress[i].stream # s)
        => (\A i \in 1 .. Len(egress') : egress'[i].stream # s)
  BY <1>1, <1>2
<1>8. CASE m.stream # s \/ m.out # "Data"
  <2>1. st'[s].pending = st[s].pending /\ st'[s].present = st[s].present
    BY <1>4, <1>5, <1>6, <1>8 DEF Queue, StreamState
  <2>2. Tiles(st[s].pending, egress, s, snd[s].off, tcp[s].read)
          => Tiles(st[s].pending, Tail(egress), s, snd[s].off, tcp[s].read)
    BY <1>1, <1>5, <1>8, TilesSkip DEF m
  <2> QED BY <1>0, <1>2, <1>3, <1>7, <2>1, <2>2 DEF OutboundChain
<1>9. CASE m.stream = s /\ m.out = "Data" /\ st[s].present
  <2>1. st'[s].pending = Append(st[s].pending, m.chunk) /\ st'[s].present
    BY <1>5, <1>6, <1>9 DEF Queue, StreamState
  <2>2. Tiles(st[s].pending, egress, s, snd[s].off, tcp[s].read)
          => Tiles(Append(st[s].pending, m.chunk), Tail(egress), s, snd[s].off, tcp[s].read)
    BY <1>1, <1>5, <1>9, TilesDeliver DEF m
  <2> QED BY <1>0, <1>2, <1>3, <1>7, <1>9, <2>1, <2>2 DEF OutboundChain
<1>10. CASE m.stream = s /\ ~st[s].present
  BY <1>0, <1>2, <1>3, <1>6, <1>7, <1>10 DEF OutboundChain
<1> QED BY <1>8, <1>9, <1>10

\* The server's loop drops a message when the connection is no more.
LEMMA OutboundDiscard ==
  ASSUME TypeOK, OutboundInv, SelectEgressUnknown
  PROVE  OutboundInv'
<1> SUFFICES ASSUME NEW s \in Streams PROVE OutboundChain(s)'
  BY DEF OutboundInv
<1>1. /\ OutboundChain(s) /\ egress \in Seq(Message) /\ egress # <<>>
      /\ egress' = Tail(egress) /\ phase = "gone"
      /\ UNCHANGED <<phase, st, snd, bridge, tcp>>
  BY DEF OutboundInv, TypeOK, SelectEgressUnknown, loopVars, quicVars, taskVars
<1>2. (\A i \in 1 .. Len(egress) : egress[i].stream # s)
        => (\A i \in 1 .. Len(egress') : egress'[i].stream # s)
  BY <1>1
<1> QED BY <1>1, <1>2 DEF OutboundChain

\* A bridge appends to the channel what its socket gave next.
LEMMA OutboundBridge ==
  ASSUME TypeOK, OutboundInv, NEW t \in Streams, Bridge(t)
  PROVE  OutboundInv'
<1> SUFFICES ASSUME NEW s \in Streams PROVE OutboundChain(s)'
  BY DEF OutboundInv
<1>0. /\ OutboundChain(s) /\ phase' = phase /\ st' = st /\ snd' = snd
      /\ egress \in Seq(Message)
  BY DEF OutboundInv, Bridge, loopVars, quicVars, TypeOK
<1>1. bridge'[s].pc = "none" => bridge[s].pc = "none"
  <2>0. bridge \in [Streams -> BridgeTask]
    BY DEF TypeOK
  <2>1. CASE DialOk(t) \/ SendClosed(t)
    BY <2>0, <2>1 DEF DialOk, SendClosed, BridgeTask
  <2>2. CASE DialFail(t) \/ CopyDone(t) \/ CopyError(t)
    <3>1. PICK failed : bridge' = [bridge EXCEPT ![t].pc = "closing", ![t].failed = failed]
      BY <2>2 DEF DialFail, CopyDone, CopyError, DropStream
    <3>2. bridge[t].pc # "none"
      BY <2>2 DEF DialFail, CopyDone, CopyError, Copying
    <3> QED BY <2>0, <3>1, <3>2 DEF BridgeTask
  <2>3. CASE ShutdownUp(t) \/ ShutdownTcp(t)
    BY <2>0, <2>3 DEF ShutdownUp, ShutdownTcp, BridgeTask
  <2>4. CASE CopyUp(t) \/ PopRx(t) \/ WriteTcp(t)
    BY <2>4 DEF CopyUp, PopRx, WriteTcp
  <2> QED BY <2>1, <2>2, <2>3, <2>4 DEF Bridge
<1>2. st[s].pending \in Seq(Chunk) /\ snd[s].off \in Nat /\ tcp[s].read \in Nat
  BY DEF TypeOK, StreamState, SendingHalf, LocalSocket
<1>3. CASE CopyUp(t)
  <2>1. PICK n \in 1 .. COPY_BUF :
          /\ Send(Msg(t, "Data", tcp[t].read, tcp[t].read + n))
          /\ tcp' = [tcp EXCEPT ![t].read = @ + n]
    BY <1>3 DEF CopyUp
  <2>2. n \in Nat \ {0} /\ bridge[t].pc = "copying" /\ tcp[t].read \in Nat
    BY <1>3, QuicTunnelAssumption DEF CopyUp, CopiesUp, Copying, TypeOK, LocalSocket
  <2> DEFINE m == Msg(t, "Data", tcp[t].read, tcp[t].read + n)
  <2>3. m \in Message /\ m.stream = t /\ egress' = Append(egress, m)
    BY <2>1, <2>2 DEF Msg, Message, Chunk, Send
  <2>4. CASE s = t
    <3>1. tcp'[s].read = tcp[s].read + n
      BY <2>1, <2>4 DEF TypeOK, LocalSocket
    <3>2. Tiles(st[s].pending, egress, s, snd[s].off, tcp[s].read)
            => Tiles(st[s].pending, egress', s, snd[s].off, tcp[s].read + n)
      BY <1>0, <1>2, <2>2, <2>3, <2>4, TilesWrite DEF OutboundChain
    <3> QED BY <1>0, <1>1, <1>2, <2>2, <2>4, <3>1, <3>2 DEF OutboundChain
  <2>5. CASE s # t
    <3>1. tcp'[s].read = tcp[s].read
      BY <2>1, <2>5 DEF TypeOK, LocalSocket
    <3> HIDE DEF m
    <3>2. Tiles(st[s].pending, egress, s, snd[s].off, tcp[s].read)
            => Tiles(st[s].pending, egress', s, snd[s].off, tcp[s].read)
      BY <1>0, <1>2, <2>3, <2>5, TilesOther
    <3>3. (\A i \in 1 .. Len(egress) : egress[i].stream # s)
            => (\A i \in 1 .. Len(egress') : egress'[i].stream # s)
      BY <1>0, <2>3, <2>5
    <3> QED BY <1>0, <1>1, <3>1, <3>2, <3>3 DEF OutboundChain
  <2> QED BY <2>4, <2>5
<1>4. CASE ShutdownUp(t) \/ SendClosed(t)
  <2>1. tcp' = tcp /\ bridge[t].pc # "none"
    BY <1>4 DEF ShutdownUp, SendClosed, CopiesUp, Copying
  <2>2. \/ egress' = egress
        \/ egress' = Append(egress, Msg(t, "Fin", 0, 0))
        \/ egress' = Append(egress, Msg(t, "Closed", 0, 0))
    BY <1>4 DEF ShutdownUp, SendClosed, Send, SendIgnored
  <2>3. CASE egress' = egress
    BY <1>0, <1>1, <2>1, <2>3, OutboundUnmoved
  <2>4. CASE egress' # egress
    <3>1. PICK m \in Message : m.stream = t /\ m.out # "Data" /\ egress' = Append(egress, m)
      BY <2>2, <2>4 DEF Msg, Message, Chunk
    <3>2. Tiles(st[s].pending, egress, s, snd[s].off, tcp[s].read)
            => Tiles(st[s].pending, egress', s, snd[s].off, tcp[s].read)
      BY <1>0, <1>2, <3>1, TilesOther
    <3>3. bridge[s].pc = "none" /\ (\A i \in 1 .. Len(egress) : egress[i].stream # s)
            => (\A i \in 1 .. Len(egress') : egress'[i].stream # s)
      BY <1>0, <2>1, <3>1
    <3> QED BY <1>0, <1>1, <2>1, <3>2, <3>3 DEF OutboundChain
  <2> QED BY <2>3, <2>4
<1>5. CASE ~(CopyUp(t) \/ ShutdownUp(t) \/ SendClosed(t))
  <2>0. tcp \in [Streams -> LocalSocket]
    BY DEF TypeOK
  <2>1. egress' = egress /\ tcp'[s].read = tcp[s].read
    <3>1. CASE DialOk(t) \/ PopRx(t)
      BY <3>1 DEF DialOk, PopRx
    <3>2. CASE DialFail(t) \/ CopyDone(t) \/ CopyError(t)
      BY <3>2 DEF DialFail, CopyDone, CopyError, DropStream
    <3>3. CASE WriteTcp(t)
      BY <2>0, <3>3 DEF WriteTcp, LocalSocket
    <3>4. CASE ShutdownTcp(t)
      BY <2>0, <3>4 DEF ShutdownTcp, LocalSocket
    <3> QED BY <1>5, <3>1, <3>2, <3>3, <3>4 DEF Bridge
  <2> QED BY <1>0, <1>1, <2>1, OutboundUnmoved
<1> QED BY <1>3, <1>4, <1>5

\* poll_h3 starts tunnels and drops refused or reset ones.
LEMMA OutboundPoll ==
  ASSUME TypeOK, ChainInv, OutboundInv, NEW t \in Streams, Poll(t)
  PROVE  OutboundInv'
<1> SUFFICES ASSUME NEW s \in Streams PROVE OutboundChain(s)'
  BY DEF OutboundInv
<1>0. /\ OutboundChain(s) /\ phase' = phase /\ phase = "poll"
      /\ UNCHANGED <<egress, tcp>>
      /\ st \in [Streams -> StreamState] /\ snd \in [Streams -> SendingHalf]
  BY DEF OutboundInv, Poll, TypeOK
<1>1. CASE PollHeadersOk(t) /\ Role = "server"
  <2>1. /\ st' = [st EXCEPT ![t] = Tunnel] /\ snd' = snd
        /\ bridge' = [bridge EXCEPT ![t].pc = "dialing"]
    BY <1>1 DEF PollHeadersOk
  <2>2. CASE s = t
    <3>1. bridge[s].pc = "none"
      BY <1>1, <2>2 DEF PollHeadersOk, ChainInv, InboundChain
    <3>2. st'[s] = Tunnel /\ bridge'[s].pc = "dialing"
      BY <1>0, <2>1, <2>2 DEF TypeOK, BridgeTask
    <3> QED BY <1>0, <2>1, <3>1, <3>2, OutboundStart
  <2>3. CASE s # t
    <3>1. st'[s] = st[s] /\ bridge'[s] = bridge[s]
      BY <1>0, <2>1, <2>3 DEF TypeOK
    <3> QED BY <1>0, <2>1, <3>1, OutboundUnmoved
  <2> QED BY <2>2, <2>3
<1>2. CASE ~(PollHeadersOk(t) /\ Role = "server")
  <2>1. bridge' = bridge
    BY <1>2 DEF Poll, PollHeadersOk, PollHeadersUnanswered, PollRefused,
       PollNotTunnel, PollData, PollFinished, PollReset
  <2>2. /\ snd'[s].off = snd[s].off /\ snd'[s].intact = snd[s].intact
        /\ snd'[s].stopped = snd[s].stopped
    <3>1. CASE PollHeadersUnanswered(t)
      BY <1>0, <3>1 DEF PollHeadersUnanswered, SendingHalf
    <3>2. CASE PollNotTunnel(t)
      <4>1. PICK sent \in BOOLEAN : snd' = [snd EXCEPT ![t].fin = sent]
        BY <3>2 DEF PollNotTunnel
      <4> QED BY <1>0, <4>1 DEF SendingHalf
    <3>3. CASE \/ PollHeadersOk(t) \/ PollRefused(t) \/ PollData(t)
               \/ PollFinished(t) \/ PollReset(t)
      BY <3>3 DEF PollHeadersOk, PollRefused, PollData, PollFinished, PollReset
    <3> QED BY <3>1, <3>2, <3>3 DEF Poll
  <2>3. \/ st'[s] = NoState
        \/ st'[s].pending = st[s].pending /\ st'[s].present = st[s].present
    <3>1. CASE PollRefused(t)
      BY <1>0, <3>1 DEF PollRefused
    <3>2. CASE MarkReadable(t)
      BY <1>0, <3>2 DEF MarkReadable, StreamState
    <3>3. CASE st' = [st EXCEPT ![t] = NoState]
      BY <1>0, <3>3
    <3>4. CASE PollHeadersOk(t) \/ PollHeadersUnanswered(t) \/ PollNotTunnel(t)
      BY <1>2, <3>4 DEF PollHeadersOk, PollHeadersUnanswered, PollNotTunnel
    <3> QED BY <3>1, <3>2, <3>3, <3>4 DEF Poll, PollData, PollFinished, PollReset
  <2>4. CASE st'[s] = NoState
    BY <1>0, <2>1, <2>2, <2>4, OutboundForget
  <2>5. CASE st'[s].pending = st[s].pending /\ st'[s].present = st[s].present
    BY <1>0, <2>1, <2>2, <2>5, OutboundUnmoved
  <2> QED BY <2>3, <2>4, <2>5
<1> QED BY <1>1, <1>2

\* pump_inbound does not touch what the stream sends.
LEMMA OutboundPumpInbound ==
  ASSUME TypeOK, OutboundInv, NEW t \in Streams, PumpInbound(t)
  PROVE  OutboundInv'
<1> SUFFICES ASSUME NEW s \in Streams PROVE OutboundChain(s)'
  BY DEF OutboundInv
<1>0. /\ OutboundChain(s) /\ UNCHANGED <<phase, snd, egress, bridge, tcp>>
      /\ st \in [Streams -> StreamState]
  BY DEF OutboundInv, PumpInbound, taskVars, TypeOK
<1>1. st'[s].pending = st[s].pending /\ st'[s].present = st[s].present
  <2>1. ASSUME NEW sender, StopReading(t, sender)
        PROVE  st'[s].pending = st[s].pending /\ st'[s].present = st[s].present
    BY <1>0, <2>1 DEF StopReading, StreamState
  <2>2. CASE st' = st
    BY <2>2
  <2> QED BY <2>1, <2>2 DEF PumpInbound, PumpInNoSender, PumpInFull, PumpInClosed,
             PumpInRecv, PumpInDone, PumpInError
<1> QED BY <1>0, <1>1, OutboundUnmoved

\* send_body takes the next bytes, all of the front chunk or some of it.
LEMMA OutboundSend ==
  ASSUME TypeOK, NEW s \in Streams, OutboundChain(s), PumpOutSend(s),
         UNCHANGED <<phase, egress, taskVars>>
  PROVE  OutboundChain(s)'
<1> DEFINE p == st[s].pending
           front == Head(p)
           off == snd[s].off
           n == Least(front.hi - front.lo, snd[s].credit - off)
<1>0. /\ st[s] \in StreamState /\ snd[s] \in SendingHalf
      /\ p \in Seq(Chunk) /\ egress \in Seq(Message)
      /\ off \in Nat /\ snd[s].credit \in Nat /\ tcp[s].read \in Nat
      /\ bridge' = bridge /\ tcp' = tcp
  BY DEF TypeOK, StreamState, SendingHalf, LocalSocket, taskVars
<1>1. p # <<>> /\ ~snd[s].stopped /\ st[s].present /\ off < snd[s].credit
  BY DEF PumpOutSend, OutboundChain
<1>2. Tiles(p, egress, s, off, tcp[s].read)
  BY <1>1 DEF OutboundChain
<1>3. front.lo = off /\ off < front.hi /\ front.hi <= tcp[s].read
  BY <1>0, <1>1, <1>2, TilesFront
<1>4. front.hi \in Nat
  <2>1. front \in Chunk
    BY <1>0, <1>1
  <2> QED BY <2>1 DEF Chunk
<1>5. /\ n \in Nat /\ off + n <= front.hi
      /\ n = front.hi - front.lo => off + n = front.hi
      /\ n # front.hi - front.lo => off + n < front.hi
  <2> DEFINE hi == front.hi
             cr == snd[s].credit
  <2>1. n = Least(hi - off, cr - off)
    BY <1>3
  <2>2. hi \in Nat /\ cr \in Nat /\ off \in Nat /\ off < hi /\ off < cr
    BY <1>0, <1>1, <1>3, <1>4
  <2> HIDE DEF n, hi, cr, off
  <2>3. /\ n \in Nat /\ off + n <= hi
        /\ n = hi - off => off + n = hi
        /\ n # hi - off => off + n < hi
    BY <2>1, <2>2 DEF Least
  <2> QED BY <1>3, <2>3 DEF hi
<1>6. /\ snd' = [snd EXCEPT ![s].intact = @ /\ front.lo = off, ![s].off = front.lo + n]
      /\ n = front.hi - front.lo => st' = [st EXCEPT ![s].pending = Tail(@)]
      /\ n # front.hi - front.lo => st' = [st EXCEPT ![s].pending[1].lo = @ + n]
  BY DEF PumpOutSend
<1> HIDE DEF n
<1>7. /\ snd'[s].off = off + n /\ snd'[s].intact /\ ~snd'[s].stopped
  BY <1>0, <1>1, <1>3, <1>6 DEF TypeOK, SendingHalf, OutboundChain
<1>8. CASE n = front.hi - front.lo
  <2>0. st' = [st EXCEPT ![s].pending = Tail(@)]
    BY <1>6, <1>8
  <2>1. st'[s].pending = Tail(p) /\ st'[s].present
    BY <1>0, <1>1, <2>0 DEF TypeOK, StreamState
  <2>2. Tiles(Tail(p), egress, s, front.hi, tcp[s].read)
    BY <1>0, <1>1, <1>2, TilesSendAll
  <2> QED BY <1>0, <1>1, <1>3, <1>5, <1>7, <1>8, <2>1, <2>2 DEF OutboundChain
<1>9. CASE n # front.hi - front.lo
  <2>1. /\ st'[s].pending = [p EXCEPT ![1].lo = @ + n] /\ st'[s].present
    BY <1>0, <1>1, <1>6, <1>9 DEF TypeOK, StreamState
  <2>2. Tiles([p EXCEPT ![1].lo = @ + n], egress, s, off + n, tcp[s].read)
    BY <1>0, <1>1, <1>2, <1>5, <1>9, TilesSendSome
  <2>3. off + n <= tcp[s].read
    BY <1>0, <1>3, <1>4, <1>5
  <2> QED BY <1>0, <1>1, <1>7, <2>1, <2>2, <2>3 DEF OutboundChain
<1> QED BY <1>8, <1>9

LEMMA OutboundPumpOutbound ==
  ASSUME TypeOK, OutboundInv, NEW t \in Streams, PumpOutbound(t)
  PROVE  OutboundInv'
<1> SUFFICES ASSUME NEW s \in Streams PROVE OutboundChain(s)'
  BY DEF OutboundInv
<1>0. /\ OutboundChain(s) /\ UNCHANGED <<phase, egress, taskVars, bridge, tcp>>
      /\ st \in [Streams -> StreamState] /\ snd \in [Streams -> SendingHalf]
  BY DEF OutboundInv, PumpOutbound, taskVars, TypeOK
<1>1. CASE s # t
  <2>1. st'[s] = st[s] /\ snd'[s] = snd[s]
    BY <1>0, <1>1 DEF PumpOutbound, PumpOutSend, PumpOutBlocked, PumpOutError, PumpOutFin
  <2> QED BY <1>0, <2>1, OutboundUnmoved
<1>2. CASE s = t
  <2>1. CASE PumpOutSend(t)
    BY <1>0, <1>2, <2>1, OutboundSend
  <2>2. CASE PumpOutBlocked(t)
    BY <1>0, <2>2, OutboundUnmoved DEF PumpOutBlocked
  <2>3. CASE PumpOutError(t)
    <3>1. /\ snd' = snd /\ snd[s].stopped /\ st'[s].pending = <<>>
          /\ st'[s].present = st[s].present
      BY <1>0, <1>2, <2>3 DEF PumpOutError, StreamState
    <3> QED BY <1>0, <3>1 DEF OutboundChain
  <2>4. CASE PumpOutFin(t)
    <3>1. st'[s].pending = st[s].pending /\ st'[s].present = st[s].present
      BY <1>0, <2>4 DEF PumpOutFin, StreamState
    <3>2. /\ snd'[s].off = snd[s].off /\ snd'[s].intact = snd[s].intact
          /\ snd'[s].stopped = snd[s].stopped
      BY <1>0, <2>4 DEF PumpOutFin, SendingHalf
    <3> QED BY <1>0, <3>1, <3>2, OutboundUnmoved
  <2> QED BY <2>1, <2>2, <2>3, <2>4 DEF PumpOutbound
<1> QED BY <1>1, <1>2

\* The reaper forgets drained streams; a dead connection takes them all, and
\* the client's channel with them.
LEMMA OutboundReap ==
  ASSUME TypeOK, OutboundInv, ReapStreams
  PROVE  OutboundInv'
<1> SUFFICES ASSUME NEW s \in Streams PROVE OutboundChain(s)'
  BY DEF OutboundInv
<1>0. /\ OutboundChain(s) /\ UNCHANGED <<bridge, tcp>>
      /\ snd \in [Streams -> SendingHalf] /\ egress' \in {egress, <<>>}
  BY DEF OutboundInv, ReapStreams, taskVars, TypeOK
<1>1. /\ snd'[s].off = snd[s].off /\ snd'[s].intact = snd[s].intact
      /\ snd'[s].stopped = snd[s].stopped
  BY <1>0 DEF ReapStreams, SendingHalf
<1>2. CASE Reapable(s) \/ conn_closed
  <2>1. st'[s] = NoState
    BY <1>2 DEF ReapStreams
  <2> QED BY <1>0, <1>1, <2>1, OutboundForget
<1>3. CASE ~(Reapable(s) \/ conn_closed)
  <2>1. st'[s] = st[s] /\ egress' = egress /\ phase' = "select"
    BY <1>3 DEF ReapStreams
  <2> QED BY <1>0, <1>1, <2>1, OutboundUnmoved
<1> QED BY <1>2, <1>3

\* Every step keeps the tiles in place.
LEMMA OutboundStep == TypeOK /\ ChainInv /\ OutboundInv /\ [Next]_vars => OutboundInv'
<1> SUFFICES ASSUME TypeOK, ChainInv, OutboundInv, [Next]_vars PROVE OutboundInv'
  OBVIOUS
<1>1. CASE \/ UNCHANGED vars \/ SelectUdp \/ SelectCredit \/ RecvDone \/ PollDone
           \/ PumpInEnd \/ PumpOutEnd \/ ConnCloses
  <2> SUFFICES ASSUME NEW s \in Streams PROVE OutboundChain(s)'
    BY DEF OutboundInv
  <2>1. /\ OutboundChain(s) /\ UNCHANGED <<st, snd, egress, bridge, tcp>>
        /\ phase' = "gone" => phase = "gone"
    BY <1>1 DEF OutboundInv, vars, loopVars, quicVars, taskVars, SelectUdp,
       SelectCredit, RecvDone, PollDone, PumpInEnd, PumpOutEnd, ConnCloses
  <2> QED BY <2>1, OutboundUnmoved
<1>2. CASE UdpError
  <2> SUFFICES ASSUME NEW s \in Streams PROVE OutboundChain(s)'
    BY DEF OutboundInv
  <2>1. /\ OutboundChain(s) /\ UNCHANGED <<snd, bridge, tcp>>
        /\ st'[s] = NoState /\ egress' = <<>>
    BY <1>2 DEF OutboundInv, UdpError, quicVars, taskVars
  <2> QED BY <2>1, OutboundForget
<1>3. ASSUME NEW t \in Streams, OpenStream(t) PROVE OutboundInv'
  <2> SUFFICES ASSUME NEW s \in Streams PROVE OutboundChain(s)'
    BY DEF OutboundInv
  <2>1. /\ OutboundChain(s) /\ UNCHANGED <<phase, snd, egress, tcp>> /\ phase = "select"
        /\ st' = [st EXCEPT ![t] = Tunnel]
        /\ bridge' = [bridge EXCEPT ![t].pc = "copying"] /\ bridge[t].pc = "none"
    BY <1>3 DEF OutboundInv, OpenStream, quicVars
  <2>2. CASE s = t
    <3>1. st'[s] = Tunnel /\ bridge'[s].pc = "copying"
      BY <2>1, <2>2 DEF TypeOK, BridgeTask
    <3> QED BY <2>1, <2>2, <3>1, OutboundStart
  <2>3. CASE s # t
    <3>1. st'[s] = st[s] /\ bridge'[s] = bridge[s]
      BY <2>1, <2>3 DEF TypeOK
    <3> QED BY <2>1, <3>1, OutboundUnmoved
  <2> QED BY <2>2, <2>3
<1>4. ASSUME NEW t \in Streams, Network(t) PROVE OutboundInv'
  <2> SUFFICES ASSUME NEW s \in Streams PROVE OutboundChain(s)'
    BY DEF OutboundInv
  <2>1. /\ OutboundChain(s) /\ UNCHANGED <<phase, st, egress, bridge, tcp>>
        /\ snd \in [Streams -> SendingHalf]
    BY <1>4 DEF OutboundInv, Network, loopVars, taskVars, TypeOK
  <2>2. /\ snd'[s].off = snd[s].off /\ snd'[s].intact = snd[s].intact
        /\ snd[s].stopped => snd'[s].stopped
    <3>1. CASE FrameStop(t)
      BY <2>1, <3>1 DEF FrameStop, SendingHalf
    <3>2. CASE FrameCredit(t)
      BY <2>1, <3>2 DEF FrameCredit, SendingHalf
    <3>3. CASE snd' = snd
      BY <3>3
    <3> QED BY <1>4, <3>1, <3>2, <3>3
            DEF Network, FrameHeaders, FrameData, FrameFin, FrameReset
  <2> QED BY <2>1, <2>2, OutboundUnmoved
<1>5. ASSUME NEW t \in Streams,
             Bridge(t) \/ Poll(t) \/ PumpInbound(t) \/ PumpOutbound(t)
      PROVE  OutboundInv'
  BY <1>5, OutboundBridge, OutboundPoll, OutboundPumpInbound, OutboundPumpOutbound
<1>6. CASE SelectEgress \/ SelectEgressUnknown \/ ReapStreams
  BY <1>6, OutboundSelect, OutboundDiscard, OutboundReap
<1> QED BY <1>1, <1>2, <1>3, <1>4, <1>5, <1>6 DEF Next, Loop, Turn

\* The send path neither loses, repeats nor reorders a byte: however the
\* streams' messages interleave in the shared channel and wherever flow
\* control cuts a send_body, quiche is given a prefix of what the local
\* socket gave.
THEOREM OutboundCorrect == Spec => []OutboundInOrder
<1>1. OutboundInv => OutboundInOrder
  BY DEF OutboundInv, OutboundChain, OutboundInOrder
<1> QED BY <1>1, TypeCorrect, ChainInit, ChainStep, OutboundInit, OutboundStep, PTL DEF Spec

=============================================================================
