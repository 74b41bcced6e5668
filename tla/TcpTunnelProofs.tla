---------------------------- MODULE TcpTunnelProofs ----------------------------
(***************************************************************************)
(* Proofs about TcpTunnel, for any ClientHellos, buffer sizes, amounts of  *)
(* data and failures.                                                      *)
(***************************************************************************)
EXTENDS TcpTunnel, Induction

LEMMA TypeInit == Init => TypeOK
<1> SUFFICES ASSUME Init PROVE TypeOK
  OBVIOUS
<1> USE BridgeAssumption, TunnelAssumption DEF Init, BridgeInit
<1>0. pc = [client |-> "dial", server |-> "listen"]
  OBVIOUS
<1>1. /\ pc \in [End -> Setting \cup {"copy"} \cup Over]
      /\ hello \in Hellos /\ arrived \in Nat /\ last_n \in 0 .. PEEK_CAP /\ late \in BOOLEAN
  <2>1. pc \in [End -> Setting]
    BY <1>0 DEF End, Setting
  <2>2. 0 \in 0 .. PEEK_CAP
    OBVIOUS
  <2> QED BY <2>1, <2>2
<1>2. /\ up \in [End -> {"copy", "eof", "done"}] /\ down \in [End -> {"copy", "eof", "done"}]
      /\ read \in [End -> Nat] /\ wrote \in [End -> Nat]
      /\ read_buf \in [End -> 0 .. COPY_BUF] /\ held \in [End -> 0 .. COPY_BUF]
  OBVIOUS
<1>3. out \in [End -> Seq(1 .. COPY_BUF)] /\ net \in [End -> Seq(Frame)]
  OBVIOUS
<1> QED BY <1>1, <1>2, <1>3 DEF TypeOK

\* A task that returns.
LEMMA TypeDrop ==
  ASSUME TypeOK, NEW e \in End, NEW how \in Over, Drop(e, how)
  PROVE  /\ pc' \in [End -> Setting \cup {"copy"} \cup Over]
         /\ net' \in [End -> Seq(Frame)]
<1>1. Fin \in Frame
  BY BridgeAssumption DEF Fin, Frame
<1>2. Append(net[e], Fin) \in Seq(Frame)
  BY <1>1 DEF TypeOK
<1> QED BY <1>2 DEF Drop, TypeOK

LEMMA TypeSetup ==
  ASSUME TypeOK, Setup
  PROVE  TypeOK'
<1> USE DEF TypeOK, Setting, Over, End
<1>1. CASE Dial \/ ServerDials
  BY <1>1 DEF Dial, ServerDials, setupVars, Goto
<1>2. CASE Arrive
  BY <1>2 DEF Arrive, bridgeVars, Cuts
<1>3. CASE PeekMore \/ Deadline
  <2>1. Peeked \in 0 .. PEEK_CAP
    BY TunnelAssumption DEF Peeked
  <2> QED BY <1>3, <2>1 DEF PeekMore, Deadline, bridgeVars
<1>4. CASE PeekPasses \/ PeekRejects
  BY <1>4, TunnelAssumption DEF PeekPasses, PeekRejects, Goto
<1>5. CASE Accept
  <2>1. /\ proto' \in {"h2", "http/1.1", "noack", "acme-tls/1"}
        /\ cert' \in {"served", "challenge"}
    BY <1>5 DEF Accept, SelectAlpn
  <2> QED BY <1>5, <2>1 DEF Accept
<1>6. CASE HandleRequest
  <2>1. answer' \in {"101", "404"} /\ pc' \in [End -> Setting \cup {"copy"} \cup Over]
    BY <1>6 DEF HandleRequest
  <2> QED BY <1>6, <2>1 DEF HandleRequest
<1>7. CASE HttpEnds
  <2>1. Append(net["server"], Fin) \in Seq(Frame)
    BY BridgeAssumption DEF Fin, Frame
  <2> QED BY <1>7, <2>1 DEF HttpEnds, setupVars
<1>8. CASE AcceptFails \/ ServerDialFails \/ ClientFails \/ ClientIsDropped
  <2>1. PICK e \in End : Drop(e, "failed")
    BY <1>8 DEF AcceptFails, ServerDialFails, ClientFails, ClientIsDropped
  <2>2. pc' \in [End -> Setting \cup {"copy"} \cup Over] /\ net' \in [End -> Seq(Frame)]
    BY <2>1, TypeDrop
  <2>3. /\ fault' \in BOOLEAN
        /\ UNCHANGED <<up, down, read, wrote, out, ws, read_buf, held>>
        /\ UNCHANGED <<hello, arrived, last_n, late, cert, proto, answer>>
    BY <1>8 DEF AcceptFails, ServerDialFails, ClientFails, ClientIsDropped, setupVars
  <2>4. /\ up' \in [End -> {"copy", "eof", "done"}] /\ down' \in [End -> {"copy", "eof", "done"}]
        /\ read' \in [End -> Nat] /\ wrote' \in [End -> Nat]
        /\ out' \in [End -> Seq(1 .. COPY_BUF)]
        /\ ws' \in [End -> {"Active", "ClosedByUs", "ClosedByPeer", "Closed", "CloseAcknowledged"}]
        /\ read_buf' \in [End -> 0 .. COPY_BUF] /\ held' \in [End -> 0 .. COPY_BUF]
    BY <2>3
  <2>5. /\ hello' \in Hellos
        /\ arrived' \in Nat /\ last_n' \in 0 .. PEEK_CAP /\ late' \in BOOLEAN
        /\ cert' \in {"none", "served", "challenge"}
        /\ proto' \in {"none", "h2", "http/1.1", "noack", "acme-tls/1"}
        /\ answer' \in {"none", "101", "404"}
    BY <2>3
  <2> QED BY ONLY <2>2, <2>3, <2>4, <2>5 DEF TypeOK
<1> QED BY <1>1, <1>2, <1>3, <1>4, <1>5, <1>6, <1>7, <1>8 DEF Setup

\* Sequences.
LEMMA HeadInSeq ==
  ASSUME NEW S, NEW q \in Seq(S), q # <<>>
  PROVE  Head(q) \in S
OBVIOUS

LEMMA SeqWider ==
  ASSUME NEW S, NEW T, S \subseteq T, NEW q \in Seq(S)
  PROVE  q \in Seq(T)
<1>1. q \in [1 .. Len(q) -> S] /\ Len(q) \in Nat
  OBVIOUS
<1>2. q \in [1 .. Len(q) -> T]
  BY <1>1
<1> QED BY <1>1, <1>2

LEMMA TypeCopy ==
  ASSUME TypeOK, NEW e \in End, Copy(e), UNCHANGED setupVars
  PROVE  TypeOK'
<1> USE DEF TypeOK, setupVars
<1>0. COPY_BUF \in Nat \ {0} /\ Other(e) \in End
  BY BridgeAssumption DEF End, Other
<1>1. CASE CopyUp(e)
  <2>1. PICK n \in 1 .. COPY_BUF :
          /\ read' = [read EXCEPT ![e] = @ + n]
          /\ IF ws[e] = "Active"
             THEN out' = [out EXCEPT ![e] = Append(@, n)] /\ UNCHANGED <<pc, net>>
             ELSE Drop(e, "failed") /\ UNCHANGED out
    BY <1>1 DEF CopyUp
  <2>2. read' \in [End -> Nat]
    <3>1. read[e] \in Nat
      OBVIOUS
    <3>2. \A j \in Nat : j + n \in Nat
      BY ONLY <1>0, n \in 1 .. COPY_BUF
    <3>3. read[e] + n \in Nat
      BY ONLY <3>1, <3>2
    <3> QED BY <2>1, <3>3
  <2>3. Append(out[e], n) \in Seq(1 .. COPY_BUF)
    OBVIOUS
  <2>4. CASE ws[e] = "Active"
    <3>1. out' \in [End -> Seq(1 .. COPY_BUF)] /\ UNCHANGED <<pc, net>>
      BY <2>1, <2>3, <2>4
    <3>2. UNCHANGED <<up, down, wrote, ws, read_buf, held, fault>>
      BY <1>1 DEF CopyUp
    <3> QED BY <2>2, <3>1, <3>2
  <2>5. CASE ws[e] # "Active"
    <3>1. pc' \in [End -> Setting \cup {"copy"} \cup Over] /\ net' \in [End -> Seq(Frame)]
      BY <2>1, <2>5, TypeDrop DEF Over
    <3> QED BY <1>1, <2>1, <2>2, <2>5, <3>1 DEF CopyUp
  <2> QED BY <2>4, <2>5
<1>2. CASE FlushOut(e)
  <2>1. /\ out[e] \in Seq(1 .. COPY_BUF) /\ out[e] # <<>>
        /\ Head(out[e]) \in Frame /\ Close \in Frame
    <3>1. out[e] \in Seq(1 .. COPY_BUF) /\ out[e] # <<>>
      BY <1>2 DEF FlushOut, FlushFrame
    <3>2. Head(out[e]) \in 1 .. COPY_BUF
      BY <3>1, HeadInSeq
    <3>3. 1 .. COPY_BUF \subseteq Frame /\ Close \in Frame
      BY ONLY <1>0 DEF Frame, Close
    <3> QED BY ONLY <3>1, <3>2, <3>3
  <2>2. /\ Tail(out[e]) \in Seq(1 .. COPY_BUF)
        /\ Append(net[e], Head(out[e])) \in Seq(Frame)
        /\ net[e] \o <<Head(out[e]), Close>> \in Seq(Frame)
    BY <2>1
  <2>3. net' \in [End -> Seq(Frame)] /\ ws' \in [End -> {"Active", "ClosedByUs", "ClosedByPeer", "Closed", "CloseAcknowledged"}]
    BY <1>2, <2>2 DEF FlushOut, FlushFrame
  <2> QED BY <1>2, <2>2, <2>3 DEF FlushOut, FlushFrame
<1>3. CASE ReadEof(e) \/ ShutdownTcp(e)
  BY <1>3 DEF ReadEof, ShutdownTcp
<1>4. CASE ShutdownWs(e)
  <2>1. Append(net[e], Close) \in Seq(Frame)
    BY <1>0 DEF Frame, Close
  <2>2. net' \in [End -> Seq(Frame)] /\ ws' \in [End -> {"Active", "ClosedByUs", "ClosedByPeer", "Closed", "CloseAcknowledged"}]
    BY <1>4, <2>1 DEF ShutdownWs
  <2> QED BY <1>4, <2>2 DEF ShutdownWs
<1>5. CASE PollRead(e)
  <2>1. CASE ReadRest(e)
    <3>1. read_buf[e] \in 0 .. COPY_BUF /\ held[e] \in 0 .. COPY_BUF /\ held[e] < COPY_BUF
      BY <1>5 DEF PollRead
    <3> DEFINE n == IF read_buf[e] < COPY_BUF - held[e] THEN read_buf[e] ELSE COPY_BUF - held[e]
    <3>2. held[e] + n \in 0 .. COPY_BUF /\ read_buf[e] - n \in 0 .. COPY_BUF
      <4>1. \A j, k \in 0 .. COPY_BUF, u \in Nat :
              u <= j /\ u <= COPY_BUF - k => k + u \in 0 .. COPY_BUF /\ j - u \in 0 .. COPY_BUF
        BY ONLY <1>0
      <4>2. n \in Nat /\ n <= read_buf[e] /\ n <= COPY_BUF - held[e]
        BY ONLY <1>0, <3>1
      <4> HIDE DEF n
      <4> QED BY ONLY <3>1, <4>1, <4>2
    <3>3. /\ held' = [held EXCEPT ![e] = @ + n]
          /\ read_buf' = [read_buf EXCEPT ![e] = @ - n]
      BY <2>1 DEF ReadRest
    <3> HIDE DEF n
    <3>4. held' \in [End -> 0 .. COPY_BUF] /\ read_buf' \in [End -> 0 .. COPY_BUF]
      BY <3>2, <3>3
    <3> QED BY <2>1, <3>4 DEF ReadRest
  <2>2. CASE ReadFrame(e)
    <3> DEFINE o == Other(e)
               f == Head(net[o])
    <3>1. f \in Frame /\ Tail(net[o]) \in Seq(Frame)
      BY <1>0, <2>2 DEF ReadFrame
    <3>2. CASE f = Fin
      <4>1. Drop(e, "failed") /\ UNCHANGED <<down, ws, read_buf, up, read, wrote, out, held, fault>>
        BY <2>2, <3>2 DEF ReadFrame, TakeFrame
      <4>2. pc' \in [End -> Setting \cup {"copy"} \cup Over] /\ net' \in [End -> Seq(Frame)]
        BY <4>1, TypeDrop DEF Over
      <4> QED BY <4>1, <4>2
    <3>3. CASE f = Close /\ f # Fin
      <4>1. /\ net' = [net EXCEPT ![o] = Tail(@)]
            /\ down' = [down EXCEPT ![e] = "eof"]
            /\ ws' = [ws EXCEPT ![e] = IF @ = "Active"
                                       THEN "ClosedByPeer" ELSE "CloseAcknowledged"]
            /\ UNCHANGED <<pc, read_buf, up, read, wrote, out, held, fault>>
        BY <2>2, <3>3 DEF ReadFrame, TakeFrame
      <4> QED BY <1>0, <3>1, <4>1
    <3>4. CASE f # Close /\ f # Fin
      <4>1. /\ net' = [net EXCEPT ![o] = Tail(@)]
            /\ read_buf' = [read_buf EXCEPT ![e] = f]
            /\ UNCHANGED <<pc, down, ws, up, read, wrote, out, held, fault>>
        BY <2>2, <3>4 DEF ReadFrame, TakeFrame
      <4>2. f \in 0 .. COPY_BUF
        <5> HIDE DEF f
        <5>1. \A j \in Frame : j # Fin => j \in 0 .. COPY_BUF
          BY ONLY <1>0 DEF Frame, Fin
        <5> QED BY ONLY <3>1, <3>4, <5>1
      <4> QED BY <1>0, <3>1, <4>1, <4>2
    <3> QED BY <3>2, <3>3, <3>4
  <2> QED BY <1>5, <2>1, <2>2 DEF PollRead
<1>6. CASE WriteTcp(e)
  <2>1. PICK n \in 1 .. held[e] :
          /\ held' = [held EXCEPT ![e] = @ - n]
          /\ wrote' = [wrote EXCEPT ![e] = @ + n]
    BY <1>6 DEF WriteTcp
  <2>2. held[e] \in 0 .. COPY_BUF /\ wrote[e] \in Nat
    OBVIOUS
  <2>3. held[e] - n \in 0 .. COPY_BUF /\ wrote[e] + n \in Nat
    <3>1. \A j \in 0 .. COPY_BUF : \A u \in 1 .. j :
            j - u \in 0 .. COPY_BUF /\ (\A k \in Nat : k + u \in Nat)
      BY ONLY <1>0
    <3> QED BY ONLY <2>2, <3>1, n \in 1 .. held[e]
  <2> QED BY <1>6, <2>1, <2>3 DEF WriteTcp
<1>7. CASE CopyDone(e) \/ SendFails(e) \/ CopyError(e)
  <2>1. PICK how \in Over : Drop(e, how)
    BY <1>7 DEF CopyDone, SendFails, CopyError, Over
  <2>2. pc' \in [End -> Setting \cup {"copy"} \cup Over] /\ net' \in [End -> Seq(Frame)]
    BY <2>1, TypeDrop
  <2> QED BY <1>7, <2>2 DEF CopyDone, SendFails, CopyError
<1> QED BY <1>1, <1>2, <1>3, <1>4, <1>5, <1>6, <1>7 DEF Copy

LEMMA TypeStep == TypeOK /\ [Next]_vars => TypeOK'
<1> SUFFICES ASSUME TypeOK, [Next]_vars PROVE TypeOK'
  OBVIOUS
<1>1. CASE UNCHANGED vars
  BY <1>1 DEF vars, bridgeVars, setupVars, TypeOK
<1> QED BY <1>1, TypeSetup, TypeCopy DEF Next

\* Every variable keeps its type: in particular no frame is larger than the
\* buffer it was copied from, and what a frame leaves over never outgrows it.
THEOREM TypeCorrect == Spec => []TypeOK
BY TypeInit, TypeStep, PTL DEF Spec

-----------------------------------------------------------------------------
(* The closing handshake.  An end that has sent its Close frame has nothing *)
(* left to send; the frame stays on its way until the other end has read    *)
(* it; and only the end of a task ends the transport.                       *)

Sent(e) == ws[e] \in {"ClosedByUs", "Closed", "CloseAcknowledged"}
Recvd(e) == ws[e] \in {"ClosedByPeer", "Closed", "CloseAcknowledged"}
HasClose(s) == \E i \in 1 .. Len(s) : s[i] = Close
NoFin(s) == \A i \in 1 .. Len(s) : s[i] # Fin
FinLast(s) == \A i \in 1 .. Len(s) : s[i] = Fin => i = Len(s)

CloseOf(e, o) ==
  /\ Sent(e) => out[e] = <<>>
  /\ down[e] # "copy" <=> Recvd(e)
  /\ ws[e] \in {"ClosedByUs", "CloseAcknowledged"} => up[e] = "done"
  /\ up[e] = "done" => Sent(e)
  /\ Recvd(e) => Sent(o)
  /\ ws[e] \in {"ClosedByPeer", "Closed"} => up[o] = "done"
  /\ Sent(e) /\ ~Recvd(o) => HasClose(net[e])
  /\ HasClose(net[e]) => Sent(e)
  /\ FinLast(net[e])
  /\ pc[e] \notin Over => NoFin(net[e])
  /\ pc[e] = "done" => up[e] = "done" /\ down[e] = "done"
CloseInv == \A e \in End : CloseOf(e, Other(e))

\* The frames behind a new last one.
LEMMA AppendFrame ==
  ASSUME NEW s \in Seq(Frame), NEW f \in Frame
  PROVE  /\ Append(s, f) \in Seq(Frame)
         /\ HasClose(Append(s, f)) <=> HasClose(s) \/ f = Close
         /\ NoFin(s) => FinLast(Append(s, f))
         /\ NoFin(s) /\ f # Fin => NoFin(Append(s, f))
<1> DEFINE t == Append(s, f)
<1>1. /\ t \in Seq(Frame) /\ Len(t) = Len(s) + 1 /\ Len(s) \in Nat
      /\ \A i \in 1 .. Len(s) : t[i] = s[i]
      /\ t[Len(s) + 1] = f
  OBVIOUS
<1>2. \A i \in 1 .. Len(t) : i \in 1 .. Len(s) \/ i = Len(s) + 1
  BY <1>1
<1> HIDE DEF t
<1>3. HasClose(t) <=> HasClose(s) \/ f = Close
  <2>1. ASSUME HasClose(t) PROVE HasClose(s) \/ f = Close
    BY <1>1, <1>2, <2>1 DEF HasClose
  <2>2. ASSUME HasClose(s) \/ f = Close PROVE HasClose(t)
    <3>1. Len(s) + 1 \in 1 .. Len(t) /\ \A i \in 1 .. Len(s) : i \in 1 .. Len(t)
      BY <1>1
    <3> QED BY <1>1, <2>2, <3>1 DEF HasClose
  <2> QED BY <2>1, <2>2
<1>4. NoFin(s) => FinLast(t)
  BY <1>1, <1>2 DEF NoFin, FinLast
<1>5. NoFin(s) /\ f # Fin => NoFin(t)
  BY <1>1, <1>2 DEF NoFin
<1> QED BY <1>1, <1>3, <1>4, <1>5 DEF t

\* The frames behind the first.
LEMMA TailFrame ==
  ASSUME NEW s \in Seq(Frame), s # <<>>
  PROVE  /\ HasClose(Tail(s)) => HasClose(s)
         /\ HasClose(s) /\ Head(s) # Close => HasClose(Tail(s))
         /\ FinLast(s) => FinLast(Tail(s))
         /\ NoFin(s) => NoFin(Tail(s)) /\ Head(s) # Fin
         /\ FinLast(s) /\ Head(s) = Fin => ~HasClose(s)
<1> DEFINE t == Tail(s)
<1>0. Fin # Close
  BY BridgeAssumption DEF Fin, Close
<1>1. /\ Len(s) \in Nat \ {0} /\ Len(t) = Len(s) - 1 /\ Head(s) = s[1]
      /\ \A i \in 1 .. Len(t) : t[i] = s[i + 1]
  OBVIOUS
<1> HIDE DEF t
<1>2. /\ 1 \in 1 .. Len(s)
      /\ \A i \in 1 .. Len(t) : i + 1 \in 1 .. Len(s)
      /\ \A i \in 1 .. Len(s) : i = 1 \/ (i - 1 \in 1 .. Len(t) /\ (i - 1) + 1 = i)
  BY <1>1
<1>3. HasClose(t) => HasClose(s)
  BY <1>1, <1>2 DEF HasClose
<1>4. HasClose(s) /\ Head(s) # Close => HasClose(t)
  <2> SUFFICES ASSUME NEW i \in 1 .. Len(s), s[i] = Close, s[1] # Close PROVE HasClose(t)
    BY <1>1 DEF HasClose
  <2>1. i - 1 \in 1 .. Len(t) /\ t[i - 1] = Close
    BY <1>1, <1>2
  <2> QED BY <2>1 DEF HasClose
<1>5. FinLast(s) => FinLast(t)
  <2> SUFFICES ASSUME FinLast(s), NEW i \in 1 .. Len(t), t[i] = Fin PROVE i = Len(t)
    BY DEF FinLast
  <2>1. i + 1 = Len(s)
    BY <1>1, <1>2 DEF FinLast
  <2> QED BY <1>1, <2>1
<1>6. NoFin(s) => NoFin(t) /\ Head(s) # Fin
  BY <1>1, <1>2 DEF NoFin
<1>7. FinLast(s) /\ Head(s) = Fin => ~HasClose(s)
  <2> SUFFICES ASSUME FinLast(s), s[1] = Fin, NEW i \in 1 .. Len(s) PROVE s[i] # Close
    BY <1>1 DEF HasClose
  <2>1. Len(s) = 1
    BY <1>2 DEF FinLast
  <2> QED BY <1>0, <1>1, <2>1
<1> QED BY <1>3, <1>4, <1>5, <1>6, <1>7 DEF t

LEMMA Ends ==
  ASSUME NEW e \in End
  PROVE  /\ Other(e) \in End /\ Other(Other(e)) = e /\ Other(e) # e
         /\ \A x \in End : x = e \/ x = Other(e)
BY DEF End, Other

\* What of TypeOK the steps of an end change.
LEMMA TypedEnds ==
  ASSUME TypeOK, NEW e \in End
  PROVE  /\ DOMAIN pc = End /\ DOMAIN up = End /\ DOMAIN down = End /\ DOMAIN ws = End
         /\ DOMAIN out = End /\ DOMAIN net = End
         /\ pc = [x \in End |-> pc[x]] /\ net = [x \in End |-> net[x]]
         /\ ws = [x \in End |-> ws[x]] /\ out = [x \in End |-> out[x]]
         /\ up = [x \in End |-> up[x]] /\ down = [x \in End |-> down[x]]
         /\ net[e] \in Seq(Frame) /\ out[e] \in Seq(1 .. COPY_BUF)
         /\ ws[e] \in {"Active", "ClosedByUs", "ClosedByPeer", "Closed", "CloseAcknowledged"}
         /\ up[e] \in {"copy", "eof", "done"} /\ down[e] \in {"copy", "eof", "done"}
         /\ Close \in Frame /\ Fin \in Frame /\ Fin # Close
         /\ \A n \in 1 .. COPY_BUF : n \in Frame /\ n # Close /\ n # Fin
<1>1. COPY_BUF \in Nat \ {0}
  BY BridgeAssumption
<1>2. /\ Close \in Frame /\ Fin \in Frame /\ Fin # Close
      /\ \A n \in 1 .. COPY_BUF : n \in Frame /\ n # Close /\ n # Fin
  BY <1>1 DEF Close, Fin, Frame
<1> QED BY <1>2 DEF TypeOK

LEMMA BothEnds ==
  ASSUME NEW e \in End, CloseOf(e, Other(e))', CloseOf(Other(e), e)'
  PROVE  CloseInv'
<1> SUFFICES ASSUME NEW x \in End PROVE CloseOf(x, Other(x))'
  BY DEF CloseInv
<1>1. CASE x = e
  BY <1>1 DEF CloseOf, Sent, Recvd
<1>2. CASE x = Other(e)
  <2>1. Other(x) = e
    BY <1>2, Ends
  <2> QED BY <1>2, <2>1 DEF CloseOf, Sent, Recvd
<1> QED BY <1>1, <1>2, Ends

\* A task that returns, at an end that had not.
LEMMA CloseDrop ==
  ASSUME TypeOK, CloseInv, NEW e \in End, NEW how \in Over, pc[e] \notin Over,
         how = "done" => up[e] = "done" /\ down[e] = "done",
         Drop(e, how), UNCHANGED <<up, down, out, ws>>
  PROVE  CloseInv'
<1> DEFINE o == Other(e)
<1>0. /\ o \in End /\ Other(o) = e /\ o # e /\ \A x \in End : x = e \/ x = o
      /\ CloseOf(e, o) /\ CloseOf(o, e)
  BY Ends DEF CloseInv
<1> HIDE DEF o
<1>1. /\ pc'[e] = how /\ pc'[o] = pc[o]
      /\ net'[e] = Append(net[e], Fin) /\ net'[o] = net[o]
  BY <1>0, TypedEnds DEF Drop
<1>2. /\ HasClose(net'[e]) <=> HasClose(net[e])
      /\ FinLast(net'[e])
  <2>1. NoFin(net[e])
    BY <1>0 DEF CloseOf
  <2> QED BY <1>1, <2>1, TypedEnds, AppendFrame
<1>3. CloseOf(e, o)'
  BY <1>0, <1>1, <1>2 DEF CloseOf, Sent, Recvd, Over
<1>4. CloseOf(o, e)'
  BY <1>0, <1>1, <1>2 DEF CloseOf, Sent, Recvd, Over
<1> QED BY <1>3, <1>4, BothEnds DEF o

LEMMA CloseCopy ==
  ASSUME TypeOK, CloseInv, NEW e \in End, Copy(e)
  PROVE  CloseInv'
<1> DEFINE o == Other(e)
<1>0. /\ o \in End /\ Other(o) = e /\ o # e /\ \A x \in End : x = e \/ x = o
      /\ CloseOf(e, o) /\ CloseOf(o, e)
  BY Ends DEF CloseInv
<1> HIDE DEF o
<1>a. /\ pc[e] = "copy" /\ pc[e] \notin Over /\ NoFin(net[e])
      /\ {"done", "failed"} = Over
  BY <1>0 DEF Copy, CloseOf, Over
<1>b. ASSUME CloseOf(e, o)', CloseOf(o, e)' PROVE CloseInv'
  BY <1>b, BothEnds DEF o
<1>1. CASE CopyUp(e)
  <2>1. CASE ws[e] = "Active"
    <3>1. /\ UNCHANGED <<pc, up, down, ws, net>> /\ out'[o] = out[o]
      BY <1>0, <1>1, <2>1, TypedEnds DEF CopyUp
    <3>2. CloseOf(e, o)'
      BY <1>0, <2>1, <3>1 DEF CloseOf, Sent, Recvd
    <3>3. CloseOf(o, e)'
      BY <1>0, <2>1, <3>1 DEF CloseOf, Sent, Recvd
    <3> QED BY <1>b, <3>2, <3>3
  <2>2. CASE ws[e] # "Active"
    BY <1>1, <1>a, <2>2, CloseDrop DEF CopyUp
  <2> QED BY <2>1, <2>2
<1>2. CASE FlushOut(e)
  <2>1. /\ UNCHANGED <<pc, up, down>> /\ out'[e] = Tail(out[e]) /\ out'[o] = out[o]
        /\ net'[o] = net[o] /\ ws'[o] = ws[o] /\ out[e] # <<>> /\ up[e] # "done"
    BY <1>0, <1>2, TypedEnds DEF FlushOut, FlushFrame
  <2>2. Head(out[e]) \in Frame /\ Head(out[e]) # Close /\ Head(out[e]) # Fin
    BY <2>1, TypedEnds, HeadInSeq
  <2>3. ws[e] \in {"Active", "ClosedByPeer"} /\ ~HasClose(net[e])
    BY <1>0, <2>1, TypedEnds DEF CloseOf, Sent
  <2>4. CASE Tail(out[e]) = <<>> /\ ws[e] = "ClosedByPeer"
    <3> DEFINE s == Append(net[e], Head(out[e]))
    <3>1. s \in Seq(Frame) /\ NoFin(s)
      BY <1>a, <2>2, TypedEnds, AppendFrame
    <3>2. net'[e] = Append(s, Close) /\ ws'[e] = "Closed"
      BY <1>2, <2>2, <2>4, TypedEnds DEF FlushOut, FlushFrame
    <3>3. HasClose(net'[e]) /\ NoFin(net'[e]) /\ FinLast(net'[e])
      <4> HIDE DEF s
      <4> QED BY <3>1, <3>2, TypedEnds, AppendFrame
    <3>4. CloseOf(e, o)'
      BY <1>0, <2>1, <2>4, <3>2, <3>3, <1>a DEF CloseOf, Sent, Recvd
    <3>5. CloseOf(o, e)'
      BY <1>0, <2>1, <2>4, <3>2, <3>3 DEF CloseOf, Sent, Recvd
    <3> QED BY <1>b, <3>4, <3>5
  <2>5. CASE ~(Tail(out[e]) = <<>> /\ ws[e] = "ClosedByPeer")
    <3>1. net'[e] = Append(net[e], Head(out[e])) /\ ws'[e] = ws[e]
      BY <1>2, <2>5, TypedEnds DEF FlushOut, FlushFrame
    <3>2. ~HasClose(net'[e]) /\ NoFin(net'[e]) /\ FinLast(net'[e])
      BY <1>a, <2>2, <2>3, <3>1, TypedEnds, AppendFrame
    <3>3. CloseOf(e, o)'
      BY <1>0, <2>1, <2>3, <3>1, <3>2, <1>a DEF CloseOf, Sent, Recvd
    <3>4. CloseOf(o, e)'
      BY <1>0, <2>1, <2>3, <3>1, <3>2 DEF CloseOf, Sent, Recvd
    <3> QED BY <1>b, <3>3, <3>4
  <2> QED BY <2>4, <2>5
<1>3. CASE ReadEof(e)
  <2>1. UNCHANGED <<pc, down, ws, out, net>> /\ up'[e] = "eof" /\ up'[o] = up[o] /\ up[e] = "copy"
    BY <1>0, <1>3, TypedEnds DEF ReadEof
  <2>2. CloseOf(e, o)'
    BY <1>0, <2>1 DEF CloseOf, Sent, Recvd
  <2>3. CloseOf(o, e)'
    BY <1>0, <2>1 DEF CloseOf, Sent, Recvd
  <2> QED BY <1>b, <2>2, <2>3
<1>4. CASE ShutdownWs(e)
  <2>1. /\ UNCHANGED <<pc, down, out>> /\ up'[e] = "done" /\ up'[o] = up[o] /\ out[e] = <<>>
        /\ net'[o] = net[o] /\ ws'[o] = ws[o] /\ up[e] = "eof"
    BY <1>0, <1>4, TypedEnds DEF ShutdownWs
  <2>2. CASE ws[e] \in {"Active", "ClosedByPeer"}
    <3>1. /\ net'[e] = Append(net[e], Close)
          /\ ws[e] = "Active" => ws'[e] = "ClosedByUs"
          /\ ws[e] = "ClosedByPeer" => ws'[e] = "Closed"
      BY <1>4, <2>2, TypedEnds DEF ShutdownWs
    <3>2. HasClose(net'[e]) /\ NoFin(net'[e]) /\ FinLast(net'[e])
      BY <1>a, <3>1, TypedEnds, AppendFrame
    <3>3. CloseOf(e, o)'
      BY <1>0, <2>1, <2>2, <3>1, <3>2, <1>a DEF CloseOf, Sent, Recvd
    <3>4. CloseOf(o, e)'
      BY <1>0, <2>1, <2>2, <3>1, <3>2 DEF CloseOf, Sent, Recvd
    <3> QED BY <1>b, <3>3, <3>4
  <2>3. CASE ws[e] \notin {"Active", "ClosedByPeer"}
    <3>1. net'[e] = net[e] /\ ws'[e] = ws[e] /\ Sent(e)
      BY <1>4, <2>3, TypedEnds DEF ShutdownWs, Sent
    <3>2. CloseOf(e, o)'
      BY <1>0, <2>1, <3>1, <1>a DEF CloseOf, Sent, Recvd
    <3>3. CloseOf(o, e)'
      BY <1>0, <2>1, <3>1 DEF CloseOf, Sent, Recvd
    <3> QED BY <1>b, <3>2, <3>3
  <2> QED BY <2>2, <2>3
<1>5. CASE PollRead(e)
  <2>1. CASE ReadRest(e)
    <3>1. UNCHANGED <<pc, up, down, ws, out, net>>
      BY <2>1 DEF ReadRest
    <3> QED BY <1>b, <1>0, <3>1 DEF CloseOf, Sent, Recvd
  <2>2. CASE ReadFrame(e)
    <3>1. /\ TakeFrame(e) /\ net[o] # <<>> /\ UNCHANGED <<up, out>> /\ down[e] = "copy"
          /\ net[o] \in Seq(Frame)
      BY <1>0, <1>5, <2>2, TypedEnds DEF PollRead, ReadFrame, TakeFrame, o
    <3>2. ~Recvd(e)
      BY <1>0, <3>1 DEF CloseOf
    <3>3. CASE Head(net[o]) = Fin
      <4>1. Drop(e, "failed") /\ UNCHANGED <<up, down, out, ws>>
        BY <3>1, <3>3 DEF TakeFrame, o
      <4> QED BY <1>a, <4>1, CloseDrop
    <3>4. CASE Head(net[o]) # Fin
      <4>1. /\ net'[o] = Tail(net[o]) /\ net'[e] = net[e] /\ UNCHANGED pc
            /\ down'[o] = down[o] /\ ws'[o] = ws[o]
        <5>1. net' = [net EXCEPT ![o] = Tail(@)] /\ UNCHANGED pc
          BY ONLY <3>1, <3>4 DEF TakeFrame, o
        <5>2. /\ \/ down' = [down EXCEPT ![e] = "eof"]
                 \/ down' = down
              /\ \/ ws' = [ws EXCEPT ![e] = IF @ = "Active"
                                            THEN "ClosedByPeer" ELSE "CloseAcknowledged"]
                 \/ ws' = ws
          BY ONLY <3>1, <3>4 DEF TakeFrame, o
        <5>3. e # o /\ e \in End /\ o \in End /\ DOMAIN net = End
          BY <1>0, TypedEnds
        <5>d. o \in DOMAIN down /\ o \in DOMAIN ws
          BY <1>0, TypedEnds
        <5> HIDE DEF o
        <5>4. net'[o] = Tail(net[o]) /\ net'[e] = net[e]
          BY ONLY <5>1, <5>3
        <5>5. down'[o] = down[o]
          BY ONLY <5>2, <5>3, <5>d
        <5>6. ws'[o] = ws[o]
          BY ONLY <5>2, <5>3, <5>d
        <5> QED BY ONLY <5>1, <5>4, <5>5, <5>6
      <4>2. FinLast(net'[o]) /\ (pc'[o] \notin Over => NoFin(net'[o]))
        BY <1>0, <3>1, <4>1, TailFrame DEF CloseOf
      <4>3. CASE Head(net[o]) = Close
        <5>1. /\ down'[e] = "eof"
              /\ ws[e] = "Active" => ws'[e] = "ClosedByPeer"
              /\ ws[e] # "Active" => ws'[e] = "CloseAcknowledged"
          BY <1>0, <3>1, <3>4, <4>3, TypedEnds DEF TakeFrame, o
        <5>2. HasClose(net[o]) /\ Sent(o)
          <6>1. 1 \in 1 .. Len(net[o]) /\ net[o][1] = Close
            BY <3>1, <4>3
          <6> QED BY <1>0, <6>1 DEF HasClose, CloseOf
        <5>3. ws[e] = "Active" \/ ws[e] = "ClosedByUs"
          BY <3>2, TypedEnds DEF Recvd
        <5>4. ws[e] = "Active" => up[o] = "done"
          <6> SUFFICES ASSUME ws[e] = "Active" PROVE up[o] = "done"
            OBVIOUS
          <6>1. ~Sent(e)
            BY DEF Sent
          <6>2. ~Recvd(o)
            BY <1>0, <6>1 DEF CloseOf
          <6> QED BY <1>0, <5>2, <6>2 DEF CloseOf, Sent, Recvd
        <5>5. HasClose(net'[o]) => HasClose(net[o])
          BY <3>1, <4>1, TailFrame
        <5>6. CloseOf(e, o)'
          BY <1>0, <3>1, <4>1, <5>1, <5>2, <5>3, <5>4 DEF CloseOf, Sent, Recvd, Over
        <5>7. CloseOf(o, e)'
          BY <1>0, <3>1, <4>1, <4>2, <5>1, <5>2, <5>3, <5>5 DEF CloseOf, Sent, Recvd, Over
        <5> QED BY <1>b, <5>6, <5>7
      <4>4. CASE Head(net[o]) # Close
        <5>1. UNCHANGED <<down, ws>>
          BY <3>1, <3>4, <4>4 DEF TakeFrame, o
        <5>2. HasClose(net'[o]) <=> HasClose(net[o])
          BY <3>1, <4>1, <4>4, TailFrame
        <5>3. CloseOf(e, o)'
          BY <1>0, <3>1, <4>1, <5>1 DEF CloseOf, Sent, Recvd
        <5>4. CloseOf(o, e)'
          BY <1>0, <3>1, <4>1, <4>2, <5>1, <5>2 DEF CloseOf, Sent, Recvd
        <5> QED BY <1>b, <5>3, <5>4
      <4> QED BY <4>3, <4>4
    <3> QED BY <3>3, <3>4
  <2> QED BY <1>5, <2>1, <2>2 DEF PollRead
<1>6. CASE WriteTcp(e)
  <2>1. UNCHANGED <<pc, up, down, ws, out, net>>
    BY <1>6 DEF WriteTcp
  <2> QED BY <1>b, <1>0, <2>1 DEF CloseOf, Sent, Recvd
<1>7. CASE ShutdownTcp(e)
  <2>1. /\ UNCHANGED <<pc, up, ws, out, net>> /\ down'[o] = down[o]
        /\ down[e] = "eof" /\ down'[e] = "done"
    BY <1>0, <1>7, TypedEnds DEF ShutdownTcp
  <2>2. CloseOf(e, o)'
    BY <1>0, <2>1 DEF CloseOf, Sent, Recvd
  <2>3. CloseOf(o, e)'
    BY <1>0, <2>1 DEF CloseOf, Sent, Recvd
  <2> QED BY <1>b, <2>2, <2>3
<1>8. CASE CopyDone(e) \/ SendFails(e) \/ CopyError(e)
  BY <1>8, <1>a, CloseDrop DEF CopyDone, SendFails, CopyError
<1> QED BY <1>1, <1>2, <1>3, <1>4, <1>5, <1>6, <1>7, <1>8 DEF Copy

-----------------------------------------------------------------------------
(* The phases.  A tunnel is up only behind a 101, and then the first task to *)
(* fail without a fault is one that could still read its own program, while  *)
(* the other program had ended.                                              *)

PhaseInv ==
  /\ pc["client"] = "dial" => pc["server"] = "listen"
  /\ answer = "101" => /\ pc["client"] \in {"copy"} \cup Over
                       /\ pc["server"] \in {"dial", "copy"} \cup Over
  /\ answer # "101" => pc["client"] # "copy" /\ pc["server"] \notin {"dial", "copy"}

CutInv ==
  answer = "101" /\ ~fault /\ (\E e \in End : pc[e] = "failed") =>
    \E e \in End : pc[e] = "failed" /\ up[e] = "copy" /\ up[Other(e)] = "done"

LEMMA CloseMoves ==
  ASSUME CloseInv, UNCHANGED <<up, down, out, ws, net>>,
         \A x \in End : pc'[x] = pc[x] \/ (pc[x] \notin Over /\ pc'[x] # "done")
  PROVE  CloseInv'
<1> SUFFICES ASSUME NEW x \in End PROVE CloseOf(x, Other(x))'
  BY DEF CloseInv
<1>1. CloseOf(x, Other(x))
  BY DEF CloseInv
<1> QED BY <1>1 DEF CloseOf, Sent, Recvd

LEMMA CloseSetup ==
  ASSUME TypeOK, CloseInv, PhaseInv, Setup
  PROVE  CloseInv'
<1>0. /\ pc = [x \in End |-> pc[x]] /\ DOMAIN pc = End
      /\ "client" \in End /\ "server" \in End /\ "client" # "server"
      /\ \A x \in End : x = "client" \/ x = "server"
      /\ Other("client") = "server" /\ Other("server") = "client"
  BY TypedEnds DEF End, Other
<1>1. CASE Arrive \/ PeekMore \/ Deadline
  BY <1>1, CloseMoves DEF Arrive, PeekMore, Deadline, bridgeVars
<1>2. CASE PeekPasses \/ PeekRejects \/ ServerDials
  <2>1. /\ UNCHANGED <<up, down, out, ws, net>>
        /\ pc["server"] \in {"peek", "dial"} /\ pc'["client"] = pc["client"]
        /\ pc'["server"] \in {"tls", "dropped", "copy"}
    BY <1>0, <1>2 DEF PeekPasses, PeekRejects, ServerDials, Goto
  <2> QED BY <1>0, <2>1, CloseMoves DEF Over
<1>3. CASE Dial \/ Accept \/ HandleRequest
  <2>1. /\ UNCHANGED <<up, down, out, ws, net>>
        /\ \/ UNCHANGED pc
           \/ /\ pc["client"] \in {"dial", "tls", "upgrade"}
              /\ pc["server"] \in {"listen", "tls", "http"}
              /\ pc'["client"] # "done" /\ pc'["server"] # "done"
    BY <1>0, <1>3 DEF Dial, Accept, HandleRequest, PhaseInv
  <2> QED BY <1>0, <2>1, CloseMoves DEF Over
<1>4. CASE AcceptFails \/ ServerDialFails \/ ClientFails \/ ClientIsDropped
  <2>1. PICK e \in End : /\ Drop(e, "failed") /\ pc[e] \notin Over
                         /\ UNCHANGED <<up, down, out, ws>>
    BY <1>0, <1>4 DEF AcceptFails, ServerDialFails, ClientFails, ClientIsDropped,
                      ClientWaits, Over
  <2> QED BY <2>1, CloseDrop DEF Over
<1>5. CASE HttpEnds
  <2>1. /\ UNCHANGED <<up, down, out, ws>> /\ net'["client"] = net["client"]
        /\ net'["server"] = Append(net["server"], Fin) /\ pc["server"] = "http"
        /\ pc'["client"] = "failed" /\ pc'["server"] = "failed"
    BY <1>0, <1>5, TypedEnds DEF HttpEnds
  <2>2. CloseOf("client", "server") /\ CloseOf("server", "client")
    BY <1>0 DEF CloseInv
  <2>3. /\ HasClose(net'["server"]) <=> HasClose(net["server"])
        /\ FinLast(net'["server"])
    <3>1. NoFin(net["server"])
      BY <2>1, <2>2 DEF CloseOf, Over
    <3> QED BY <1>0, <2>1, <3>1, TypedEnds, AppendFrame
  <2>4. CloseOf("client", "server")' /\ CloseOf("server", "client")'
    BY <2>1, <2>2, <2>3 DEF CloseOf, Sent, Recvd, Over
  <2> QED BY <1>0, <2>4, BothEnds
<1> QED BY <1>1, <1>2, <1>3, <1>4, <1>5 DEF Setup

\* The phases and the cause of a cut, step by step.
LEMMA CutSetup ==
  ASSUME TypeOK, PhaseInv, CutInv, Setup
  PROVE  PhaseInv' /\ CutInv'
<1>0. /\ DOMAIN pc = End /\ pc = [x \in End |-> pc[x]] /\ "client" \in End /\ "server" \in End
      /\ \A x \in End : x = "client" \/ x = "server"
  BY TypedEnds DEF End
<1>1. CASE Arrive \/ PeekMore \/ Deadline
  BY <1>1 DEF Arrive, PeekMore, Deadline, bridgeVars, PhaseInv, CutInv
<1>2. CASE Dial \/ PeekPasses \/ PeekRejects \/ Accept
  <2>1. /\ UNCHANGED answer
        /\ \/ pc'["client"] = pc["client"]
           \/ pc["client"] \in {"dial", "tls"} /\ pc'["client"] \in {"tls", "upgrade"}
        /\ \/ pc["server"] \in {"peek", "tls"}
           \/ pc["client"] = "dial" /\ pc'["client"] = "tls"
        /\ pc'["server"] \in {"peek", "tls", "dropped", "http"}
    BY <1>0, <1>2 DEF Dial, PeekPasses, PeekRejects, Accept, Goto, setupVars
  <2>2. answer # "101"
    BY <2>1 DEF PhaseInv, Over
  <2> QED BY <2>1, <2>2 DEF PhaseInv, CutInv
<1>3. CASE HandleRequest
  <2>1. /\ pc["client"] = "upgrade" /\ pc["server"] = "http"
        /\ \/ answer' = "101" /\ pc'["client"] = "copy" /\ pc'["server"] = "dial"
           \/ answer' = "404" /\ UNCHANGED pc
    BY <1>3 DEF HandleRequest
  <2> QED BY <1>0, <2>1 DEF PhaseInv, CutInv, Over
<1>4. CASE ServerDials
  <2>1. /\ UNCHANGED <<up, fault, answer>> /\ pc["server"] = "dial"
        /\ pc'["client"] = pc["client"] /\ pc'["server"] = "copy"
    BY <1>0, <1>4 DEF ServerDials, Goto, setupVars
  <2>2. \A e \in End : pc'[e] = "failed" <=> pc[e] = "failed"
    BY <1>0, <2>1
  <2> QED BY <2>1, <2>2 DEF PhaseInv, CutInv, Over
<1>5. CASE ServerDialFails
  <2>1. /\ fault' = TRUE /\ UNCHANGED answer /\ pc["server"] = "dial"
        /\ pc'["client"] = pc["client"] /\ pc'["server"] = "failed"
    BY <1>0, <1>5 DEF ServerDialFails, Drop, setupVars
  <2> QED BY <2>1 DEF PhaseInv, CutInv, Over
<1>6. CASE AcceptFails \/ HttpEnds
  <2>1. /\ UNCHANGED answer /\ pc["server"] \in {"tls", "http"} /\ pc'["server"] = "failed"
        /\ pc'["client"] \in {pc["client"], "failed"}
    BY <1>0, <1>6 DEF AcceptFails, HttpEnds, Drop, setupVars
  <2> QED BY <2>1 DEF PhaseInv, CutInv, Over
<1>7. CASE ClientFails \/ ClientIsDropped
  <2>1. /\ UNCHANGED answer /\ pc["client"] \in {"dial", "tls", "upgrade"}
        /\ pc'["client"] = "failed" /\ pc'["server"] = pc["server"]
    BY <1>0, <1>7 DEF ClientFails, ClientIsDropped, ClientWaits, Drop, setupVars
  <2> QED BY <2>1 DEF PhaseInv, CutInv, Over
<1> QED BY <1>1, <1>2, <1>3, <1>4, <1>5, <1>6, <1>7 DEF Setup

LEMMA CutCopy ==
  ASSUME TypeOK, CloseInv, PhaseInv, CutInv, NEW e \in End, Copy(e), UNCHANGED setupVars
  PROVE  PhaseInv' /\ CutInv'
<1> DEFINE o == Other(e)
<1>0. /\ o \in End /\ Other(o) = e /\ o # e /\ \A x \in End : x = e \/ x = o
      /\ CloseOf(e, o) /\ CloseOf(o, e) /\ "client" \in End /\ "server" \in End
      /\ pc[e] = "copy" /\ UNCHANGED answer
  BY Ends DEF CloseInv, Copy, setupVars, End
<1> HIDE DEF o
<1>1. \* The end goes on: a failed end is frozen, and so is an end that is done.
  ASSUME pc' = pc, fault' = fault, \A x \in End : x # e => up'[x] = up[x],
         up[e] = "done" => up'[e] = "done"
  PROVE  PhaseInv' /\ CutInv'
  <2>1. PhaseInv'
    BY <1>0, <1>1 DEF PhaseInv
  <2>2. CutInv'
    <3> SUFFICES ASSUME answer = "101", ~fault, \E x \in End : pc[x] = "failed"
                 PROVE  \E x \in End : pc'[x] = "failed" /\ up'[x] = "copy" /\ up'[Other(x)] = "done"
      BY <1>0, <1>1 DEF CutInv
    <3>1. PICK x \in End : pc[x] = "failed" /\ up[x] = "copy" /\ up[Other(x)] = "done"
      BY DEF CutInv
    <3>2. x = o
      BY <1>0, <3>1
    <3>3. up'[o] = "copy" /\ up'[e] = "done" /\ pc'[o] = "failed"
      BY <1>0, <1>1, <3>1, <3>2
    <3> QED BY <1>0, <3>3
  <2> QED BY <2>1, <2>2
<1>2. \* The end goes: with both directions done, or for one of the causes.
  ASSUME NEW how \in Over, Drop(e, how), UNCHANGED up, fault => fault',
         how = "failed" =>
           \/ fault'
           \/ up[e] = "copy" /\ up[o] = "done"
           \/ pc[o] = "failed"
  PROVE  PhaseInv' /\ CutInv'
  <2>1. pc'[e] = how /\ pc'[o] = pc[o]
    BY <1>0, <1>2, TypedEnds DEF Drop
  <2>2. PhaseInv'
    BY <1>0, <1>2, <2>1 DEF PhaseInv, Over
  <2>3. CutInv'
    <3> SUFFICES ASSUME answer = "101", ~fault', \E x \in End : pc'[x] = "failed"
                 PROVE  \E x \in End : pc'[x] = "failed" /\ up'[x] = "copy" /\ up'[Other(x)] = "done"
      BY <1>0 DEF CutInv
    <3>1. CASE pc[o] = "failed"
      <4>1. PICK x \in End : pc[x] = "failed" /\ up[x] = "copy" /\ up[Other(x)] = "done"
        BY <1>0, <1>2, <3>1 DEF CutInv
      <4>2. x = o
        BY <1>0, <4>1
      <4> QED BY <1>0, <1>2, <2>1, <4>1, <4>2
    <3>2. CASE pc[o] # "failed"
      <4>1. pc'[e] = "failed" /\ how = "failed"
        BY <1>0, <2>1, <3>2
      <4> QED BY <1>0, <1>2, <2>1, <3>2, <4>1 DEF o
    <3> QED BY <3>1, <3>2
  <2> QED BY <2>2, <2>3
<1>3. CASE CopyUp(e)
  <2>1. CASE ws[e] = "Active"
    BY <1>1, <1>3, <2>1 DEF CopyUp
  <2>2. CASE ws[e] # "Active"
    <3>1. Drop(e, "failed") /\ UNCHANGED <<up, fault>> /\ up[e] = "copy"
      BY <1>3, <2>2 DEF CopyUp
    <3>2. up[o] = "done"
      BY <1>0, <2>2, <3>1, TypedEnds DEF CloseOf
    <3> QED BY <1>2, <3>1, <3>2 DEF Over
  <2> QED BY <2>1, <2>2
<1>4. CASE FlushOut(e) \/ WriteTcp(e) \/ ShutdownTcp(e)
  BY <1>1, <1>4 DEF FlushOut, FlushFrame, WriteTcp, ShutdownTcp
<1>5. CASE ReadEof(e) \/ ShutdownWs(e)
  <2>1. /\ UNCHANGED <<pc, fault>> /\ \A x \in End : x # e => up'[x] = up[x]
        /\ up[e] # "done"
    BY <1>5, TypedEnds DEF ReadEof, ShutdownWs
  <2> QED BY <1>1, <2>1
<1>6. CASE PollRead(e)
  <2>1. CASE ReadRest(e) \/ (TakeFrame(e) /\ Head(net[o]) # Fin)
    <3>1. UNCHANGED <<pc, fault, up>>
      BY <2>1 DEF ReadRest, TakeFrame, o
    <3> QED BY <1>1, <3>1
  <2>2. CASE ReadFrame(e) /\ Head(net[o]) = Fin
    <3>1. /\ Drop(e, "failed") /\ UNCHANGED <<up, fault>> /\ down[e] = "copy"
          /\ net[o] # <<>> /\ net[o] \in Seq(Frame)
      BY <1>0, <1>6, <2>2, TypedEnds DEF PollRead, ReadFrame, TakeFrame, o
    <3>2. pc[o] \in Over
      <4>1. ~NoFin(net[o])
        BY <2>2, <3>1, TailFrame
      <4> QED BY <1>0, <4>1 DEF CloseOf
    <3>3. ~HasClose(net[o])
      BY <1>0, <2>2, <3>1, TailFrame DEF CloseOf
    <3>4. ~Sent(o)
      BY <1>0, <3>1, <3>3 DEF CloseOf
    <3>5. pc[o] = "failed"
      BY <1>0, <3>2, <3>4 DEF CloseOf, Over
    <3> QED BY <1>2, <3>1, <3>5 DEF Over
  <2> QED BY <1>6, <2>1, <2>2 DEF PollRead, ReadFrame
<1>7. CASE CopyDone(e)
  BY <1>2, <1>7 DEF CopyDone, Over
<1>8. CASE SendFails(e)
  <2>1. /\ Drop(e, "failed") /\ UNCHANGED <<up, fault>> /\ pc[o] \in Over
        /\ out[e] # <<>> \/ (up[e] = "eof" /\ ws[e] \in {"Active", "ClosedByPeer"})
    BY <1>8 DEF SendFails, o
  <2>2. pc[o] = "failed"
    <3>1. CASE pc[o] = "done"
      <4>1. Sent(e)
        BY <1>0, <3>1 DEF CloseOf
      <4> QED BY <1>0, <2>1, <4>1 DEF CloseOf, Sent
    <3> QED BY <2>1, <3>1 DEF Over
  <2> QED BY <1>2, <2>1, <2>2 DEF Over
<1>9. CASE CopyError(e)
  BY <1>2, <1>9 DEF CopyError, Over
<1> QED BY <1>3, <1>4, <1>5, <1>6, <1>7, <1>8, <1>9 DEF Copy

LEMMA CutInit == Init => CloseInv /\ PhaseInv /\ CutInv
<1> SUFFICES ASSUME Init PROVE CloseInv /\ PhaseInv /\ CutInv
  OBVIOUS
<1>0. /\ pc["client"] = "dial" /\ pc["server"] = "listen" /\ answer = "none"
      /\ \A e \in End : pc[e] \notin Over
  BY DEF Init, End, Over
<1>1. ASSUME NEW e \in End PROVE CloseOf(e, Other(e))
  <2>1. /\ up[e] = "copy" /\ down[e] = "copy" /\ out[e] = <<>> /\ ws[e] = "Active"
        /\ net[e] = <<>> /\ pc[e] \notin Over
    BY <1>0 DEF Init, BridgeInit
  <2>2. ~HasClose(net[e]) /\ NoFin(net[e]) /\ FinLast(net[e])
    BY <2>1 DEF HasClose, NoFin, FinLast
  <2> QED BY <2>1, <2>2 DEF CloseOf, Sent, Recvd, Over
<1> QED BY <1>0, <1>1 DEF CloseInv, PhaseInv, CutInv

LEMMA CutStep ==
  TypeOK /\ CloseInv /\ PhaseInv /\ CutInv /\ [Next]_vars => (CloseInv /\ PhaseInv /\ CutInv)'
<1> SUFFICES ASSUME TypeOK, CloseInv, PhaseInv, CutInv, [Next]_vars
             PROVE  (CloseInv /\ PhaseInv /\ CutInv)'
  OBVIOUS
<1>1. CASE Setup
  BY <1>1, CloseSetup, CutSetup
<1>2. ASSUME NEW e \in End, Copy(e), UNCHANGED setupVars
      PROVE  (CloseInv /\ PhaseInv /\ CutInv)'
  BY <1>2, CloseCopy, CutCopy
<1>3. CASE UNCHANGED vars
  <2>1. UNCHANGED <<pc, up, down, out, ws, net, fault, answer>>
    BY <1>3 DEF vars, bridgeVars, setupVars
  <2>2. CloseInv'
    BY <2>1, CloseMoves
  <2> QED BY <2>1, <2>2 DEF PhaseInv, CutInv
<1> QED BY <1>1, <1>2, <1>3 DEF Next

\* Without a fault from outside, a tunnel is cut only when one program has ended
\* its side and the other has not (server.rs:240, client.rs:73).
THEOREM CutCorrect == Spec => []CutOnlyByHalfClose
<1>1. CutInv => CutOnlyByHalfClose
  BY DEF CutInv, CutOnlyByHalfClose
<1> QED BY <1>1, TypeCorrect, CutInit, CutStep, PTL DEF Spec

-----------------------------------------------------------------------------
(* The ledger.  What an end has read from its program is with the other     *)
(* program, in a buffer or on its way, and none of it is behind a Close.    *)

\* The bytes of data in a frame, and in a sequence of them.
Size(f) == IF f \in 1 .. COPY_BUF THEN f ELSE 0
Carried(s) ==
  LET upTo[i \in 0 .. Len(s)] == IF i = 0 THEN 0 ELSE upTo[i - 1] + Size(s[i])
  IN upTo[Len(s)]

LEMMA CarriedIs ==
  ASSUME NEW s \in Seq(Frame)
  PROVE  \E t \in [0 .. Len(s) -> Nat] :
           /\ t[0] = 0 /\ \A i \in 1 .. Len(s) : t[i] = t[i - 1] + Size(s[i])
           /\ Carried(s) = t[Len(s)]
<1> DEFINE n == Len(s)
           Is(t) == t = [i \in 0 .. n |-> IF i = 0 THEN 0 ELSE t[i - 1] + Size(s[i])]
           step == [i \in 1 .. n |-> [x \in Nat |-> x + Size(s[i])]]
<1>0. n \in Nat /\ \A f : Size(f) \in Nat
  BY BridgeAssumption DEF Size
<1>1. PICK t \in [0 .. n -> Nat] : Along(t, n, 0, step)
  <2>1. step \in [1 .. n -> [Nat -> Nat]]
    BY <1>0
  <2>2. 0 \in Nat /\ n \in Nat
    BY <1>0
  <2> HIDE DEF step, n
  <2> QED BY <2>1, <2>2, RecursionAlong
<1> HIDE DEF n
<1>2. \A i \in 1 .. n : t[i] = t[i - 1] + Size(s[i])
  <2> SUFFICES ASSUME NEW i \in 1 .. n PROVE t[i] = t[i - 1] + Size(s[i])
    OBVIOUS
  <2>1. t[i - 1] \in Nat
    BY <1>0
  <2> QED BY <1>1, <2>1 DEF Along
<1>3. Is(t)
  <2>1. ASSUME NEW i \in 0 .. n PROVE t[i] = IF i = 0 THEN 0 ELSE t[i - 1] + Size(s[i])
    BY <1>0, <1>1, <1>2 DEF Along
  <2> QED BY <2>1
<1> DEFINE u == CHOOSE g : Is(g)
<1>4. Is(u)
  <2> HIDE DEF Is
  <2> QED BY <1>3
<1>5. Carried(s) = u[n]
  BY DEF Carried, n
<1> HIDE DEF u
<1>6. u[n] = t[n]
  <2>1. u[0] = t[0]
    BY <1>0, <1>1, <1>4 DEF Along
  <2>2. ASSUME NEW i \in 1 .. n, u[i - 1] = t[i - 1] PROVE u[i] = t[i]
    BY <1>0, <1>2, <1>4, <2>2
  <2>3. SameSteps(u, t, n)
    BY <2>1, <2>2 DEF SameSteps
  <2> QED BY <1>0, <2>3, RecursionUnique
<1> QED BY <1>1, <1>2, <1>5, <1>6 DEF n, Along

\* Whatever adds up the frames one by one ends at the bytes they carry.
LEMMA CarriedBy ==
  ASSUME NEW s \in Seq(Frame), NEW t, t[0] = 0,
         \A i \in 1 .. Len(s) : t[i] = t[i - 1] + Size(s[i])
  PROVE  Carried(s) = t[Len(s)] /\ Carried(s) \in Nat
<1> DEFINE n == Len(s)
<1>1. PICK u \in [0 .. n -> Nat] :
        /\ u[0] = 0 /\ \A i \in 1 .. n : u[i] = u[i - 1] + Size(s[i])
        /\ Carried(s) = u[n]
  BY CarriedIs
<1>2. n \in Nat /\ n \in 0 .. n /\ \A i \in 1 .. n : t[i] = t[i - 1] + Size(s[i])
  OBVIOUS
<1> HIDE DEF n
<1>3. \A k \in 0 .. n : t[k] = u[k]
  <2>1. t[0] = u[0]
    BY <1>1
  <2>2. ASSUME NEW i \in 1 .. n, t[i - 1] = u[i - 1] PROVE t[i] = u[i]
    BY <1>1, <1>2, <2>2
  <2>3. n \in Nat
    BY <1>2
  <2>4. SameSteps(t, u, n)
    BY <2>1, <2>2 DEF SameSteps
  <2> QED BY <2>3, <2>4, RecursionUnique
<1>4. t[n] = u[n] /\ u[n] \in Nat
  BY <1>2, <1>3
<1> QED BY <1>1, <1>4 DEF n

LEMMA CarriedNone ==
  ASSUME NEW s \in Seq(Frame), \A i \in 1 .. Len(s) : Size(s[i]) = 0
  PROVE  Carried(s) = 0
<1> DEFINE t == [i \in 0 .. Len(s) |-> 0]
<1>1. t[0] = 0 /\ \A i \in 1 .. Len(s) : t[i] = t[i - 1] + Size(s[i])
  OBVIOUS
<1>2. t[Len(s)] = 0
  OBVIOUS
<1> HIDE DEF t
<1> QED BY <1>1, <1>2, CarriedBy

LEMMA CarriedAppend ==
  ASSUME NEW s \in Seq(Frame), NEW f \in Frame
  PROVE  Carried(Append(s, f)) = Carried(s) + Size(f) /\ Carried(s) \in Nat
<1> DEFINE r == Append(s, f)
<1>1. /\ r \in Seq(Frame) /\ Len(r) = Len(s) + 1 /\ Len(s) \in Nat
      /\ \A i \in 1 .. Len(s) : r[i] = s[i]
      /\ r[Len(s) + 1] = f
  OBVIOUS
<1>2. PICK t \in [0 .. Len(s) -> Nat] :
        /\ t[0] = 0 /\ \A i \in 1 .. Len(s) : t[i] = t[i - 1] + Size(s[i])
        /\ Carried(s) = t[Len(s)]
  BY CarriedIs
<1> DEFINE u == [i \in 0 .. Len(s) + 1 |-> IF i <= Len(s) THEN t[i] ELSE t[Len(s)] + Size(f)]
<1>3. u[0] = 0 /\ u[Len(s) + 1] = t[Len(s)] + Size(f)
  BY <1>1, <1>2
<1>4. ASSUME NEW i \in 1 .. Len(r) PROVE u[i] = u[i - 1] + Size(r[i])
  <2>1. CASE i <= Len(s)
    <3>1. i \in 1 .. Len(s) /\ u[i] = t[i] /\ u[i - 1] = t[i - 1] /\ r[i] = s[i]
      BY <1>1, <2>1
    <3> QED BY <1>2, <3>1
  <2>2. CASE i = Len(s) + 1
    <3>1. i - 1 = Len(s) /\ u[i - 1] = t[Len(s)] /\ r[i] = f
      BY <1>1, <2>2
    <3> QED BY <1>3, <2>2, <3>1
  <2> QED BY <1>1, <2>1, <2>2
<1>5. t[Len(s)] \in Nat
  BY <1>1
<1> HIDE DEF u, r
<1>6. Carried(r) = u[Len(r)]
  BY <1>1, <1>3, <1>4, CarriedBy
<1> QED BY <1>1, <1>2, <1>3, <1>5, <1>6 DEF r

LEMMA CarriedTail ==
  ASSUME NEW s \in Seq(Frame), s # <<>>
  PROVE  Carried(s) = Size(Head(s)) + Carried(Tail(s)) /\ Carried(Tail(s)) \in Nat
<1> DEFINE r == Tail(s)
<1>1. /\ r \in Seq(Frame) /\ Len(r) + 1 = Len(s) /\ Len(r) \in Nat /\ Head(s) = s[1]
      /\ \A i \in 1 .. Len(r) : r[i] = s[i + 1]
  OBVIOUS
<1>0. \A f : Size(f) \in Nat
  BY BridgeAssumption DEF Size
<1>2. PICK t \in [0 .. Len(r) -> Nat] :
        /\ t[0] = 0 /\ \A i \in 1 .. Len(r) : t[i] = t[i - 1] + Size(r[i])
        /\ Carried(r) = t[Len(r)]
  BY <1>1, CarriedIs
<1> HIDE DEF r
<1> DEFINE u == [i \in 0 .. Len(s) |-> IF i = 0 THEN 0 ELSE Size(s[1]) + t[i - 1]]
<1>3. u[0] = 0 /\ u[Len(s)] = Size(s[1]) + t[Len(r)]
  BY <1>1
<1>4. ASSUME NEW i \in 1 .. Len(s) PROVE u[i] = u[i - 1] + Size(s[i])
  <2>1. CASE i = 1
    BY <1>0, <1>1, <1>2, <2>1
  <2>2. CASE i # 1
    <3>1. i - 1 \in 1 .. Len(r) /\ (i - 1) - 1 \in 0 .. Len(r) /\ (i - 1) + 1 = i /\ i - 1 \in 0 .. Len(r)
      BY <1>1, <2>2
    <3>2. t[i - 1] = t[(i - 1) - 1] + Size(s[i])
      BY <1>1, <1>2, <3>1
    <3>3. u[i] = Size(s[1]) + t[i - 1] /\ u[i - 1] = Size(s[1]) + t[(i - 1) - 1]
      BY <1>1, <3>1
    <3>4. t[(i - 1) - 1] \in Nat /\ t[i - 1] \in Nat
      BY <3>1
    <3> QED BY <1>0, <3>2, <3>3, <3>4
  <2> QED BY <2>1, <2>2
<1>5. t[Len(r)] \in Nat
  BY <1>1
<1> HIDE DEF u
<1>6. Carried(s) = u[Len(s)]
  BY <1>3, <1>4, CarriedBy
<1> QED BY <1>1, <1>2, <1>3, <1>5, <1>6 DEF r

CloseThenFin(s) == \A i, j \in 1 .. Len(s) : i < j /\ s[i] = Close => s[j] = Fin
AllFin(s) == \A i \in 1 .. Len(s) : s[i] = Fin

\* An end that has failed may have lost what it had read; no other has.
Underway(e, o) == wrote[o] + held[o] + read_buf[o] + Carried(net[e]) + Carried(out[e])
LedgerOf(e, o) ==
  /\ Underway(e, o) <= read[e]
  /\ pc[e] # "failed" => Underway(e, o) = read[e]
  /\ CloseThenFin(net[e])
  /\ down[o] # "copy" => read_buf[o] = 0 /\ AllFin(net[e])
  /\ down[o] = "done" => held[o] = 0
Ledger == \A e \in End : LedgerOf(e, Other(e))

\* What is behind a Close frame, with a new last frame and without the first.
LEMMA AppendClose ==
  ASSUME NEW s \in Seq(Frame), NEW f \in Frame
  PROVE  /\ ~HasClose(s) => CloseThenFin(Append(s, f))
         /\ CloseThenFin(s) => CloseThenFin(Append(s, Fin))
         /\ AllFin(s) => AllFin(Append(s, Fin))
<1>1. ASSUME NEW g PROVE
        /\ Len(Append(s, g)) = Len(s) + 1 /\ Len(s) \in Nat
        /\ \A i \in 1 .. Len(s) : Append(s, g)[i] = s[i]
        /\ Append(s, g)[Len(s) + 1] = g
        /\ \A i \in 1 .. Len(Append(s, g)) : i \in 1 .. Len(s) \/ i = Len(s) + 1
  OBVIOUS
<1>2. \A i, j \in 1 .. Len(s) + 1 : i < j => i \in 1 .. Len(s)
  BY <1>1
<1>3. ASSUME NEW g, ~HasClose(s) \/ (CloseThenFin(s) /\ g = Fin) PROVE CloseThenFin(Append(s, g))
  <2> DEFINE t == Append(s, g)
  <2> SUFFICES ASSUME NEW i \in 1 .. Len(t), NEW j \in 1 .. Len(t), i < j, t[i] = Close
               PROVE  t[j] = Fin
    BY DEF CloseThenFin
  <2>1. i \in 1 .. Len(s) /\ s[i] = Close /\ (j \in 1 .. Len(s) \/ j = Len(s) + 1)
    BY <1>1, <1>2
  <2>2. CloseThenFin(s) /\ g = Fin
    BY <1>3, <2>1 DEF HasClose
  <2>3. CASE j \in 1 .. Len(s)
    BY <1>1, <2>1, <2>2, <2>3 DEF CloseThenFin
  <2>4. CASE j = Len(s) + 1
    BY <1>1, <2>2, <2>4
  <2> QED BY <2>1, <2>3, <2>4
<1>4. AllFin(s) => AllFin(Append(s, Fin))
  BY <1>1 DEF AllFin
<1> QED BY <1>3, <1>4

LEMMA TailClose ==
  ASSUME NEW s \in Seq(Frame), s # <<>>
  PROVE  /\ CloseThenFin(s) => CloseThenFin(Tail(s))
         /\ CloseThenFin(s) /\ Head(s) = Close => AllFin(Tail(s))
         /\ AllFin(s) => Head(s) = Fin
<1> DEFINE t == Tail(s)
<1>1. /\ Len(s) \in Nat \ {0} /\ Len(t) = Len(s) - 1 /\ Head(s) = s[1]
      /\ \A i \in 1 .. Len(t) : t[i] = s[i + 1]
  OBVIOUS
<1> HIDE DEF t
<1>2. 1 \in 1 .. Len(s) /\ \A i \in 1 .. Len(t) : i + 1 \in 1 .. Len(s) /\ 1 < i + 1
  BY <1>1
<1>3. CloseThenFin(s) => CloseThenFin(t)
  <2> SUFFICES ASSUME CloseThenFin(s), NEW i \in 1 .. Len(t), NEW j \in 1 .. Len(t), i < j,
                      t[i] = Close
               PROVE  t[j] = Fin
    BY DEF CloseThenFin
  <2>1. i + 1 \in 1 .. Len(s) /\ j + 1 \in 1 .. Len(s) /\ i + 1 < j + 1
    BY <1>2
  <2>2. s[i + 1] = Close /\ t[j] = s[j + 1]
    BY <1>1
  <2> QED BY <2>1, <2>2 DEF CloseThenFin
<1>4. CloseThenFin(s) /\ s[1] = Close => AllFin(t)
  BY <1>1, <1>2 DEF CloseThenFin, AllFin
<1>5. AllFin(s) => s[1] = Fin
  BY <1>2 DEF AllFin
<1> QED BY <1>1, <1>3, <1>4, <1>5 DEF t

\* The sizes of frames, and the sums of both queues of an end.
LEMMA Sizes ==
  ASSUME TypeOK, NEW e \in End
  PROVE  /\ Size(Close) = 0 /\ Size(Fin) = 0 /\ \A n \in 1 .. COPY_BUF : Size(n) = n
         /\ out[e] \in Seq(Frame) /\ net[e] \in Seq(Frame)
         /\ Carried(out[e]) \in Nat /\ Carried(net[e]) \in Nat
         /\ read[e] \in Nat /\ wrote[e] \in Nat /\ held[e] \in Nat /\ read_buf[e] \in Nat
         /\ Carried(Append(net[e], Fin)) = Carried(net[e])
         /\ Carried(Append(net[e], Close)) = Carried(net[e])
         /\ Append(net[e], Fin) \in Seq(Frame)
<1>0. COPY_BUF \in Nat \ {0}
  BY BridgeAssumption
<1>1. Size(Close) = 0 /\ Size(Fin) = 0 /\ \A n \in 1 .. COPY_BUF : Size(n) = n
  BY <1>0 DEF Size, Close, Fin
<1>2. out[e] \in Seq(1 .. COPY_BUF) /\ net[e] \in Seq(Frame) /\ Close \in Frame /\ Fin \in Frame
  BY <1>0 DEF TypeOK, Frame, Close, Fin
<1>3. out[e] \in Seq(Frame)
  <2>1. 1 .. COPY_BUF \subseteq Frame
    BY <1>0 DEF Frame
  <2> QED BY <1>2, <2>1, SeqWider
<1>4. Carried(out[e]) \in Nat
  BY <1>2, <1>3, CarriedAppend
<1>5. /\ Carried(Append(net[e], Fin)) = Carried(net[e]) + 0
      /\ Carried(Append(net[e], Close)) = Carried(net[e]) + 0
      /\ Carried(net[e]) \in Nat
  BY <1>1, <1>2, CarriedAppend
<1>6. /\ read[e] \in Nat /\ wrote[e] \in Nat /\ held[e] \in 0 .. COPY_BUF
      /\ read_buf[e] \in 0 .. COPY_BUF
  BY DEF TypeOK
<1>7. held[e] \in Nat /\ read_buf[e] \in Nat
  BY <1>0, <1>6
<1>8. Append(net[e], Fin) \in Seq(Frame)
  BY <1>2
<1> QED BY <1>1, <1>2, <1>3, <1>4, <1>5, <1>6, <1>7, <1>8

LEMMA UnderwayNat ==
  ASSUME TypeOK, NEW e \in End
  PROVE  Underway(e, Other(e)) \in Nat
<1>1. Other(e) \in End
  BY Ends
<1>2. /\ wrote[Other(e)] \in Nat /\ held[Other(e)] \in Nat /\ read_buf[Other(e)] \in Nat
      /\ Carried(net[e]) \in Nat /\ Carried(out[e]) \in Nat
  BY <1>1, Sizes
<1>3. \A a, b, c, d, f \in Nat : a + b + c + d + f \in Nat
  OBVIOUS
<1> QED BY ONLY <1>2, <1>3 DEF Underway

LEMMA BothLedgers ==
  ASSUME NEW e \in End, LedgerOf(e, Other(e))', LedgerOf(Other(e), e)'
  PROVE  Ledger'
<1> SUFFICES ASSUME NEW x \in End PROVE LedgerOf(x, Other(x))'
  BY DEF Ledger
<1>1. CASE x = e
  BY <1>1 DEF LedgerOf, Underway
<1>2. CASE x = Other(e)
  <2>1. Other(x) = e
    BY <1>2, Ends
  <2> QED BY <1>2, <2>1 DEF LedgerOf, Underway
<1> QED BY <1>1, <1>2, Ends

\* A step that moves no byte.
LEMMA LedgerStays ==
  ASSUME Ledger, UNCHANGED <<down, read, wrote, out, read_buf, held, net>>,
         \A x \in End : pc[x] = "failed" => pc'[x] = "failed"
  PROVE  Ledger'
<1> SUFFICES ASSUME NEW x \in End PROVE LedgerOf(x, Other(x))'
  BY DEF Ledger
<1>1. LedgerOf(x, Other(x))
  BY DEF Ledger
<1>2. UNCHANGED Underway(x, Other(x))
  BY DEF Underway
<1> QED BY <1>1, <1>2 DEF LedgerOf

\* A Fin behind the frames of e, whoever fails by it.
LEMMA LedgerFin ==
  ASSUME TypeOK, Ledger, NEW e \in End,
         net' = [net EXCEPT ![e] = Append(@, Fin)],
         \A x \in End : pc[x] = "failed" => pc'[x] = "failed",
         UNCHANGED <<down, wrote, out, read_buf, held>>,
         \A x \in End : x # e => read'[x] = read[x],
         read'[e] = read[e] \/ (pc'[e] = "failed" /\ read'[e] \in Nat /\ read'[e] >= read[e])
  PROVE  Ledger'
<1> SUFFICES ASSUME NEW x \in End PROVE LedgerOf(x, Other(x))'
  BY DEF Ledger
<1>0. LedgerOf(x, Other(x)) /\ Other(x) \in End
  BY Ends DEF Ledger
<1>1. CASE x # e
  <2>1. UNCHANGED <<net[x], read[x], Underway(x, Other(x))>>
    BY <1>1, TypedEnds DEF Underway
  <2> QED BY <1>0, <2>1 DEF LedgerOf
<1>2. CASE x = e
  <2>1. net'[x] = Append(net[x], Fin) /\ UNCHANGED Underway(x, Other(x))
    <3>1. net'[x] = Append(net[x], Fin)
      BY <1>2, TypedEnds
    <3>2. Carried(net'[x]) = Carried(net[x])
      BY <3>1, Sizes
    <3> QED BY <3>1, <3>2 DEF Underway
  <2>2. /\ CloseThenFin(net[x]) => CloseThenFin(net'[x])
        /\ AllFin(net[x]) => AllFin(net'[x])
    BY <2>1, TypedEnds, AppendClose
  <2>3. Underway(x, Other(x)) \in Nat /\ read[x] \in Nat
    BY <1>0, Sizes, UnderwayNat
  <2>4. Underway(x, Other(x))' <= read'[x]
    BY <1>0, <1>2, <2>1, <2>3 DEF LedgerOf
  <2>5. pc'[x] # "failed" => Underway(x, Other(x))' = read'[x]
    BY <1>0, <1>2, <2>1, <2>3 DEF LedgerOf
  <2> QED BY <1>0, <2>2, <2>4, <2>5 DEF LedgerOf
<1> QED BY <1>1, <1>2

LEMMA LedgerInit == Init => Ledger
<1> SUFFICES ASSUME Init, NEW e \in End PROVE LedgerOf(e, Other(e))
  BY DEF Ledger
<1>1. Carried(<<>>) = 0
  <2>1. <<>> \in Seq(Frame) /\ \A i \in 1 .. Len(<<>>) : Size(<<>>[i]) = 0
    OBVIOUS
  <2> QED BY <2>1, CarriedNone
<1>2. /\ wrote[Other(e)] = 0 /\ held[Other(e)] = 0 /\ read_buf[Other(e)] = 0
      /\ net[e] = <<>> /\ out[e] = <<>> /\ read[e] = 0 /\ down[Other(e)] = "copy"
  BY Ends DEF Init, BridgeInit
<1>3. Underway(e, Other(e)) = 0
  BY <1>1, <1>2 DEF Underway
<1>4. CloseThenFin(<<>>)
  BY DEF CloseThenFin
<1> QED BY <1>2, <1>3, <1>4 DEF LedgerOf

LEMMA LedgerSetup ==
  ASSUME TypeOK, PhaseInv, Ledger, Setup
  PROVE  Ledger'
<1>0. /\ DOMAIN pc = End /\ pc = [x \in End |-> pc[x]] /\ "client" \in End /\ "server" \in End
      /\ \A x \in End : x = "client" \/ x = "server"
  BY TypedEnds DEF End
<1>1. CASE Arrive \/ PeekMore \/ Deadline
  BY <1>1, LedgerStays DEF Arrive, PeekMore, Deadline, bridgeVars
<1>2. CASE Dial \/ PeekPasses \/ PeekRejects \/ Accept \/ HandleRequest \/ ServerDials
  <2>1. UNCHANGED <<down, read, wrote, out, read_buf, held, net>>
    BY <1>2 DEF Dial, PeekPasses, PeekRejects, Accept, HandleRequest, ServerDials
  <2>2. \A x \in End : pc[x] = "failed" => pc'[x] = "failed"
    <3>1. CASE Dial \/ Accept \/ HandleRequest
      <4>1. \/ UNCHANGED pc
            \/ pc["client"] # "failed" /\ pc["server"] \in {"tls", "http"}
            \/ pc["client"] = "dial" /\ pc["server"] = "listen"
        BY <3>1 DEF Dial, Accept, HandleRequest, PhaseInv
      <4> QED BY <1>0, <4>1
    <3>2. CASE PeekPasses \/ PeekRejects \/ ServerDials
      BY <1>0, <3>2 DEF PeekPasses, PeekRejects, ServerDials, Goto
    <3> QED BY <1>2, <3>1, <3>2
  <2> QED BY <2>1, <2>2, LedgerStays
<1>3. CASE HttpEnds \/ AcceptFails \/ ServerDialFails \/ ClientFails \/ ClientIsDropped
  <2>1. PICK e \in End : net' = [net EXCEPT ![e] = Append(@, Fin)]
    BY <1>0, <1>3 DEF HttpEnds, AcceptFails, ServerDialFails, ClientFails, ClientIsDropped, Drop
  <2>2. \A x \in End : pc[x] = "failed" => pc'[x] = "failed"
    BY <1>0, <1>3 DEF HttpEnds, AcceptFails, ServerDialFails, ClientFails, ClientIsDropped, Drop
  <2>3. UNCHANGED <<down, read, wrote, out, read_buf, held>>
    BY <1>3 DEF HttpEnds, AcceptFails, ServerDialFails, ClientFails, ClientIsDropped
  <2> QED BY <2>1, <2>2, <2>3, LedgerFin
<1> QED BY <1>1, <1>2, <1>3 DEF Setup

LEMMA LedgerCopy ==
  ASSUME TypeOK, CloseInv, Ledger, NEW e \in End, Copy(e), UNCHANGED setupVars
  PROVE  Ledger'
<1> DEFINE o == Other(e)
<1>0. /\ o \in End /\ Other(o) = e /\ o # e /\ \A x \in End : x = e \/ x = o
      /\ CloseOf(e, o) /\ CloseOf(o, e) /\ LedgerOf(e, o) /\ LedgerOf(o, e) /\ pc[e] = "copy"
  BY Ends DEF CloseInv, Ledger, Copy
<1>b. LedgerOf(e, o)' /\ LedgerOf(o, e)' => Ledger'
  BY BothLedgers
<1>n. COPY_BUF \in Nat \ {0}
  BY BridgeAssumption
<1> HIDE DEF o
<1>d. ASSUME net' = [net EXCEPT ![e] = Append(@, Fin)], pc' = [pc EXCEPT ![e] = pc'[e]]
      PROVE  \A x \in End : pc[x] = "failed" => pc'[x] = "failed"
  BY <1>0, <1>d, TypedEnds
<1>1. CASE CopyUp(e)
  <2>1. PICK n \in 1 .. COPY_BUF :
          /\ read' = [read EXCEPT ![e] = @ + n]
          /\ IF ws[e] = "Active"
             THEN out' = [out EXCEPT ![e] = Append(@, n)] /\ UNCHANGED <<pc, net>>
             ELSE Drop(e, "failed") /\ UNCHANGED out
    BY <1>1 DEF CopyUp
  <2>2. UNCHANGED <<down, wrote, read_buf, held>>
    BY <1>1 DEF CopyUp
  <2>3. n \in Nat /\ read[e] \in Nat /\ read'[e] = read[e] + n /\ read'[o] = read[o]
    BY <1>0, <1>n, <2>1 DEF TypeOK
  <2>4. CASE ws[e] = "Active"
    <3>1. /\ UNCHANGED <<pc, net>> /\ out'[o] = out[o] /\ out'[e] = Append(out[e], n)
      BY <1>0, <2>1, <2>4, TypedEnds
    <3>2. Carried(out'[e]) = Carried(out[e]) + n
      <4>1. n \in Frame /\ Size(n) = n
        BY TypedEnds, Sizes
      <4> QED BY <3>1, <4>1, Sizes, CarriedAppend
    <3>3. Underway(e, o)' = Underway(e, o) + n /\ Underway(o, e)' = Underway(o, e)
      <4>1. /\ wrote[o] \in Nat /\ held[o] \in Nat /\ read_buf[o] \in Nat
            /\ Carried(net[e]) \in Nat /\ Carried(out[e]) \in Nat
        BY <1>0, Sizes
      <4> QED BY <2>2, <2>3, <3>1, <3>2, <4>1 DEF Underway
    <3>4. Underway(e, o) \in Nat
      BY UnderwayNat DEF o
    <3>5. LedgerOf(e, o)'
      BY <1>0, <2>2, <2>3, <3>1, <3>3, <3>4 DEF LedgerOf
    <3>6. LedgerOf(o, e)'
      BY <1>0, <2>2, <2>3, <3>1, <3>3 DEF LedgerOf
    <3> QED BY <1>b, <3>5, <3>6
  <2>5. CASE ws[e] # "Active"
    <3>1. Drop(e, "failed") /\ UNCHANGED out
      BY <2>1, <2>5
    <3>2. /\ net' = [net EXCEPT ![e] = Append(@, Fin)]
          /\ pc'[e] = "failed" /\ pc' = [pc EXCEPT ![e] = pc'[e]]
      BY <3>1, TypedEnds DEF Drop
    <3>3. \A x \in End : pc[x] = "failed" => pc'[x] = "failed"
      BY <1>d, <3>2
    <3>4. (\A x \in End : x # e => read'[x] = read[x]) /\ read'[e] \in Nat /\ read'[e] >= read[e]
      BY <1>0, <2>3
    <3> QED BY <2>2, <3>1, <3>2, <3>3, <3>4, LedgerFin
  <2> QED BY <2>4, <2>5
<1>2. CASE FlushOut(e)
  <2> DEFINE f == Head(out[e])
  <2>1. /\ out[e] # <<>> /\ out'[e] = Tail(out[e]) /\ out'[o] = out[o] /\ net'[o] = net[o]
        /\ UNCHANGED <<pc, down, read, wrote, read_buf, held>>
    BY <1>0, <1>2, TypedEnds DEF FlushOut, FlushFrame
  <2>2. f \in 1 .. COPY_BUF /\ f \in Frame /\ Size(f) = f
    <3>1. f \in 1 .. COPY_BUF
      BY <2>1, HeadInSeq, TypedEnds
    <3> QED BY <3>1, TypedEnds, Sizes
  <2>3. Carried(out[e]) = f + Carried(out'[e]) /\ Carried(out'[e]) \in Nat
    BY <2>1, <2>2, Sizes, CarriedTail
  <2>4. ~Sent(e) /\ ~HasClose(net[e]) /\ down[o] = "copy"
    <3>1. ~Sent(e)
      BY <1>0, <2>1 DEF CloseOf
    <3> QED BY <1>0, <3>1 DEF CloseOf
  <2>5. /\ Append(net[e], f) \in Seq(Frame) /\ ~HasClose(Append(net[e], f))
        /\ CloseThenFin(Append(net[e], f))
        /\ Carried(Append(net[e], f)) = Carried(net[e]) + f
    <3>1. f # Close
      BY <2>2, TypedEnds
    <3>2. net[e] \in Seq(Frame)
      BY TypedEnds
    <3> QED BY <2>2, <2>4, <3>1, <3>2, AppendFrame, AppendClose, CarriedAppend
  <2>6. net'[e] = Append(net[e], f) \/ net'[e] = Append(Append(net[e], f), Close)
    <3>1. \/ net' = [net EXCEPT ![e] = @ \o <<f, Close>>]
          \/ net' = [net EXCEPT ![e] = Append(@, f)]
      BY <1>2 DEF FlushOut, FlushFrame
    <3>2. net[e] \o <<f, Close>> = Append(Append(net[e], f), Close)
      BY <2>2, TypedEnds
    <3> QED BY <3>1, <3>2, TypedEnds
  <2> HIDE DEF f
  <2>7. CloseThenFin(net'[e]) /\ Carried(net'[e]) = Carried(net[e]) + f
    <3>1. CASE net'[e] = Append(net[e], f)
      BY <2>5, <3>1
    <3>2. CASE net'[e] = Append(Append(net[e], f), Close)
      <4> DEFINE s == Append(net[e], f)
      <4>1. s \in Seq(Frame) /\ ~HasClose(s) /\ Close \in Frame /\ Size(Close) = 0
        BY <2>5, TypedEnds, Sizes
      <4> HIDE DEF s
      <4>2. CloseThenFin(Append(s, Close)) /\ Carried(Append(s, Close)) = Carried(s) + 0
            /\ Carried(s) \in Nat
        BY <4>1, AppendClose, CarriedAppend
      <4>3. CloseThenFin(Append(s, Close)) /\ Carried(Append(s, Close)) = Carried(s)
        BY <4>2
      <4> QED BY <2>5, <3>2, <4>3 DEF s
    <3> QED BY <2>6, <3>1, <3>2
  <2>8. Underway(e, o)' = Underway(e, o) /\ Underway(o, e)' = Underway(o, e)
    <3>1. /\ wrote[o] \in Nat /\ held[o] \in Nat /\ read_buf[o] \in Nat /\ f \in Nat
          /\ Carried(net[e]) \in Nat /\ Carried(out[e]) \in Nat
      BY <1>0, <1>n, <2>2, Sizes
    <3>2. Underway(e, o)' = wrote[o] + held[o] + read_buf[o] + (Carried(net[e]) + f) + Carried(out'[e])
      BY <2>1, <2>7 DEF Underway
    <3>3. Underway(e, o) = wrote[o] + held[o] + read_buf[o] + Carried(net[e]) + (f + Carried(out'[e]))
      BY <2>3 DEF Underway
    <3>4. Underway(o, e)' = Underway(o, e)
      BY <2>1 DEF Underway
    <3> QED BY <2>3, <3>1, <3>2, <3>3, <3>4
  <2>9. LedgerOf(e, o)'
    BY <1>0, <2>1, <2>4, <2>7, <2>8 DEF LedgerOf
  <2>10. LedgerOf(o, e)'
    BY <1>0, <2>1, <2>8 DEF LedgerOf
  <2> QED BY <1>b, <2>9, <2>10
<1>3. CASE ReadEof(e)
  BY <1>3, LedgerStays DEF ReadEof
<1>4. CASE ShutdownWs(e)
  <2>1. /\ UNCHANGED <<pc, down, read, wrote, read_buf, held, out>> /\ net'[o] = net[o]
        /\ \/ net'[e] = net[e]
           \/ net'[e] = Append(net[e], Close) /\ ws[e] \in {"Active", "ClosedByPeer"}
    BY <1>0, <1>4, TypedEnds DEF ShutdownWs
  <2>2. /\ Carried(net'[e]) = Carried(net[e])
        /\ CloseThenFin(net'[e]) /\ (down[o] # "copy" => AllFin(net'[e]))
    <3>1. CASE net'[e] = net[e]
      BY <1>0, <3>1 DEF LedgerOf
    <3>2. CASE net'[e] = Append(net[e], Close) /\ ws[e] \in {"Active", "ClosedByPeer"}
      <4>1. ~Sent(e)
        BY <3>2 DEF Sent
      <4>2. ~HasClose(net[e]) /\ down[o] = "copy"
        BY <1>0, <4>1 DEF CloseOf
      <4>3. net[e] \in Seq(Frame) /\ Close \in Frame
        BY TypedEnds
      <4> QED BY <3>2, <4>2, <4>3, AppendClose, Sizes
    <3> QED BY <2>1, <3>1, <3>2
  <2>3. UNCHANGED <<Underway(e, o), Underway(o, e)>>
    BY <2>1, <2>2 DEF Underway
  <2>4. LedgerOf(e, o)'
    BY <1>0, <2>1, <2>2, <2>3 DEF LedgerOf
  <2>5. LedgerOf(o, e)'
    BY <1>0, <2>1, <2>3 DEF LedgerOf
  <2> QED BY <1>b, <2>4, <2>5
<1>5. CASE PollRead(e)
  <2>0. /\ down[e] = "copy" /\ held[e] \in 0 .. COPY_BUF /\ read_buf[e] \in 0 .. COPY_BUF
        /\ wrote[e] \in Nat /\ Carried(net[o]) \in Nat /\ Carried(out[o]) \in Nat
        /\ held[e] \in Nat /\ read_buf[e] \in Nat
    BY <1>0, <1>5, Sizes DEF PollRead, TypeOK
  <2>1. CASE ReadRest(e)
    <3> DEFINE n == IF read_buf[e] < COPY_BUF - held[e] THEN read_buf[e] ELSE COPY_BUF - held[e]
    <3>1. /\ held'[e] = held[e] + n /\ read_buf'[e] = read_buf[e] - n
          /\ held'[o] = held[o] /\ read_buf'[o] = read_buf[o]
      BY <1>0, <2>1 DEF ReadRest, TypeOK
    <3>2. n \in Nat /\ read_buf[e] - n \in Nat
      BY <1>n, <2>0
    <3> HIDE DEF n
    <3>3. UNCHANGED <<pc, up, down, read, wrote, out, ws, net, fault>>
      BY <2>1 DEF ReadRest
    <3>4. Underway(o, e)' = Underway(o, e) /\ Underway(e, o)' = Underway(e, o)
      <4>1. wrote[e] + (held[e] + n) + (read_buf[e] - n) = wrote[e] + held[e] + read_buf[e]
        BY <2>0, <3>2
      <4> QED BY <3>1, <3>3, <4>1 DEF Underway
    <3>5. LedgerOf(e, o)'
      BY <1>0, <3>1, <3>3, <3>4 DEF LedgerOf
    <3>6. LedgerOf(o, e)'
      BY <1>0, <2>0, <3>3, <3>4 DEF LedgerOf
    <3> QED BY <1>b, <3>5, <3>6
  <2>2. CASE ReadFrame(e)
    <3>1. /\ net[o] \in Seq(Frame) /\ net[o] # <<>> /\ read_buf[e] = 0
          /\ UNCHANGED <<read, wrote, out, held>>
      BY <1>0, <2>2, TypedEnds DEF ReadFrame, TakeFrame, o
    <3>2. CASE Head(net[o]) = Fin
      <4>1. Drop(e, "failed") /\ UNCHANGED <<down, read_buf>>
        BY <2>2, <3>2 DEF ReadFrame, TakeFrame, o
      <4>2. /\ net' = [net EXCEPT ![e] = Append(@, Fin)] /\ pc' = [pc EXCEPT ![e] = pc'[e]]
        BY <4>1, TypedEnds DEF Drop
      <4>3. \A x \in End : pc[x] = "failed" => pc'[x] = "failed"
        BY <1>d, <4>2
      <4> QED BY <3>1, <4>1, <4>2, <4>3, LedgerFin
    <3>3. CASE Head(net[o]) # Fin
      <4>1. /\ net'[o] = Tail(net[o]) /\ net'[e] = net[e] /\ UNCHANGED pc
            /\ down'[o] = down[o] /\ read_buf'[o] = read_buf[o]
        <5>1. net' = [net EXCEPT ![o] = Tail(@)] /\ UNCHANGED pc
          BY ONLY <2>2, <3>3 DEF ReadFrame, TakeFrame, o
        <5>2. /\ \/ down' = [down EXCEPT ![e] = "eof"]
                 \/ down' = down
              /\ \/ read_buf' = [read_buf EXCEPT ![e] = Head(net[o])]
                 \/ read_buf' = read_buf
          BY ONLY <2>2, <3>3 DEF ReadFrame, TakeFrame, o
        <5>3. e # o /\ e \in End /\ o \in End /\ DOMAIN net = End
          BY <1>0, TypedEnds
        <5>d. o \in DOMAIN down /\ o \in DOMAIN read_buf
          BY <1>0, TypedEnds DEF TypeOK
        <5> HIDE DEF o
        <5>4. net'[o] = Tail(net[o]) /\ net'[e] = net[e]
          BY ONLY <5>1, <5>3
        <5>5. down'[o] = down[o]
          BY ONLY <5>2, <5>3, <5>d
        <5>6. read_buf'[o] = read_buf[o]
          BY ONLY <5>2, <5>3, <5>d
        <5> QED BY ONLY <5>1, <5>4, <5>5, <5>6
      <4>2. /\ Carried(net[o]) = Size(Head(net[o])) + Carried(net'[o]) /\ Carried(net'[o]) \in Nat
            /\ CloseThenFin(net'[o]) /\ (Head(net[o]) = Close => AllFin(net'[o]))
        BY <1>0, <3>1, <4>1, CarriedTail, TailClose DEF LedgerOf
      <4>3. Head(net[o]) \in Frame /\ Size(Close) = 0
        BY <3>1, HeadInSeq, Sizes
      <4>4. Underway(e, o)' = Underway(e, o)
        BY <3>1, <4>1 DEF Underway
      <4>5. CASE Head(net[o]) = Close
        <5>1. read_buf' = read_buf /\ down'[e] = "eof"
          BY <1>0, <2>2, <3>3, <4>5, TypedEnds DEF ReadFrame, TakeFrame, o
        <5>2. Carried(net'[o]) = Carried(net[o])
          BY <4>2, <4>3, <4>5
        <5>3. Underway(o, e)' = Underway(o, e)
          BY <3>1, <5>1, <5>2 DEF Underway
        <5>4. LedgerOf(e, o)'
          BY <1>0, <3>1, <4>1, <4>4, <5>1 DEF LedgerOf
        <5>5. LedgerOf(o, e)'
          BY <1>0, <3>1, <4>1, <4>2, <4>5, <5>1, <5>3 DEF LedgerOf
        <5> QED BY <1>b, <5>4, <5>5
      <4>6. CASE Head(net[o]) # Close
        <5>1. read_buf'[e] = Head(net[o]) /\ down' = down
          BY <1>0, <2>2, <3>3, <4>6 DEF ReadFrame, TakeFrame, TypeOK, o
        <5>2. Head(net[o]) \in 1 .. COPY_BUF
          BY <1>n, <3>3, <4>3, <4>6 DEF Frame, Close, Fin
        <5>3. Size(Head(net[o])) = Head(net[o]) /\ Head(net[o]) \in Nat
          BY <1>n, <5>2 DEF Size
        <5>4. Underway(o, e)' = Underway(o, e)
          <6>1. wrote[e] + held[e] + Head(net[o]) + Carried(net'[o])
                = wrote[e] + held[e] + 0 + Carried(net[o])
            BY <2>0, <4>2, <5>3
          <6> QED BY <3>1, <5>1, <6>1 DEF Underway
        <5>5. LedgerOf(e, o)'
          BY <1>0, <3>1, <4>1, <4>4, <5>1 DEF LedgerOf
        <5>6. LedgerOf(o, e)'
          BY <1>0, <2>0, <3>1, <4>1, <4>2, <5>1, <5>4 DEF LedgerOf
        <5> QED BY <1>b, <5>5, <5>6
      <4> QED BY <4>5, <4>6
    <3> QED BY <3>2, <3>3
  <2> QED BY <1>5, <2>1, <2>2 DEF PollRead
<1>6. CASE WriteTcp(e)
  <2>1. PICK n \in 1 .. held[e] :
          /\ held' = [held EXCEPT ![e] = @ - n] /\ wrote' = [wrote EXCEPT ![e] = @ + n]
    BY <1>6 DEF WriteTcp
  <2>2. UNCHANGED <<pc, up, down, read, out, ws, read_buf, net, fault>>
    BY <1>6 DEF WriteTcp
  <2>3. held[e] \in Nat /\ wrote[e] \in Nat /\ n \in Nat /\ n >= 1 /\ n <= held[e]
    BY Sizes
  <2>4. /\ held'[e] = held[e] - n /\ wrote'[e] = wrote[e] + n
        /\ held'[o] = held[o] /\ wrote'[o] = wrote[o]
    BY <1>0, <2>1 DEF TypeOK
  <2>5. Underway(o, e)' = Underway(o, e) /\ Underway(e, o)' = Underway(e, o)
    <3>1. (wrote[e] + n) + (held[e] - n) = wrote[e] + held[e]
      BY <2>3
    <3> QED BY <2>2, <2>4, <3>1 DEF Underway
  <2>6. down[e] # "done"
    BY <1>0, <2>3 DEF LedgerOf
  <2>7. LedgerOf(e, o)'
    BY <1>0, <2>2, <2>4, <2>5 DEF LedgerOf
  <2>8. LedgerOf(o, e)'
    BY <1>0, <2>2, <2>5, <2>6 DEF LedgerOf
  <2> QED BY <1>b, <2>7, <2>8
<1>7. CASE ShutdownTcp(e)
  <2>1. /\ down[e] = "eof" /\ held[e] = 0 /\ down'[e] = "done" /\ down'[o] = down[o]
        /\ UNCHANGED <<pc, up, read, wrote, out, ws, read_buf, held, net, fault>>
    BY <1>0, <1>7, TypedEnds DEF ShutdownTcp
  <2>2. UNCHANGED <<Underway(e, o), Underway(o, e)>>
    BY <2>1 DEF Underway
  <2>3. LedgerOf(e, o)' /\ LedgerOf(o, e)'
    BY <1>0, <2>1, <2>2 DEF LedgerOf
  <2> QED BY <1>b, <2>3
<1>8. CASE CopyDone(e) \/ SendFails(e) \/ CopyError(e)
  <2>1. PICK how \in Over : Drop(e, how)
    BY <1>8 DEF CopyDone, SendFails, CopyError, Over
  <2>2. UNCHANGED <<down, read, wrote, out, read_buf, held>>
    BY <1>8 DEF CopyDone, SendFails, CopyError
  <2>3. /\ net' = [net EXCEPT ![e] = Append(@, Fin)] /\ pc' = [pc EXCEPT ![e] = pc'[e]]
    BY <2>1, TypedEnds DEF Drop
  <2>4. \A x \in End : pc[x] = "failed" => pc'[x] = "failed"
    BY <1>d, <2>3
  <2> QED BY <2>2, <2>3, <2>4, LedgerFin
<1> QED BY <1>0, <1>1, <1>2, <1>3, <1>4, <1>5, <1>6, <1>7, <1>8 DEF Copy

LEMMA LedgerStep ==
  TypeOK /\ CloseInv /\ PhaseInv /\ Ledger /\ [Next]_vars => Ledger'
<1> SUFFICES ASSUME TypeOK, CloseInv, PhaseInv, Ledger, [Next]_vars PROVE Ledger'
  OBVIOUS
<1>1. CASE UNCHANGED vars
  BY <1>1, LedgerStays DEF vars, bridgeVars
<1> QED BY <1>1, LedgerSetup, LedgerCopy DEF Next

-----------------------------------------------------------------------------
(* The tunnel is a pipe in both directions.                                 *)

\* What the pipe from s hides and what the receiver of it has been told.
Hangs(s) == ws[s] \in {"ClosedByPeer", "Closed"}
Broken(s) == "failed" \in {pc["client"], pc["server"]} \/ Hangs(s)
ToldEnd(s) == down[Other(s)] = "done" \/ pc[Other(s)] = "failed"

LEMMA TunnelInit == Init => Tunnel!Init
<1> SUFFICES ASSUME Init PROVE Tunnel!Init
  OBVIOUS
<1>1. pc["client"] = "dial" /\ pc["server"] = "listen"
  BY DEF Init
<1>2. \A e \in End : /\ read[e] = 0 /\ wrote[Other(e)] = 0 /\ (up[e] # "copy") = FALSE
                     /\ (down[Other(e)] = "done" \/ pc[Other(e)] = "failed") = FALSE
                     /\ ("failed" \in {pc["client"], pc["server"]}
                           \/ ws[e] \in {"ClosedByPeer", "Closed"}) = FALSE
  <2> SUFFICES ASSUME NEW e \in End
               PROVE  /\ read[e] = 0 /\ wrote[Other(e)] = 0 /\ up[e] = "copy"
                      /\ down[Other(e)] = "copy" /\ pc[Other(e)] # "failed"
                      /\ ws[e] = "Active"
    BY <1>1
  <2> QED BY <1>1, Ends DEF Init, BridgeInit, End
<1>3. /\ read = [e \in End |-> 0] /\ [e \in End |-> wrote[Other(e)]] = [e \in End |-> 0]
      /\ [e \in End |-> up[e] # "copy"] = [e \in End |-> FALSE]
  BY <1>2 DEF Init, BridgeInit
<1>4. [e \in End |-> down[Other(e)] = "done" \/ pc[Other(e)] = "failed"] = [e \in End |-> FALSE]
  BY <1>2
<1>5. [e \in End |-> \/ "failed" \in {pc["client"], pc["server"]}
                     \/ ws[e] \in {"ClosedByPeer", "Closed"}] = [e \in End |-> FALSE]
  BY <1>2
<1> QED BY <1>3, <1>4, <1>5 DEF Tunnel!Init

\* A failed task stays failed, a half that has seen the peer's Close stays so,
\* and the end is told for a cause: what a step owes the pipe besides its bytes.
Lasts(x) ==
  /\ pc[x] = "failed" => pc'[x] = "failed"
  /\ Hangs(x) => Hangs(x)'
  /\ down[x] = "done" => down'[x] = "done"
  /\ down[x] # "done" /\ down'[x] = "done" =>
       Broken(Other(x))' \/ (up[Other(x)] # "copy" /\ wrote[x] = read[Other(x)])

LEMMA TunnelEnds ==
  ASSUME \A x \in End : Lasts(x)
  PROVE  /\ Tunnel!Breaks /\ Tunnel!Ends
         /\ [e \in End |-> down[Other(e)] = "done" \/ pc[Other(e)] = "failed"]'
              \in [End -> BOOLEAN]
         /\ [e \in End |-> \/ "failed" \in {pc["client"], pc["server"]}
                           \/ ws[e] \in {"ClosedByPeer", "Closed"}]' \in [End -> BOOLEAN]
<1>0. "client" \in End /\ "server" \in End /\ \A x \in End : x = "client" \/ x = "server"
  BY DEF End
<1>1. \A s \in End : Broken(s) => Broken(s)'
  BY <1>0 DEF Broken, Lasts
<1>2. ASSUME NEW s \in End, ToldEnd(s)' # ToldEnd(s)
      PROVE  ToldEnd(s)' /\ (Broken(s)' \/ (up[s] # "copy" /\ wrote[Other(s)] = read[s]))
  <2> DEFINE o == Other(s)
  <2>1. o \in End /\ Other(o) = s
    BY Ends
  <2>2. Lasts(o)
    BY <2>1
  <2>3. ToldEnd(s)'
    BY <1>2, <2>2 DEF ToldEnd, Lasts
  <2>4. CASE pc'[o] = "failed"
    BY <1>0, <2>1, <2>3, <2>4 DEF Broken
  <2>5. CASE down'[o] = "done"
    BY <1>2, <2>1, <2>2, <2>3, <2>5 DEF ToldEnd, Lasts
  <2> QED BY <2>3, <2>4, <2>5 DEF ToldEnd
<1>3. Tunnel!Breaks
  BY <1>1 DEF Tunnel!Breaks, Broken, Hangs
<1>4. Tunnel!Ends
  BY <1>2 DEF Tunnel!Ends, Broken, Hangs, ToldEnd
<1> QED BY <1>3, <1>4

\* A step that moves no byte between the programs.
LEMMA TunnelStays ==
  ASSUME \A x \in End : Lasts(x), UNCHANGED <<read, wrote>>,
         \A x \in End : up[x] = "copy" <=> up'[x] = "copy"
  PROVE  Tunnel!Next
<1>1. Tunnel!Stays
  BY DEF Tunnel!Stays
<1> QED BY <1>1, TunnelEnds DEF Tunnel!Next

LEMMA TunnelSetup ==
  ASSUME TypeOK, PhaseInv, Setup
  PROVE  Tunnel!Next
<1>0. /\ DOMAIN pc = End /\ pc = [x \in End |-> pc[x]] /\ "client" \in End /\ "server" \in End
      /\ \A x \in End : x = "client" \/ x = "server"
  BY TypedEnds DEF End
<1>1. UNCHANGED <<up, down, read, wrote, ws>>
  BY DEF Setup, Dial, Arrive, PeekMore, PeekPasses, PeekRejects, Deadline, Accept, AcceptFails,
         HandleRequest, HttpEnds, ServerDials, ServerDialFails, ClientFails, ClientIsDropped,
         bridgeVars
<1>2. \A x \in End : pc[x] = "failed" => pc'[x] = "failed"
  <2>1. CASE Arrive \/ PeekMore \/ Deadline
    BY <2>1 DEF Arrive, PeekMore, Deadline, bridgeVars
  <2>2. CASE Dial \/ Accept \/ HandleRequest
    <3>1. \/ UNCHANGED pc
          \/ pc["client"] # "failed" /\ pc["server"] \in {"tls", "http"}
          \/ pc["client"] = "dial" /\ pc["server"] = "listen"
      BY <2>2 DEF Dial, Accept, HandleRequest, PhaseInv
    <3> QED BY <1>0, <3>1
  <2>3. CASE PeekPasses \/ PeekRejects \/ ServerDials
    BY <1>0, <2>3 DEF PeekPasses, PeekRejects, ServerDials, Goto
  <2>4. CASE HttpEnds \/ AcceptFails \/ ServerDialFails \/ ClientFails \/ ClientIsDropped
    BY <1>0, <2>4 DEF HttpEnds, AcceptFails, ServerDialFails, ClientFails, ClientIsDropped, Drop
  <2> QED BY <2>1, <2>2, <2>3, <2>4 DEF Setup
<1>3. \A x \in End : Lasts(x)
  BY <1>1, <1>2 DEF Lasts, Hangs
<1> QED BY <1>1, <1>3, TunnelStays

LEMMA TunnelCopy ==
  ASSUME TypeOK, CloseInv, Ledger, NEW e \in End, Copy(e)
  PROVE  Tunnel!Next
<1> DEFINE o == Other(e)
<1>0. /\ o \in End /\ Other(o) = e /\ o # e /\ \A x \in End : x = e \/ x = o
      /\ CloseOf(e, o) /\ CloseOf(o, e) /\ LedgerOf(o, e) /\ pc[e] = "copy"
  BY Ends DEF CloseInv, Ledger, Copy
<1>n. COPY_BUF \in Nat \ {0}
  BY BridgeAssumption
<1> HIDE DEF o
<1>p. ASSUME \/ UNCHANGED pc
             \/ \E how \in Over : Drop(e, how)
      PROVE  \A x \in End : pc[x] = "failed" => pc'[x] = "failed"
  BY <1>0, <1>p, TypedEnds DEF Drop
<1>1. CASE CopyUp(e)
  <2>1. PICK n \in 1 .. COPY_BUF :
          /\ read' = [read EXCEPT ![e] = @ + n]
          /\ UNCHANGED pc \/ Drop(e, "failed")
    BY <1>1 DEF CopyUp
  <2>2. n \in Nat \ {0} /\ read[e] \in Nat
    BY <1>n DEF TypeOK
  <2>3. UNCHANGED <<up, down, wrote, ws>> /\ up[e] = "copy"
    BY <1>1 DEF CopyUp
  <2>4. \A x \in End : Lasts(x)
    <3>1. \A x \in End : pc[x] = "failed" => pc'[x] = "failed"
      BY <1>p, <2>1 DEF Over
    <3> QED BY <2>3, <3>1 DEF Lasts, Hangs
  <2>5. read'[e] > read[e] /\ read' = [read EXCEPT ![e] = read'[e]]
    BY <2>1, <2>2 DEF TypeOK
  <2>6. Tunnel!Send(e)
    BY <2>3, <2>5 DEF Tunnel!Send
  <2> QED BY <2>4, <2>6, TunnelEnds DEF Tunnel!Next
<1>2. CASE FlushOut(e) \/ ShutdownWs(e)
  <2>1. UNCHANGED <<pc, down, read, wrote>> /\ \A x \in End : up[x] = "copy" <=> up'[x] = "copy"
    BY <1>2, TypedEnds DEF FlushOut, FlushFrame, ShutdownWs
  <2>2. \A x \in End : Hangs(x) => Hangs(x)'
    <3>1. ASSUME NEW x \in End, x # e PROVE ws'[x] = ws[x]
      BY <1>2, <3>1, TypedEnds DEF FlushOut, FlushFrame, ShutdownWs
    <3>2. Hangs(e) => Hangs(e)'
      BY <1>2, TypedEnds DEF FlushOut, FlushFrame, ShutdownWs, Hangs
    <3> QED BY <3>1, <3>2 DEF Hangs
  <2>3. \A x \in End : Lasts(x)
    BY <2>1, <2>2 DEF Lasts
  <2> QED BY <2>1, <2>3, TunnelStays
<1>3. CASE ReadEof(e)
  <2>1. UNCHANGED <<pc, down, read, wrote, ws>> /\ up' = [up EXCEPT ![e] = "eof"]
    BY <1>3 DEF ReadEof
  <2>2. \A x \in End : Lasts(x)
    BY <2>1 DEF Lasts, Hangs
  <2>3. [x \in End |-> up'[x] # "copy"] = [[x \in End |-> up[x] # "copy"] EXCEPT ![e] = TRUE]
    <3>1. \A x \in End : /\ x # e => (up'[x] # "copy") = (up[x] # "copy")
                         /\ x = e => (up'[x] # "copy") = TRUE
      BY <2>1, TypedEnds
    <3> QED BY <3>1
  <2>4. Tunnel!End(e)
    BY <2>1, <2>3 DEF Tunnel!End
  <2> QED BY <2>2, <2>4, TunnelEnds DEF Tunnel!Next
<1>4. CASE PollRead(e)
  <2>1. UNCHANGED <<up, read, wrote>> /\ down[e] = "copy"
    BY <1>4 DEF PollRead, ReadRest, ReadFrame, TakeFrame
  <2>2. UNCHANGED pc \/ Drop(e, "failed")
    BY <1>4 DEF PollRead, ReadRest, ReadFrame, TakeFrame
  <2>3. \A x \in End : pc[x] = "failed" => pc'[x] = "failed"
    BY <1>p, <2>2 DEF Over
  <2>4. \A x \in End : (down[x] = "done" <=> down'[x] = "done")
    BY <1>4, <2>1, TypedEnds DEF PollRead, ReadRest, ReadFrame, TakeFrame
  <2>5. ~Hangs(e) /\ \A x \in End : x # e => ws'[x] = ws[x]
    <3>1. ~Recvd(e)
      BY <1>0, <2>1 DEF CloseOf
    <3> QED BY <1>4, <3>1, TypedEnds DEF PollRead, ReadRest, ReadFrame, TakeFrame, Recvd, Hangs
  <2>6. \A x \in End : Lasts(x)
    BY <2>3, <2>4, <2>5 DEF Lasts, Hangs
  <2> QED BY <2>1, <2>6, TunnelStays
<1>5. CASE WriteTcp(e)
  <2>1. PICK n \in 1 .. held[e] : wrote' = [wrote EXCEPT ![e] = @ + n]
    BY <1>5 DEF WriteTcp
  <2>2. UNCHANGED <<pc, up, down, read, ws>>
    BY <1>5 DEF WriteTcp
  <2>3. \A x \in End : Lasts(x)
    BY <2>2 DEF Lasts, Hangs
  <2>4. /\ wrote[e] \in Nat /\ held[e] \in Nat /\ read_buf[e] \in Nat /\ read[o] \in Nat
        /\ Carried(net[o]) \in Nat /\ Carried(out[o]) \in Nat
    BY <1>0, Sizes
  <2>5. n \in 1 .. (read[o] - wrote[e])
    <3>1. held[e] <= read[o] - wrote[e]
      BY <1>0, <2>4 DEF LedgerOf, Underway
    <3> QED BY <2>4, <3>1
  <2>6. down[e] # "done" /\ pc[e] # "failed"
    BY <1>0, <2>4 DEF LedgerOf
  <2>7. [x \in End |-> wrote'[Other(x)]]
          = [[x \in End |-> wrote[Other(x)]] EXCEPT ![o] = @ + n]
    <3>1. \A x \in End : /\ x # o => wrote'[Other(x)] = wrote[Other(x)]
                         /\ x = o => wrote'[Other(x)] = wrote[Other(x)] + n
      BY <1>0, <2>1, Ends DEF TypeOK
    <3> QED BY <3>1
  <2>8. Tunnel!Receive(o)
    BY <1>0, <2>2, <2>5, <2>6, <2>7 DEF Tunnel!Receive
  <2> QED BY <1>0, <2>3, <2>8, TunnelEnds DEF Tunnel!Next
<1>6. CASE ShutdownTcp(e)
  <2>1. /\ UNCHANGED <<pc, up, read, wrote, ws>> /\ down[e] = "eof" /\ held[e] = 0
        /\ \A x \in End : x # e => down'[x] = down[x]
    BY <1>6, TypedEnds DEF ShutdownTcp
  <2>2. Broken(o) \/ (up[o] # "copy" /\ wrote[e] = read[o])
    <3> SUFFICES ASSUME ~Broken(o) PROVE up[o] # "copy" /\ wrote[e] = read[o]
      OBVIOUS
    <3>1. Sent(o) /\ pc[o] # "failed" /\ ~Hangs(o)
      BY <1>0, <2>1 DEF CloseOf, Recvd, Broken, End
    <3>2. up[o] = "done" /\ out[o] = <<>>
      BY <1>0, <3>1 DEF CloseOf, Sent, Hangs
    <3>3. read_buf[e] = 0 /\ AllFin(net[o])
      BY <1>0, <2>1 DEF LedgerOf
    <3>4. Carried(net[o]) = 0 /\ Carried(out[o]) = 0
      <4>1. net[o] \in Seq(Frame) /\ \A i \in 1 .. Len(net[o]) : Size(net[o][i]) = 0
        BY <1>0, <3>3, Sizes DEF AllFin
      <4>2. out[o] \in Seq(Frame) /\ \A i \in 1 .. Len(out[o]) : Size(out[o][i]) = 0
        BY <1>0, <3>2, Sizes
      <4> QED BY <4>1, <4>2, CarriedNone
    <3>5. wrote[e] \in Nat /\ read[o] = wrote[e] + 0 + 0 + 0 + 0
      BY <1>0, <2>1, <3>1, <3>3, <3>4, Sizes DEF LedgerOf, Underway
    <3> QED BY <3>2, <3>5
  <2>3. Broken(o)' <=> Broken(o)
    BY <2>1 DEF Broken, Hangs
  <2>4. \A x \in End : Lasts(x)
    <3>1. Lasts(e)
      BY <2>1, <2>2, <2>3 DEF Lasts, Hangs, o
    <3>2. Lasts(o)
      BY <1>0, <2>1 DEF Lasts, Hangs
    <3> QED BY <1>0, <3>1, <3>2
  <2> QED BY <2>1, <2>4, TunnelStays
<1>7. CASE CopyDone(e) \/ SendFails(e) \/ CopyError(e)
  <2>1. UNCHANGED <<up, down, read, wrote, ws>> /\ \E how \in Over : Drop(e, how)
    BY <1>7 DEF CopyDone, SendFails, CopyError, Over
  <2>2. \A x \in End : Lasts(x)
    BY <1>p, <2>1 DEF Lasts, Hangs
  <2> QED BY <2>1, <2>2, TunnelStays
<1> QED BY <1>1, <1>2, <1>3, <1>4, <1>5, <1>6, <1>7 DEF Copy

\* Each direction of a TCP tunnel is a lossless, ordered pipe (ws.rs, the copies
\* of server.rs:240 and client.rs:73): a program gets a prefix of what the
\* other sent, through frames that may be split on either side, and is told the
\* end behind the last byte only, unless the tunnel failed or its own Close
\* frame was the first.
THEOREM TunnelRefines == Spec => TunnelIsPipe
<1>1. TypeOK /\ CloseInv /\ PhaseInv /\ Ledger /\ [Next]_vars => [Tunnel!Next]_(Tunnel!pipeVars)
  <2> SUFFICES ASSUME TypeOK, CloseInv, PhaseInv, Ledger, [Next]_vars
               PROVE  [Tunnel!Next]_(Tunnel!pipeVars)
    OBVIOUS
  <2>1. CASE UNCHANGED vars
    BY <2>1 DEF vars, bridgeVars, Tunnel!pipeVars
  <2> QED BY <2>1, TunnelSetup, TunnelCopy DEF Next
<1> QED BY <1>1, TunnelInit, TypeCorrect, CutInit, CutStep, LedgerInit, LedgerStep, PTL
        DEF Spec, TunnelIsPipe, Tunnel!Spec

-----------------------------------------------------------------------------
(* A tunnel never blocks.  What makes the liveness of NothingIsStuck true:  *)
(* whatever is left to do, an end that lives can take a step towards it.    *)

\* What the ends can do: FlushOut, PollRead and WriteTcp move bytes, the others
\* bring a task nearer to its end.
CanFlush(e) == pc[e] = "copy" /\ up[e] # "done" /\ out[e] # <<>> /\ Room(e)
CanRead(e) ==
  /\ pc[e] = "copy" /\ down[e] = "copy" /\ held[e] < COPY_BUF
  /\ read_buf[e] > 0 \/ net[Other(e)] # <<>>
CanWrite(e) == pc[e] = "copy" /\ held[e] > 0
CanShutdown(e) ==
  \/ down[e] = "eof" /\ held[e] = 0
  \/ up[e] = "eof" /\ out[e] = <<>> /\ (ws[e] \in {"Active", "ClosedByPeer"} => Room(e))
CanEnd(e) ==
  /\ pc[e] = "copy"
  /\ \/ CanShutdown(e)
     \/ down[e] = "done" /\ up[e] \in {"copy", "done"}
     \/ pc[Other(e)] \in Over /\ (out[e] # <<>> \/ (up[e] = "eof" /\ ws[e] \in {"Active", "ClosedByPeer"}))

\* Bytes one program has sent and the other has not got can be moved on, and a
\* task whose peer is over can do something but wait for it.
TunnelMoves == \A e \in End : LET o == Other(e) IN
  /\ {pc[e], pc[o]} \subseteq {"copy", "done"} /\ wrote[o] < read[e] =>
       CanFlush(e) \/ CanRead(o) \/ CanWrite(o)
  /\ pc[e] = "copy" /\ pc[o] \in Over => CanRead(e) \/ CanWrite(e) \/ CanEnd(e)

\* The end of a task is on its way to an end that lives.
FinInv == \A e \in End : pc[e] \in Over /\ pc[Other(e)] \notin Over => ~NoFin(net[e])

LEMMA FinKept ==
  ASSUME NEW s \in Seq(Frame), NEW f
  PROVE  /\ NoFin(Append(s, f)) => NoFin(s) /\ f # Fin
         /\ NoFin(s \o <<f, Close>>) => NoFin(s)
         /\ s # <<>> /\ NoFin(Tail(s)) /\ Head(s) # Fin => NoFin(s)
<1>1. NoFin(Append(s, f)) => NoFin(s) /\ f # Fin
  <2>1. /\ Len(Append(s, f)) = Len(s) + 1 /\ Len(s) \in Nat
        /\ \A i \in 1 .. Len(s) : Append(s, f)[i] = s[i]
        /\ Append(s, f)[Len(s) + 1] = f
    OBVIOUS
  <2>2. Len(s) + 1 \in 1 .. Len(s) + 1 /\ \A i \in 1 .. Len(s) : i \in 1 .. Len(s) + 1
    BY <2>1
  <2> QED BY <2>1, <2>2 DEF NoFin
<1>2. NoFin(s \o <<f, Close>>) => NoFin(s)
  <2>1. /\ Len(s \o <<f, Close>>) = Len(s) + 2 /\ Len(s) \in Nat
        /\ \A i \in 1 .. Len(s) : (s \o <<f, Close>>)[i] = s[i]
    OBVIOUS
  <2>2. \A i \in 1 .. Len(s) : i \in 1 .. Len(s) + 2
    BY <2>1
  <2> QED BY <2>1, <2>2 DEF NoFin
<1>3. s # <<>> /\ NoFin(Tail(s)) /\ Head(s) # Fin => NoFin(s)
  <2> SUFFICES ASSUME s # <<>>, NoFin(Tail(s)), s[1] # Fin, NEW i \in 1 .. Len(s)
               PROVE  s[i] # Fin
    BY DEF NoFin
  <2>1. CASE i = 1
    BY <2>1
  <2>2. CASE i # 1
    <3>1. i - 1 \in 1 .. Len(Tail(s)) /\ Tail(s)[i - 1] = s[i]
      BY <2>2
    <3> QED BY <3>1 DEF NoFin
  <2> QED BY <2>1, <2>2
<1> QED BY <1>1, <1>2, <1>3

\* A step that ends no task and loses no Fin.
LEMMA FinStays ==
  ASSUME FinInv, \A x \in End : pc'[x] \in Over <=> pc[x] \in Over,
         \A x \in End : NoFin(net'[x]) => NoFin(net[x])
  PROVE  FinInv'
<1> SUFFICES ASSUME NEW x \in End, pc'[x] \in Over, pc'[Other(x)] \notin Over
             PROVE  ~NoFin(net'[x])
  BY DEF FinInv, NoFin
<1>1. Other(x) \in End
  BY Ends
<1> QED BY <1>1 DEF FinInv

\* A task that ends.
LEMMA FinDrop ==
  ASSUME TypeOK, NEW e \in End, pc'[e] \in Over,
         net' = [net EXCEPT ![e] = Append(@, Fin)]
  PROVE  FinInv'
<1> SUFFICES ASSUME NEW x \in End, pc'[x] \in Over, pc'[Other(x)] \notin Over
             PROVE  ~NoFin(net'[x])
  BY DEF FinInv, NoFin
<1>1. x = e
  <2> SUFFICES ASSUME x = Other(e) PROVE FALSE
    BY Ends
  <2>1. Other(x) = e
    BY Ends
  <2> QED BY <2>1
<1>2. net'[x] = Append(net[e], Fin)
  BY <1>1, TypedEnds
<1>3. ~NoFin(Append(net[e], Fin))
  <2>1. net[e] \in Seq(Frame)
    BY TypedEnds
  <2> QED BY <2>1, FinKept
<1> QED BY <1>2, <1>3

LEMMA FinSetup ==
  ASSUME TypeOK, PhaseInv, FinInv, Setup
  PROVE  FinInv'
<1>0. /\ DOMAIN pc = End /\ pc = [x \in End |-> pc[x]] /\ "client" \in End /\ "server" \in End
      /\ \A x \in End : x = "client" \/ x = "server"
      /\ {"dial", "listen", "peek", "tls", "http", "upgrade", "dropped", "copy"} \cap Over = {}
      /\ "failed" \in Over
  BY TypedEnds DEF End, Over
<1>1. CASE Arrive \/ PeekMore \/ Deadline
  <2>1. UNCHANGED <<pc, net>>
    BY <1>1 DEF Arrive, PeekMore, Deadline, bridgeVars
  <2> QED BY <2>1, FinStays
<1>2. CASE Dial \/ PeekPasses \/ PeekRejects \/ Accept \/ HandleRequest \/ ServerDials
  <2>1. UNCHANGED net
    BY <1>2 DEF Dial, PeekPasses, PeekRejects, Accept, HandleRequest, ServerDials
  <2>2. \A x \in End : pc'[x] = pc[x] \/ (pc[x] \notin Over /\ pc'[x] \notin Over)
    <3>1. CASE Dial
      BY <1>0, <3>1 DEF Dial, PhaseInv
    <3>2. CASE Accept
      BY <1>0, <3>2 DEF Accept
    <3>3. CASE HandleRequest
      <4>1. pc["client"] = "upgrade" /\ pc["server"] = "http"
            /\ (pc' = [client |-> "copy", server |-> "dial"] \/ UNCHANGED pc)
        BY <3>3 DEF HandleRequest
      <4> QED BY <1>0, <4>1
    <3>4. CASE PeekPasses \/ PeekRejects \/ ServerDials
      BY <1>0, <3>4 DEF PeekPasses, PeekRejects, ServerDials, Goto
    <3> QED BY <1>2, <3>1, <3>2, <3>3, <3>4
  <2> QED BY <2>1, <2>2, FinStays
<1>3. CASE HttpEnds \/ AcceptFails \/ ServerDialFails
  <2>1. net' = [net EXCEPT !["server"] = Append(@, Fin)]
    BY <1>3 DEF HttpEnds, AcceptFails, ServerDialFails, Drop
  <2>2. pc'["server"] \in Over
    BY <1>0, <1>3 DEF HttpEnds, AcceptFails, ServerDialFails, Drop
  <2> QED BY <1>0, <2>1, <2>2, FinDrop
<1>4. CASE ClientFails \/ ClientIsDropped
  <2>1. net' = [net EXCEPT !["client"] = Append(@, Fin)] /\ pc'["client"] \in Over
    BY <1>0, <1>4 DEF ClientFails, ClientIsDropped, Drop
  <2> QED BY <1>0, <2>1, FinDrop
<1> QED BY <1>1, <1>2, <1>3, <1>4 DEF Setup

LEMMA FinCopy ==
  ASSUME TypeOK, FinInv, NEW e \in End, Copy(e)
  PROVE  FinInv'
<1> DEFINE o == Other(e)
<1>0. /\ o \in End /\ o # e /\ \A x \in End : x = e \/ x = o
      /\ DOMAIN pc = End /\ DOMAIN net = End /\ net[e] \in Seq(Frame) /\ net[o] \in Seq(Frame)
      /\ \A how \in Over : Drop(e, how) => FinInv'
      /\ "done" \in Over /\ "failed" \in Over
  <2>1. o \in End /\ o # e /\ \A x \in End : x = e \/ x = o
    BY Ends
  <2>2. DOMAIN pc = End /\ DOMAIN net = End /\ \A x \in End : net[x] \in Seq(Frame)
    BY TypedEnds
  <2>3. ASSUME NEW how \in Over, Drop(e, how) PROVE FinInv'
    <3>1. pc'[e] = how /\ net' = [net EXCEPT ![e] = Append(@, Fin)]
      BY <2>2, <2>3 DEF Drop
    <3> QED BY <3>1, FinDrop
  <2> QED BY <2>1, <2>2, <2>3 DEF Over
<1> HIDE DEF o
<1>s. ASSUME UNCHANGED pc, \A x \in End : NoFin(net'[x]) => NoFin(net[x]) PROVE FinInv'
  BY <1>s, FinStays
<1>1. CASE CopyUp(e)
  <2>1. UNCHANGED <<pc, net>> \/ Drop(e, "failed")
    BY <1>1 DEF CopyUp
  <2> QED BY <1>0, <1>s, <2>1
<1>2. CASE FlushOut(e)
  <2>1. /\ UNCHANGED pc
        /\ \/ net' = [net EXCEPT ![e] = @ \o <<Head(out[e]), Close>>]
           \/ net' = [net EXCEPT ![e] = Append(@, Head(out[e]))]
    BY <1>2 DEF FlushOut, FlushFrame
  <2>2. net'[o] = net[o]
    BY <1>0, <2>1
  <2>3. net'[e] = net[e] \o <<Head(out[e]), Close>> \/ net'[e] = Append(net[e], Head(out[e]))
    BY <1>0, <2>1
  <2>4. NoFin(net'[e]) => NoFin(net[e])
    <3>1. \A f : /\ NoFin(Append(net[e], f)) => NoFin(net[e])
                 /\ NoFin(net[e] \o <<f, Close>>) => NoFin(net[e])
      BY <1>0, FinKept, Zenon
    <3> QED BY ONLY <2>3, <3>1, Zenon
  <2>5. \A x \in End : NoFin(net'[x]) => NoFin(net[x])
    BY ONLY <1>0, <2>2, <2>4
  <2> QED BY <1>s, <2>1, <2>5
<1>3. CASE ShutdownWs(e)
  <2>1. UNCHANGED pc /\ (UNCHANGED net \/ net' = [net EXCEPT ![e] = Append(@, Close)])
    <3>1. UNCHANGED pc
          /\ net' = [net EXCEPT ![e] = IF ws[e] \in {"Active", "ClosedByPeer"}
                                         THEN Append(@, Close) ELSE @]
      BY <1>3 DEF ShutdownWs
    <3>2. net = [net EXCEPT ![e] = net[e]]
      BY TypedEnds
    <3> QED BY <3>1, <3>2
  <2>2. net'[o] = net[o] /\ (net'[e] = net[e] \/ net'[e] = Append(net[e], Close))
    BY <1>0, <2>1
  <2>3. NoFin(net'[e]) => NoFin(net[e])
    BY <1>0, <2>2, FinKept
  <2> QED BY <1>0, <1>s, <2>1, <2>2, <2>3
<1>4. CASE ReadEof(e) \/ WriteTcp(e) \/ ShutdownTcp(e)
  <2>1. UNCHANGED <<pc, net>>
    BY <1>4 DEF ReadEof, WriteTcp, ShutdownTcp
  <2> QED BY <1>s, <2>1
<1>5. CASE CopyDone(e) \/ SendFails(e) \/ CopyError(e)
  <2>1. Drop(e, "done") \/ Drop(e, "failed")
    BY <1>5 DEF CopyDone, SendFails, CopyError
  <2> QED BY <1>0, <2>1
<1>6. CASE PollRead(e)
  <2>1. CASE ReadRest(e)
    <3>1. UNCHANGED <<pc, net>>
      BY <2>1 DEF ReadRest
    <3> QED BY <1>s, <3>1
  <2>2. CASE ReadFrame(e)
    <3>1. \/ Drop(e, "failed")
          \/ /\ net[o] # <<>> /\ Head(net[o]) # Fin /\ UNCHANGED pc
             /\ net' = [net EXCEPT ![o] = Tail(@)]
      BY <2>2 DEF ReadFrame, TakeFrame, o
    <3>2. CASE /\ net[o] # <<>> /\ Head(net[o]) # Fin /\ UNCHANGED pc
               /\ net' = [net EXCEPT ![o] = Tail(@)]
      <4>1. net'[e] = net[e] /\ net'[o] = Tail(net[o])
        BY <1>0, <3>2
      <4>2. NoFin(net'[o]) => NoFin(net[o])
        BY <1>0, <3>2, <4>1, FinKept
      <4> QED BY <1>0, <1>s, <3>2, <4>1, <4>2
    <3> QED BY <1>0, <3>1, <3>2
  <2> QED BY <1>6, <2>1, <2>2 DEF PollRead
<1> QED BY <1>1, <1>2, <1>3, <1>4, <1>5, <1>6 DEF Copy

LEMMA FinStep == TypeOK /\ PhaseInv /\ FinInv /\ [Next]_vars => FinInv'
<1> SUFFICES ASSUME TypeOK, PhaseInv, FinInv, [Next]_vars PROVE FinInv'
  OBVIOUS
<1>1. CASE UNCHANGED vars
  <2>1. UNCHANGED <<pc, net>>
    BY <1>1 DEF vars, bridgeVars
  <2> QED BY <2>1, FinStays
<1> QED BY <1>1, FinSetup, FinCopy DEF Next

LEMMA FinInit == Init => FinInv
<1> SUFFICES ASSUME Init, NEW e \in End PROVE pc[e] \notin Over
  BY DEF FinInv
<1> QED BY DEF Init, End, Over

\* No byte is left where no step can reach it: behind a Close frame there is
\* none, and an end that stopped reading has been sent everything.
LEMMA BytesMove ==
  ASSUME TypeOK, CloseInv, Ledger, NEW e \in End,
         {pc[e], pc[Other(e)]} \subseteq {"copy", "done"}, wrote[Other(e)] < read[e]
  PROVE  CanFlush(e) \/ CanRead(Other(e)) \/ CanWrite(Other(e))
<1> DEFINE o == Other(e)
<1>0. /\ o \in End /\ Other(o) = e /\ pc[e] \in {"copy", "done"} /\ pc[o] \in {"copy", "done"}
      /\ CloseOf(e, o) /\ CloseOf(o, e) /\ LedgerOf(e, o)
  BY Ends DEF CloseInv, Ledger
<1> HIDE DEF o
<1>1. /\ net[e] \in Seq(Frame) /\ out[e] \in Seq(Frame) /\ Size(Fin) = 0
      /\ read[e] \in Nat /\ wrote[o] \in Nat /\ held[o] \in Nat /\ read_buf[o] \in Nat
      /\ Carried(net[e]) \in Nat /\ Carried(out[e]) \in Nat
  BY <1>0, Sizes
<1>2. held[o] > 0 \/ read_buf[o] > 0 \/ Carried(net[e]) > 0 \/ Carried(out[e]) > 0
  <2>1. wrote[o] + held[o] + read_buf[o] + Carried(net[e]) + Carried(out[e]) = read[e]
    BY <1>0 DEF LedgerOf, Underway
  <2>2. wrote[o] < read[e]
    BY DEF o
  <2> QED BY ONLY <1>1, <2>1, <2>2
<1>3. /\ Carried(net[e]) > 0 => net[e] # <<>> /\ ~AllFin(net[e])
      /\ Carried(out[e]) > 0 => out[e] # <<>>
  <2>1. ASSUME NEW s \in Seq(Frame), s = <<>> \/ AllFin(s) PROVE Carried(s) = 0
    <3>1. \A i \in 1 .. Len(s) : s[i] = Fin
      BY <2>1 DEF AllFin
    <3> QED BY <1>1, <3>1, CarriedNone
  <2> QED BY <1>1, <2>1
<1>4. CASE down[o] # "copy"
  <2>1. out[e] = <<>> /\ read_buf[o] = 0 /\ AllFin(net[e])
    BY <1>0, <1>4 DEF CloseOf, LedgerOf
  <2>2. held[o] > 0
    BY <1>1, <1>2, <1>3, <2>1
  <2>3. pc[o] = "copy"
    BY <1>0, <1>1, <2>2 DEF CloseOf, LedgerOf
  <2> QED BY <2>2, <2>3 DEF CanWrite, o
<1>5. CASE down[o] = "copy"
  <2>1. pc[o] = "copy"
    BY <1>0, <1>5 DEF CloseOf
  <2>2. CASE held[o] > 0
    BY <2>1, <2>2 DEF CanWrite, o
  <2>3. CASE held[o] = 0 /\ (read_buf[o] > 0 \/ net[e] # <<>>)
    <3>1. held[o] < COPY_BUF
      BY <2>3, BridgeAssumption
    <3> QED BY <1>0, <1>5, <2>1, <2>3, <3>1 DEF CanRead, o
  <2>4. CASE held[o] = 0 /\ read_buf[o] = 0 /\ net[e] = <<>>
    <3>1. out[e] # <<>>
      BY <1>1, <1>2, <1>3, <2>4
    <3>2. up[e] # "done" /\ pc[e] = "copy"
      BY <1>0, <3>1 DEF CloseOf
    <3>3. Room(e)
      BY <2>4, BridgeAssumption DEF Room
    <3> QED BY <3>1, <3>2, <3>3 DEF CanFlush
  <2> QED BY <1>1, <2>2, <2>3, <2>4
<1> QED BY <1>4, <1>5

\* The Fin of the other end can be read, or one end of the copies is over and
\* the other is told by its own writes.
LEMMA EndFollows ==
  ASSUME TypeOK, CloseInv, FinInv, NEW e \in End, pc[e] = "copy", pc[Other(e)] \in Over
  PROVE  CanRead(e) \/ CanWrite(e) \/ CanEnd(e)
<1>1. net[Other(e)] # <<>>
  <2>1. Other(e) \in End /\ Other(Other(e)) = e /\ pc[e] \notin Over
    BY Ends DEF Over
  <2>2. ~NoFin(net[Other(e)])
    BY <2>1 DEF FinInv
  <2> QED BY <2>2 DEF NoFin
<1>2. /\ up[e] \in {"copy", "eof", "done"} /\ down[e] \in {"copy", "eof", "done"}
      /\ held[e] \in Nat
  BY TypedEnds, Sizes
<1>3. CASE held[e] > 0
  BY <1>3 DEF CanWrite
<1>4. CASE held[e] = 0 /\ down[e] = "copy"
  <2>1. held[e] < COPY_BUF
    BY <1>4, BridgeAssumption
  <2> QED BY <1>1, <1>4, <2>1 DEF CanRead
<1>5. CASE held[e] = 0 /\ down[e] = "eof"
  BY <1>5 DEF CanEnd, CanShutdown
<1>6. CASE down[e] = "done"
  BY <1>2, <1>6 DEF CanEnd, CanShutdown
<1> QED BY <1>2, <1>3, <1>4, <1>5, <1>6

\* A tunnel never blocks (the copies of server.rs:240 and client.rs:73 over
\* ws.rs): while both tasks are well, every byte one program sent and the other
\* has not got can be moved, past full queues and a Close frame in between; and a
\* task whose peer is over has a step that brings it nearer to its own end.
THEOREM TunnelNeverBlocks == Spec => []TunnelMoves
<1>1. TypeOK /\ CloseInv /\ Ledger /\ FinInv => TunnelMoves
  BY BytesMove, EndFollows DEF TunnelMoves
<1> QED BY <1>1, TypeCorrect, CutInit, CutStep, LedgerInit, LedgerStep, FinInit, FinStep, PTL
        DEF Spec

-----------------------------------------------------------------------------
(* What the classifier makes of the bytes of a ClientHello.                 *)

LEMMA ByteAt ==
  ASSUME NEW b \in Seq(Byte)
  PROVE  Len(b) \in Nat /\ \A i \in 1 .. Len(b) : b[i] \in 0 .. 255 /\ b[i] \in Nat
<1>1. Len(b) \in Nat /\ \A i \in 1 .. Len(b) : b[i] \in Byte
  OBVIOUS
<1>2. \A x \in Byte : x \in 0 .. 255 /\ x \in Nat
  BY DEF Byte
<1> QED BY <1>1, <1>2

\* t[i] is the number the first i of w bytes at p make.
NumSteps(t, b, p, w) ==
  t[0] = 0 /\ \A i \in 1 .. w : t[i] = 256 * t[i - 1] + b[p + i]

\* Where a number of w bytes can be read, Num is what the recursion says.
LEMMA NumIs ==
  ASSUME NEW b \in Seq(Byte), NEW p \in Nat, NEW w \in Nat, p + w <= Len(b)
  PROVE  \E t \in [0 .. w -> Nat] :
           NumSteps(t, b, p, w) /\ Num(b, p, w) = t[w]
<1> DEFINE Is(g) == g = [i \in 0 .. w |-> IF i = 0 THEN 0 ELSE 256 * g[i - 1] + b[p + i]]
           num == CHOOSE g : Is(g)
           step == [i \in 1 .. w |-> [x \in Nat |-> 256 * x + b[p + i]]]
<1>1. ASSUME NEW i \in 1 .. w PROVE b[p + i] \in Nat
  <2>1. p + i \in 1 .. Len(b)
    BY ByteAt
  <2> QED BY <2>1, ByteAt
<1>2. step \in [1 .. w -> [Nat -> Nat]]
  <2>1. ASSUME NEW i \in 1 .. w, NEW x \in Nat PROVE 256 * x + b[p + i] \in Nat
    <3>1. b[p + i] \in Nat
      BY <1>1
    <3>2. \A y, z \in Nat : 256 * y + z \in Nat
      OBVIOUS
    <3> QED BY ONLY <3>1, <3>2, x \in Nat
  <2> QED BY <2>1
<1>3. PICK t \in [0 .. w -> Nat] : Along(t, w, 0, step)
  <2> HIDE DEF step
  <2> QED BY <1>2, RecursionAlong
<1>4. NumSteps(t, b, p, w)
  <2>1. ASSUME NEW i \in 1 .. w PROVE t[i] = 256 * t[i - 1] + b[p + i]
    <3>1. t[i] = step[i][t[i - 1]] /\ t[i - 1] \in Nat
      <4> HIDE DEF step
      <4>1. i - 1 \in 0 .. w
        OBVIOUS
      <4> QED BY <1>3, <4>1 DEF Along
    <3> QED BY <3>1
  <2> QED BY <1>3, <2>1 DEF Along, NumSteps
<1>5. Is(t)
  BY <1>4 DEF NumSteps
<1>6. Is(num)
  <2> HIDE DEF Is
  <2> QED BY <1>5
<1>7. Num(b, p, w) = num[w]
  BY DEF Num
<1>8. \A k \in 0 .. w : num[k] = t[k]
  <2>1. SameSteps(num, t, w)
    <3>1. ASSUME NEW i \in 1 .. w, num[i - 1] = t[i - 1] PROVE num[i] = t[i]
      <4>1. num[i] = 256 * num[i - 1] + b[p + i]
        <5>1. i \in 0 .. w /\ i # 0
          OBVIOUS
        <5> HIDE DEF num
        <5> QED BY <1>6, <5>1
      <4> HIDE DEF num
      <4> QED BY <1>4, <3>1, <4>1 DEF NumSteps
    <3>2. num[0] = t[0]
      <4> HIDE DEF num
      <4> QED BY <1>4, <1>6 DEF NumSteps
    <3> QED BY <3>1, <3>2 DEF SameSteps
  <2> HIDE DEF num
  <2> QED BY <2>1, RecursionUnique
<1> HIDE DEF num
<1> QED BY <1>4, <1>7, <1>8

LEMMA Nums ==
  ASSUME NEW b \in Seq(Byte), NEW p \in Nat
  PROVE  /\ p + 1 <= Len(b) => Num(b, p, 1) = b[p + 1] /\ b[p + 1] \in Nat
         /\ p + 2 <= Len(b) => Num(b, p, 2) = 256 * b[p + 1] + b[p + 2]
         /\ p + 3 <= Len(b) => Num(b, p, 3) = 256 * (256 * b[p + 1] + b[p + 2]) + b[p + 3]
<1>0. /\ Len(b) \in Nat /\ \A i \in 1 .. Len(b) : b[i] \in Nat
      /\ 1 - 1 = 0 /\ 2 - 1 = 1 /\ 3 - 1 = 2
  BY ByteAt
<1>z. \A z \in Nat : 256 * 0 + z = z
  OBVIOUS
<1>1. ASSUME NEW w \in Nat, w >= 1, NEW t \in [0 .. w -> Nat], NumSteps(t, b, p, w), p + w <= Len(b)
      PROVE  /\ t[1] = b[p + 1] /\ b[p + 1] \in Nat
             /\ w >= 2 => t[2] = 256 * t[1] + b[p + 2]
             /\ w >= 3 => t[3] = 256 * t[2] + b[p + 3]
  <2>1. /\ t[1] = 256 * t[0] + b[p + 1] /\ t[0] = 0
        /\ w >= 2 => t[2] = 256 * t[1] + b[p + 2]
        /\ w >= 3 => t[3] = 256 * t[2] + b[p + 3]
    BY <1>0, <1>1 DEF NumSteps
  <2>2. b[p + 1] \in Nat
    <3>1. p + 1 \in 1 .. Len(b)
      BY <1>0, <1>1
    <3> QED BY <1>0, <3>1
  <2>3. t[1] = b[p + 1]
    BY ONLY <1>z, <2>1, <2>2
  <2> QED BY <2>1, <2>2, <2>3
<1>2. ASSUME NEW w \in Nat, p + w <= Len(b)
      PROVE  \E t \in [0 .. w -> Nat] : NumSteps(t, b, p, w) /\ Num(b, p, w) = t[w]
  BY <1>2, NumIs
<1>3. 1 \in Nat /\ 2 \in Nat /\ 3 \in Nat
  OBVIOUS
<1>4. p + 1 <= Len(b) => Num(b, p, 1) = b[p + 1] /\ b[p + 1] \in Nat
  BY <1>1, <1>2, <1>3
<1>5. p + 2 <= Len(b) => Num(b, p, 2) = 256 * b[p + 1] + b[p + 2]
  BY <1>1, <1>2, <1>3
<1>6. p + 3 <= Len(b) => Num(b, p, 3) = 256 * (256 * b[p + 1] + b[p + 2]) + b[p + 3]
  <2> SUFFICES ASSUME p + 3 <= Len(b)
               PROVE  Num(b, p, 3) = 256 * (256 * b[p + 1] + b[p + 2]) + b[p + 3]
    OBVIOUS
  <2>1. PICK t \in [0 .. 3 -> Nat] : NumSteps(t, b, p, 3) /\ Num(b, p, 3) = t[3]
    BY <1>2, <1>3
  <2>2. t[1] = b[p + 1] /\ t[2] = 256 * t[1] + b[p + 2] /\ t[3] = 256 * t[2] + b[p + 3]
    <3>1. /\ t[1] = 256 * t[0] + b[p + 1] /\ t[0] = 0
          /\ t[2] = 256 * t[1] + b[p + 2] /\ t[3] = 256 * t[2] + b[p + 3]
      <4>1. t[0] = 0 /\ \A i \in 1 .. 3 : t[i] = 256 * t[i - 1] + b[p + i]
        BY ONLY <2>1 DEF NumSteps
      <4>2. 1 \in 1 .. 3 /\ 2 \in 1 .. 3 /\ 3 \in 1 .. 3
        OBVIOUS
      <4> QED BY ONLY <1>0, <4>1, <4>2
    <3>2. p + 1 \in 1 .. Len(b)
      BY <1>0
    <3>3. b[p + 1] \in Nat
      BY <1>0, <3>2
    <3>4. t[1] = b[p + 1]
      BY ONLY <1>z, <3>1, <3>3
    <3> QED BY <3>1, <3>4
  <2> QED BY <2>1, <2>2
<1> QED BY <1>4, <1>5, <1>6

LEMMA Num1 ==
  ASSUME NEW b \in Seq(Byte), NEW p \in Nat, p + 1 <= Len(b)
  PROVE  Num(b, p, 1) = b[p + 1] /\ Num(b, p, 1) \in Nat
BY Nums

LEMMA Num2 ==
  ASSUME NEW b \in Seq(Byte), NEW p \in Nat, p + 2 <= Len(b)
  PROVE  Num(b, p, 2) = 256 * b[p + 1] + b[p + 2] /\ Num(b, p, 2) \in Nat
<1>1. Num(b, p, 2) = 256 * b[p + 1] + b[p + 2]
  BY Nums
<1>2. 2 \in Nat
  OBVIOUS
<1>3. PICK t \in [0 .. 2 -> Nat] : NumSteps(t, b, p, 2) /\ Num(b, p, 2) = t[2]
  BY <1>2, NumIs
<1> QED BY <1>1, <1>3

\* The two bytes of a number, and the number in the two bytes.
LEMMA U16Is ==
  ASSUME NEW v \in Nat, v < 65536
  PROVE  U16(v) \in Seq(Byte) /\ Len(U16(v)) = 2 /\ 256 * U16(v)[1] + U16(v)[2] = v
<1>1. v \div 256 \in 0 .. 255 /\ v % 256 \in 0 .. 255 /\ 256 * (v \div 256) + (v % 256) = v
  OBVIOUS
<1> HIDE DEF Byte
<1>2. v \div 256 \in Byte /\ v % 256 \in Byte
  BY <1>1 DEF Byte
<1> QED BY <1>1, <1>2 DEF U16

LEMMA Read16 ==
  ASSUME NEW b \in Seq(Byte), NEW p \in Nat, NEW v \in Nat, v < 65536,
         Lies(b, p, U16(v)), p + 2 <= Len(b)
  PROVE  Num(b, p, 2) = v /\ VectorEnd(b, p, 2) = p + 2 + v
<1>1. b[p + 1] = U16(v)[1] /\ b[p + 2] = U16(v)[2] /\ 256 * U16(v)[1] + U16(v)[2] = v
  BY U16Is DEF Lies
<1>2. Num(b, p, 2) = 256 * b[p + 1] + b[p + 2]
  BY Num2
<1> QED BY <1>1, <1>2 DEF VectorEnd

LEMMA SmallByte == \A v \in Nat : v <= 255 => v \in Byte
BY DEF Byte

\* A name behind its length.
LEMMA NameIs ==
  ASSUME NEW x \in Seq(Byte), Len(x) <= 255
  PROVE  Named(x) \in Seq(Byte) /\ Len(Named(x)) = Len(x) + 1
<1>1. Len(x) \in Byte
  BY SmallByte, Len(x) \in Nat
<1> QED BY <1>1 DEF Named

LEMMA ReadName ==
  ASSUME NEW b \in Seq(Byte), NEW p \in Nat, NEW x \in Seq(Byte), Len(x) <= 255,
         Lies(b, p, Named(x)), p + (Len(x) + 1) <= Len(b)
  PROVE  /\ b[p + 1] = Len(x) /\ VectorEnd(b, p, 1) = p + (Len(x) + 1)
         /\ SubSeq(b, p + 2, p + (Len(x) + 1)) = x
<1>0. Len(x) \in Nat /\ Len(b) \in Nat
  OBVIOUS
<1> DEFINE y == <<Len(x)>>
<1>1. y \in Seq(Byte) /\ Len(y) = 1 /\ y[1] = Len(x)
  BY <1>0, SmallByte
<1>2. Lies(b, p, y) /\ Lies(b, p + 1, x)
  <2>1. Lies(b, p, y \o x)
    BY DEF Named
  <2> HIDE DEF y
  <2> QED BY <1>1, <2>1, LiesParts
<1> HIDE DEF y
<1>3. b[p + 1] = Len(x)
  BY <1>1, <1>2 DEF Lies
<1>4. VectorEnd(b, p, 1) = p + (Len(x) + 1)
  <2>1. p + 1 <= Len(b)
    BY <1>0
  <2>2. Num(b, p, 1) = Len(x)
    BY <1>3, <2>1, Num1
  <2> QED BY <1>0, <2>2 DEF VectorEnd
<1>5. SubSeq(b, p + 2, p + (Len(x) + 1)) = x
  <2> DEFINE s == SubSeq(b, p + 2, p + (Len(x) + 1))
  <2>1. s \in Seq(Byte) /\ Len(s) = Len(x) /\ \A j \in 1 .. Len(x) : s[j] = b[(p + 2) + j - 1]
    BY <1>0
  <2>2. ASSUME NEW j \in 1 .. Len(x) PROVE s[j] = x[j]
    <3>1. (p + 2) + j - 1 = (p + 1) + j
      BY <1>0
    <3>2. b[(p + 1) + j] = x[j]
      BY <1>2 DEF Lies
    <3> HIDE DEF s
    <3> QED BY <2>1, <3>1, <3>2
  <2> HIDE DEF s
  <2> QED BY <2>1, <2>2
<1> QED BY <1>3, <1>4, <1>5

IsNames(protos) ==
  protos \in Seq(Seq(Byte)) /\ \A i \in 1 .. Len(protos) : Len(protos[i]) \in NameLength
Wires(protos) == [i \in 1 .. Len(protos) |-> Named(protos[i])]
\* c[i] is where the i-th name ends in the list.
NamesEnd(protos, c, b, p) ==
  /\ c \in [0 .. Len(protos) -> Nat] /\ c[0] = 0 /\ c[Len(protos)] = Len(AlpnWire(protos))
  /\ \A i \in 1 .. Len(protos) :
       /\ c[i] = c[i - 1] + (Len(protos[i]) + 1) /\ c[i] <= Len(AlpnWire(protos))
       /\ Lies(b, p + c[i - 1], Named(protos[i]))

\* What names are, one by one.
LEMMA NamesAre ==
  ASSUME NEW protos, IsNames(protos)
  PROVE  /\ Len(protos) \in Nat /\ DOMAIN protos = 1 .. Len(protos)
         /\ \A i \in 1 .. Len(protos) :
              /\ protos[i] \in Seq(Byte) /\ Len(protos[i]) \in NameLength
              /\ Len(protos[i]) \in Nat /\ Len(protos[i]) <= 255 /\ Len(protos[i]) # 0
<1>1. protos \in Seq(Seq(Byte)) /\ \A i \in 1 .. Len(protos) : Len(protos[i]) \in NameLength
  BY DEF IsNames
<1>2. ASSUME NEW S, NEW s \in Seq(S)
      PROVE  Len(s) \in Nat /\ DOMAIN s = 1 .. Len(s) /\ \A i \in 1 .. Len(s) : s[i] \in S
  OBVIOUS
<1>3. \A k \in NameLength : k \in Nat /\ k <= 255 /\ k # 0
  BY DEF NameLength
<1> QED BY ONLY <1>1, <1>2, <1>3

LEMMA WireIs ==
  ASSUME NEW protos, IsNames(protos), NEW b, NEW p \in Nat, Lies(b, p, AlpnWire(protos))
  PROVE  AlpnWire(protos) \in Seq(Byte) /\ \E c : NamesEnd(protos, c, b, p)
<1> DEFINE q == Wires(protos)
           n == Len(protos)
           r == AlpnWire(protos)
<1>0. /\ n \in Nat
      /\ \A i \in 1 .. n : protos[i] \in Seq(Byte) /\ Len(protos[i]) <= 255
  BY NamesAre
<1>1. \A i \in 1 .. n : Named(protos[i]) \in Seq(Byte) /\ Len(Named(protos[i])) = Len(protos[i]) + 1
  <2> SUFFICES ASSUME NEW i \in 1 .. n
               PROVE  Named(protos[i]) \in Seq(Byte) /\ Len(Named(protos[i])) = Len(protos[i]) + 1
    OBVIOUS
  <2>1. protos[i] \in Seq(Byte) /\ Len(protos[i]) <= 255
    BY <1>0
  <2> QED BY <2>1, NameIs
<1>2. q \in Seq(Seq(Byte)) /\ Len(q) = n /\ \A i \in 1 .. n : q[i] = Named(protos[i])
  BY <1>0, <1>1 DEF Wires
<1>3. r = FlattenSeq(q)
  BY DEF AlpnWire, Wires
<1>4. r \in Seq(Byte) /\ \E c : Joins(q, c, r)
  <2> HIDE DEF q, r
  <2> QED BY <1>2, <1>3, Flattened
<1>5. PICK c : Joins(q, c, r)
  BY <1>4
<1>6. ASSUME NEW i \in 1 .. n
      PROVE  /\ c[i] = c[i - 1] + (Len(protos[i]) + 1) /\ c[i] <= Len(r)
             /\ Lies(b, p + c[i - 1], Named(protos[i]))
  <2> DEFINE s == Named(protos[i])
             k == c[i - 1]
  <2>1. /\ c[i] = c[i - 1] + Len(q[i]) /\ c[i] <= Len(r) /\ Lies(r, c[i - 1], q[i])
        /\ c[i - 1] \in Nat
    <3>1. i - 1 \in 0 .. n
      BY <1>0
    <3> HIDE DEF q, r, n
    <3> QED BY <1>2, <1>5, <3>1 DEF Joins
  <2>2. q[i] = s /\ s \in Seq(Byte) /\ Len(s) = Len(protos[i]) + 1 /\ k \in Nat
    BY <1>1, <1>2, <2>1
  <2>3. Lies(r, k, s) /\ k + Len(s) <= Len(r)
    <3> HIDE DEF q, r, n, s
    <3> QED BY <2>1, <2>2
  <2>4. Lies(b, p + k, s)
    <3> HIDE DEF q, r, n, s, k
    <3> QED BY <1>4, <2>2, <2>3, LiesWithin, Lies(b, p, r) DEF r
  <2> HIDE DEF q
  <2> QED BY <2>1, <2>2, <2>4
<1>7. c \in [0 .. n -> Nat] /\ c[0] = 0 /\ c[n] = Len(r)
  <2> HIDE DEF q, r, n
  <2> QED BY <1>2, <1>5 DEF Joins
<1>8. NamesEnd(protos, c, b, p)
  BY <1>6, <1>7 DEF NamesEnd
<1> QED BY <1>4, <1>8

\* A list of names behind its length, whole in b.
Listed(b, p, protos) ==
  LET list == AlpnWire(protos) IN
  /\ IsNames(protos) /\ Len(list) < 65536
  /\ Lies(b, p, U16(Len(list))) /\ Lies(b, p + 2, list)
  /\ p + 2 + Len(list) <= Len(b)

\* The loop over the names of such a list finds acme-tls/1 wherever it stands.
LEMMA AcmeIs ==
  ASSUME NEW b \in Seq(Byte), NEW p \in Nat, NEW protos, Listed(b, p, protos)
  PROVE  AlpnHasAcme(b, p, p + 2 + Len(AlpnWire(protos))) <=>
           \E i \in 1 .. Len(protos) : protos[i] = ACME_ALPN
<1> DEFINE e == p + 2 + Len(AlpnWire(protos))
           n == Len(protos)
           Hit(q) == SubSeq(b, q + 2, VectorEnd(b, q, 1)) = ACME_ALPN
           Is(g) == g = [q \in Nat |-> /\ HasVector(b, q, 1, e)
                                       /\ \/ Hit(q)
                                          \/ g[VectorEnd(b, q, 1)]]
           from == CHOOSE g : Is(g)
<1>0. /\ n \in Nat /\ Len(b) \in Nat
      /\ \A i \in 1 .. n : /\ protos[i] \in Seq(Byte)
                           /\ Len(protos[i]) \in Nat /\ Len(protos[i]) <= 255
  <2> HIDE DEF e, Hit, Is, from
  <2>1. IsNames(protos)
    BY DEF Listed
  <2>2. n \in Nat /\ \A i \in 1 .. n : /\ protos[i] \in Seq(Byte)
                                       /\ Len(protos[i]) \in Nat /\ Len(protos[i]) <= 255
    BY <2>1, NamesAre
  <2> HIDE DEF n
  <2>3. Len(b) \in Nat
    BY ONLY b \in Seq(Byte)
  <2> QED BY <2>2, <2>3
<1>1. AlpnWire(protos) \in Seq(Byte) /\ \E c : NamesEnd(protos, c, b, p + 2)
  <2>1. IsNames(protos) /\ Lies(b, p + 2, AlpnWire(protos)) /\ p + 2 \in Nat
    BY DEF Listed
  <2> QED BY <2>1, WireIs
<1>e. e \in Nat /\ e <= Len(b)
  BY <1>1 DEF Listed
<1>2. VectorEnd(b, p, 2) = e /\ HasVector(b, p, 2, e)
  <2> DEFINE v == Len(AlpnWire(protos))
  <2>1. v \in Nat /\ v < 65536 /\ p + 2 <= Len(b)
    <3>1. v < 65536 /\ p + 2 + v <= Len(b)
      BY DEF Listed
    <3>2. v \in Nat
      BY <1>1
    <3>3. \A j, k \in Nat : p + 2 + j <= k => p + 2 <= k
      OBVIOUS
    <3> HIDE DEF v
    <3> QED BY ONLY <1>0, <3>1, <3>2, <3>3
  <2>2. VectorEnd(b, p, 2) = p + 2 + v
    <3> HIDE DEF v
    <3>1. Lies(b, p, U16(v))
      BY DEF Listed, v
    <3> QED BY <2>1, <3>1, Read16
  <2>3. p + 2 <= e
    BY <2>1
  <2> QED BY <2>2, <2>3, <1>e DEF HasVector, Has
<1> DEFINE next == [q \in Nat |-> IF HasVector(b, q, 1, e) THEN VectorEnd(b, q, 1) ELSE q + 1]
           step == [q \in Nat |-> [x \in BOOLEAN |-> HasVector(b, q, 1, e) /\ (Hit(q) \/ x)]]
<1>4. ASSUME NEW q \in Nat, HasVector(b, q, 1, e)
      PROVE  VectorEnd(b, q, 1) \in Nat /\ q < VectorEnd(b, q, 1) /\ VectorEnd(b, q, 1) <= e /\ q < e
  <2>1. q + 1 <= e /\ VectorEnd(b, q, 1) <= e
    BY <1>4 DEF HasVector, Has
  <2>2. q + 1 <= Len(b)
    BY <1>0, <1>e, <2>1
  <2>3. Num(b, q, 1) \in Nat
    BY <2>2, Num1
  <2> QED BY <1>e, <2>1, <2>3 DEF VectorEnd
<1>5. \E g \in [Nat -> BOOLEAN] : Is(g)
  <2>1. next \in [Nat -> Nat] /\ Forward(next, e)
    BY <1>4 DEF Forward
  <2>2. step \in [Nat -> [BOOLEAN -> BOOLEAN]] /\ FALSE \in BOOLEAN
    OBVIOUS
  <2>3. PICK g \in [Nat -> BOOLEAN] : Ahead(g, e, FALSE, next, step)
    <3> DEFINE Z == BOOLEAN
    <3> HIDE DEF Z, step, next, e
    <3>1. step \in [Nat -> [Z -> Z]] /\ FALSE \in Z
      BY <2>2 DEF Z
    <3>2. \E g \in [Nat -> Z] : Ahead(g, e, FALSE, next, step)
      BY <1>e, <2>1, <3>1, RecursionAhead
    <3> QED BY <3>2 DEF Z
  <2>4. ASSUME NEW q \in Nat
        PROVE  g[q] = (HasVector(b, q, 1, e) /\ (Hit(q) \/ g[VectorEnd(b, q, 1)]))
    <3>0. g[q] = IF q < e THEN step[q][g[next[q]]] ELSE FALSE
      <4> HIDE DEF step, next, e
      <4> QED BY <2>3 DEF Ahead
    <3>1. CASE HasVector(b, q, 1, e)
      <4>1. q < e /\ next[q] = VectorEnd(b, q, 1) /\ next[q] \in Nat
        BY <1>4, <3>1
      <4>2. g[next[q]] \in BOOLEAN
        <5> HIDE DEF next
        <5> QED BY <4>1
      <4>3. step[q][g[next[q]]] = (Hit(q) \/ g[next[q]])
        <5> HIDE DEF Hit, next
        <5> QED BY <3>1, <4>2
      <4> HIDE DEF step, next, Hit
      <4> QED BY <3>0, <3>1, <4>1, <4>3
    <3>2. CASE ~HasVector(b, q, 1, e)
      <4>1. next[q] \in Nat
        BY <3>2
      <4>2. g[next[q]] \in BOOLEAN
        <5> HIDE DEF next
        <5> QED BY <4>1
      <4>3. step[q][g[next[q]]] = FALSE
        <5> HIDE DEF Hit, next
        <5> QED BY <3>2, <4>2
      <4> HIDE DEF step, next, Hit
      <4> QED BY <3>0, <3>2, <4>3
    <3> QED BY <3>1, <3>2
  <2>5. Is(g)
    <3> HIDE DEF Hit
    <3> QED BY <2>4
  <2> HIDE DEF Is
  <2> QED BY <2>5
<1>6. Is(from)
  <2> HIDE DEF Is
  <2> QED BY <1>5
<1>7. ASSUME NEW q \in Nat
      PROVE  from[q] <=> (HasVector(b, q, 1, e) /\ (Hit(q) \/ from[VectorEnd(b, q, 1)]))
  <2>1. from[q] = (HasVector(b, q, 1, e) /\ (Hit(q) \/ from[VectorEnd(b, q, 1)]))
    <3> HIDE DEF from, Hit
    <3> QED BY <1>6
  <2> HIDE DEF from, Hit
  <2> QED BY <2>1
<1>3. AlpnHasAcme(b, p, e) <=> from[p + 2]
  <2> DEFINE loop(end) ==
        CHOOSE g : g = [q \in Nat |-> /\ HasVector(b, q, 1, end)
                                      /\ \/ SubSeq(b, q + 2, VectorEnd(b, q, 1)) = ACME_ALPN
                                         \/ g[VectorEnd(b, q, 1)]]
  <2>1. AlpnHasAcme(b, p, e) <=> HasVector(b, p, 2, e) /\ loop(VectorEnd(b, p, 2))[p + 2]
    <3> HIDE DEF e
    <3> QED BY DEF AlpnHasAcme
  <2>2. loop(e) = from
    OBVIOUS
  <2> HIDE DEF loop, from, e
  <2> QED BY <1>2, <2>1, <2>2
<1>8. PICK c : NamesEnd(protos, c, b, p + 2)
  BY <1>1
<1> DEFINE at(i) == p + 2 + c[i]
           Right(i) == from[at(i)] <=> \E j \in i + 1 .. n : protos[j] = ACME_ALPN
           T == {i \in 0 .. n : Right(i)}
<1>c. /\ \A i \in 0 .. n : c[i] \in Nat
      /\ at(n) = e /\ at(0) = p + 2
      /\ \A i \in 1 .. n : /\ c[i] = c[i - 1] + (Len(protos[i]) + 1) /\ at(i) <= e
                           /\ Lies(b, at(i - 1), Named(protos[i]))
  <2>1. /\ c \in [0 .. n -> Nat] /\ c[n] = Len(AlpnWire(protos)) /\ c[0] = 0
        /\ \A i \in 1 .. n : /\ c[i] = c[i - 1] + (Len(protos[i]) + 1)
                             /\ c[i] <= Len(AlpnWire(protos))
                             /\ Lies(b, at(i - 1), Named(protos[i]))
    BY <1>8 DEF NamesEnd
  <2>2. /\ \A i \in 0 .. n : c[i] \in Nat
        /\ Len(AlpnWire(protos)) \in Nat
    <3>1. Len(AlpnWire(protos)) \in Nat
      BY <1>1
    <3> HIDE DEF n
    <3> QED BY ONLY <2>1, <3>1
  <2>3. \A i \in 1 .. n : at(i) <= e
    <3> SUFFICES ASSUME NEW i \in 1 .. n PROVE at(i) <= e
      OBVIOUS
    <3>1. c[i] \in Nat /\ c[i] <= Len(AlpnWire(protos))
      BY <2>1, <2>2
    <3>2. \A j, k \in Nat : j <= k => p + 2 + j <= p + 2 + k
      OBVIOUS
    <3> QED BY ONLY <2>2, <3>1, <3>2
  <2>4. at(n) = e /\ at(0) = p + 2
    BY <2>1
  <2> HIDE DEF at, n
  <2> QED BY <2>1, <2>2, <2>3, <2>4
<1>9. n \in T
  <2>1. ~HasVector(b, e, 1, e)
    BY <1>e DEF HasVector, Has
  <2>2. ~from[at(n)]
    <3> HIDE DEF from, Hit, e
    <3> QED BY <1>7, <1>c, <1>e, <2>1
  <2> HIDE DEF from, at
  <2> QED BY <1>0, <2>2
<1>10. ASSUME NEW i \in 1 .. n, i \in T PROVE i - 1 \in T
  <2> DEFINE x == protos[i]
             q == at(i - 1)
  <2>1. /\ x \in Seq(Byte) /\ Len(x) <= 255 /\ Len(x) \in Nat /\ q \in Nat
        /\ at(i) = q + (Len(x) + 1) /\ at(i) <= e /\ Lies(b, q, Named(x)) /\ at(i) <= Len(b)
        /\ i - 1 \in 0 .. n
    <3>0. i - 1 \in 0 .. n /\ i \in 1 .. n
      BY <1>0
    <3>1. Len(x) <= 255 /\ Len(x) \in Nat /\ x \in Seq(Byte)
      BY ONLY <1>0, <3>0
    <3>b. c[i - 1] \in Nat /\ c[i] = c[i - 1] + (Len(x) + 1)
      <4> HIDE DEF n, at
      <4> QED BY ONLY <1>c, <3>0
    <3>2. Len(x) <= 255 /\ Len(x) \in Nat /\ q \in Nat
      <4>1. \A j \in Nat : p + 2 + j \in Nat
        OBVIOUS
      <4> HIDE DEF x
      <4> QED BY ONLY <3>1, <3>b, <4>1 DEF q, at
    <3>3. at(i) = q + (Len(x) + 1)
      <4>1. \A j, k \in Nat : p + 2 + (j + (k + 1)) = (p + 2 + j) + (k + 1)
        OBVIOUS
      <4> HIDE DEF x
      <4> QED BY ONLY <3>1, <3>b, <4>1 DEF at
    <3>4. at(i) <= Len(b)
      BY <1>0, <1>c, <1>e, <3>2, <3>3
    <3> HIDE DEF at, n
    <3> QED BY <1>c, <3>0, <3>1, <3>2, <3>3, <3>4
  <2>2. /\ VectorEnd(b, q, 1) = at(i)
        /\ SubSeq(b, q + 2, at(i)) = x
    <3> HIDE DEF at, x, q
    <3> QED BY <2>1, ReadName
  <2>3. HasVector(b, q, 1, e)
    <3> HIDE DEF at, x, e, n
    <3> QED BY <1>e, <2>1, <2>2 DEF HasVector, Has
  <2>4. from[q] <=> (x = ACME_ALPN \/ from[at(i)])
    <3>1. from[q] <=> (HasVector(b, q, 1, e) /\ (Hit(q) \/ from[VectorEnd(b, q, 1)]))
      <4> HIDE DEF from, at, q, e, Hit
      <4> QED BY <1>7, <2>1
    <3>2. Hit(q) <=> x = ACME_ALPN
      <4> HIDE DEF from, at, q, e, x
      <4> QED BY <2>2
    <3> HIDE DEF from, at, x, q, e, Hit
    <3> QED BY <2>2, <2>3, <3>1, <3>2
  <2>5. Right(i)
    BY <1>10
  <2>6. Right(i - 1)
    <3> HIDE DEF from, at
    <3>1. i \in 1 .. n /\ n \in Nat
      BY <1>0
    <3>2. (\E j \in (i - 1) + 1 .. n : protos[j] = ACME_ALPN) <=>
             x = ACME_ALPN \/ \E j \in i + 1 .. n : protos[j] = ACME_ALPN
      <4>1. \A j : j \in (i - 1) + 1 .. n <=> j = i \/ j \in i + 1 .. n
        <5> HIDE DEF n
        <5> QED BY <3>1
      <4> QED BY <4>1
    <3> HIDE DEF n, x
    <3> QED BY <2>4, <2>5, <3>2
  <2> HIDE DEF Right, n
  <2> QED BY <2>1, <2>6
<1>11. 0 \in T
  <2>1. \A i \in 0 .. n : i \in T
    <3> HIDE DEF T, n
    <3> QED BY <1>0, <1>9, <1>10, Backwards
  <2>2. 0 \in 0 .. n
    BY <1>0
  <2> HIDE DEF T
  <2> QED BY <2>1, <2>2
<1>12. from[p + 2] <=> \E j \in 1 .. n : protos[j] = ACME_ALPN
  <2>1. Right(0) /\ 0 + 1 = 1
    <3> HIDE DEF Right
    <3> QED BY <1>11
  <2> HIDE DEF from, n
  <2> QED BY <1>c, <2>1
<1> HIDE DEF from
<1> QED BY <1>3, <1>12

\* AlpnIter (tls_server.rs:246) gives back the names alpn_wire (tls_server.rs:262)
\* was given, as long as each has a length a byte can hold and is not empty.
THEOREM ProtocolsAre ==
  ASSUME NEW protos, IsNames(protos)
  PROVE  AlpnProtocols(AlpnWire(protos)) = {protos[i] : i \in 1 .. Len(protos)}
<1> DEFINE b == AlpnWire(protos)
           e == Len(b)
           n == Len(protos)
           More(q) == HasVector(b, q, 1, e) /\ b[q + 1] # 0
           Is(g) == g = [q \in 0 .. e |->
                           IF More(q) THEN {SubSeq(b, q + 2, VectorEnd(b, q, 1))}
                                             \cup g[VectorEnd(b, q, 1)]
                           ELSE {}]
           from == CHOOSE g : Is(g)
           S == SUBSET Seq(Nat)
           next == [q \in Nat |-> IF HasVector(b, q, 1, e) THEN VectorEnd(b, q, 1) ELSE q + 1]
           step == [q \in Nat |->
                     [x \in S |-> IF More(q) THEN {SubSeq(b, q + 2, VectorEnd(b, q, 1))} \cup x
                                  ELSE {}]]
<1>0. /\ n \in Nat
      /\ \A i \in 1 .. n : /\ protos[i] \in Seq(Byte)
                           /\ Len(protos[i]) \in Nat /\ Len(protos[i]) <= 255 /\ Len(protos[i]) # 0
  <2> HIDE DEF b, e, More, Is, from, S, next, step
  <2> QED BY NamesAre
<1>1. b \in Seq(Byte) /\ \E c : NamesEnd(protos, c, b, 0)
  <2>1. Lies(b, 0, b)
    BY DEF Lies
  <2> HIDE DEF b
  <2>2. 0 \in Nat
    OBVIOUS
  <2> QED BY <2>1, <2>2, WireIs DEF b
<1>e. e \in Nat
  <2> HIDE DEF b
  <2> QED BY <1>1
<1>4. ASSUME NEW q \in Nat, HasVector(b, q, 1, e)
      PROVE  /\ VectorEnd(b, q, 1) \in Nat /\ q < VectorEnd(b, q, 1)
             /\ VectorEnd(b, q, 1) <= e /\ q < e
             /\ SubSeq(b, q + 2, VectorEnd(b, q, 1)) \in Seq(Nat)
  <2> HIDE DEF b
  <2>1. q + 1 <= e /\ VectorEnd(b, q, 1) <= e
    BY <1>4 DEF HasVector, Has
  <2>2. q \in Nat /\ q + 1 <= Len(b)
    BY <2>1
  <2>3. Num(b, q, 1) \in Nat
    <3> HIDE DEF e
    <3> QED BY <1>1, <2>2, Num1
  <2>4. VectorEnd(b, q, 1) \in Nat /\ q < VectorEnd(b, q, 1) /\ q < e
    BY <1>e, <2>1, <2>3 DEF VectorEnd
  <2>5. SubSeq(b, q + 2, VectorEnd(b, q, 1)) \in Seq(Nat)
    <3> DEFINE z == VectorEnd(b, q, 1)
    <3> HIDE DEF z
    <3>1. \A x \in Byte : x \in Nat
      BY DEF Byte
    <3>2. b \in Seq(Nat)
      BY <1>1, <3>1, SeqWider, Byte \subseteq Nat
    <3>3. z \in Nat /\ z <= Len(b)
      BY <2>1, <2>4 DEF z
    <3>4. SubSeq(b, q + 2, z) \in Seq(Nat)
      BY <3>2, <3>3
    <3> QED BY <3>4 DEF z
  <2> QED BY <2>1, <2>4, <2>5
<1>5. \E g : Is(g)
  <2>1. next \in [Nat -> Nat] /\ Forward(next, e)
    <3> HIDE DEF b, e
    <3> QED BY <1>4 DEF Forward
  <2>2. step \in [Nat -> [S -> S]] /\ {} \in S
    <3>1. ASSUME NEW q \in Nat, NEW x \in S, More(q)
          PROVE  {SubSeq(b, q + 2, VectorEnd(b, q, 1))} \cup x \in S
      <4>1. SubSeq(b, q + 2, VectorEnd(b, q, 1)) \in Seq(Nat)
        <5> HIDE DEF b, e
        <5> QED BY <1>4, <3>1
      <4> DEFINE z == SubSeq(b, q + 2, VectorEnd(b, q, 1))
      <4> HIDE DEF z
      <4> QED BY <4>1 DEF z
    <3> HIDE DEF More, S, b
    <3>2. {} \in S
      BY DEF S
    <3> QED BY <3>1, <3>2
  <2>3. PICK g \in [Nat -> S] : Ahead(g, e, {}, next, step)
    <3> HIDE DEF S, step, next, e
    <3> QED BY <1>e, <2>1, <2>2, RecursionAhead
  <2> DEFINE h == [q \in 0 .. e |-> g[q]]
  <2>4. ASSUME NEW q \in 0 .. e
        PROVE  h[q] = IF More(q) THEN {SubSeq(b, q + 2, VectorEnd(b, q, 1))}
                                       \cup h[VectorEnd(b, q, 1)]
                      ELSE {}
    <3>q. q \in Nat
      BY <1>e
    <3>0. g[q] = IF q < e THEN step[q][g[next[q]]] ELSE {}
      <4> HIDE DEF step, next, e
      <4> QED BY <2>3, <3>q DEF Ahead
    <3>1. CASE More(q)
      <4>1. q < e /\ next[q] = VectorEnd(b, q, 1) /\ next[q] \in 0 .. e /\ next[q] \in Nat
        <5> HIDE DEF b, e
        <5> QED BY <1>4, <1>e, <3>1, <3>q
      <4>2. g[next[q]] \in S
        <5> HIDE DEF next, S
        <5> QED BY <4>1
      <4>3. step[q][g[next[q]]] = {SubSeq(b, q + 2, VectorEnd(b, q, 1))} \cup g[next[q]]
        <5> HIDE DEF More, next, S, b
        <5> QED BY <3>1, <3>q, <4>2
      <4>4. h[q] = g[q] /\ h[next[q]] = g[next[q]]
        <5> HIDE DEF next, e, b
        <5> QED BY <4>1
      <4> HIDE DEF step, next, More, h, b, e
      <4> QED BY <3>0, <3>1, <4>1, <4>3, <4>4
    <3>2. CASE ~More(q)
      <4>1. next[q] \in Nat
        <5> HIDE DEF b, e
        <5> QED BY <1>4, <3>q
      <4>2. g[next[q]] \in S
        <5> HIDE DEF next, S
        <5> QED BY <4>1
      <4>3. step[q][g[next[q]]] = {}
        <5> HIDE DEF More, next, S, b
        <5> QED BY <3>2, <3>q, <4>2
      <4>4. h[q] = g[q]
        OBVIOUS
      <4> HIDE DEF step, next, More, h, b, e
      <4> QED BY <3>0, <3>2, <4>3, <4>4
    <3> QED BY <3>1, <3>2
  <2>5. Is(h)
    <3> HIDE DEF More, b, e
    <3> QED BY <2>4
  <2> HIDE DEF Is, h
  <2> QED BY <2>5
<1>6. Is(from)
  <2> HIDE DEF Is
  <2> QED BY <1>5
<1>7. ASSUME NEW q \in 0 .. e
      PROVE  from[q] = IF More(q) THEN {SubSeq(b, q + 2, VectorEnd(b, q, 1))}
                                        \cup from[VectorEnd(b, q, 1)]
                       ELSE {}
  <2> HIDE DEF from, More, b, e
  <2> QED BY <1>6
<1>3. AlpnProtocols(b) = from[0]
  BY DEF AlpnProtocols
<1>8. PICK c : NamesEnd(protos, c, b, 0)
  BY <1>1
<1> DEFINE Right(i) == from[c[i]] = {protos[j] : j \in i + 1 .. n}
           T == {i \in 0 .. n : Right(i)}
<1>c. /\ \A i \in 0 .. n : c[i] \in Nat
      /\ c[n] = e /\ c[0] = 0
      /\ \A i \in 1 .. n : /\ c[i] = c[i - 1] + (Len(protos[i]) + 1) /\ c[i] <= e
                           /\ Lies(b, c[i - 1], Named(protos[i]))
  <2>1. /\ c \in [0 .. n -> Nat] /\ c[n] = e /\ c[0] = 0
        /\ \A i \in 1 .. n : /\ c[i] = c[i - 1] + (Len(protos[i]) + 1) /\ c[i] <= e
                             /\ Lies(b, 0 + c[i - 1], Named(protos[i]))
    BY <1>8 DEF NamesEnd
  <2>2. ASSUME NEW i \in 1 .. n PROVE 0 + c[i - 1] = c[i - 1]
    <3>1. i - 1 \in 0 .. n
      BY <1>0
    <3> HIDE DEF b, e, n
    <3>2. c[i - 1] \in Nat
      BY <2>1, <3>1
    <3> QED BY <3>2
  <2> HIDE DEF b, e, n
  <2> QED BY <2>1, <2>2
<1>9. n \in T
  <2>1. ~HasVector(b, e, 1, e)
    BY <1>e DEF HasVector, Has
  <2>2. from[c[n]] = {}
    <3>1. e \in 0 .. e /\ c[n] = e
      <4> HIDE DEF e, b
      <4> QED BY <1>c, <1>e
    <3>2. ~More(e)
      <4> HIDE DEF e, b
      <4> QED BY <2>1
    <3> HIDE DEF from, e, b, More
    <3> QED BY <1>7, <3>1, <3>2
  <2>3. {protos[j] : j \in n + 1 .. n} = {}
    BY <1>0
  <2> HIDE DEF from
  <2> QED BY <1>0, <2>2, <2>3
<1>10. ASSUME NEW i \in 1 .. n, i \in T PROVE i - 1 \in T
  <2> DEFINE x == protos[i]
             q == c[i - 1]
  <2>1. /\ x \in Seq(Byte) /\ Len(x) <= 255 /\ Len(x) \in Nat /\ Len(x) # 0 /\ q \in 0 .. e
        /\ c[i] = q + (Len(x) + 1) /\ c[i] <= e /\ Lies(b, q, Named(x)) /\ q \in Nat
        /\ i - 1 \in 0 .. n
    <3>0. i - 1 \in 0 .. n /\ i \in 1 .. n
      BY <1>0
    <3>1. Len(x) <= 255 /\ Len(x) \in Nat /\ Len(x) # 0 /\ x \in Seq(Byte)
      BY ONLY <1>0, <3>0
    <3>2. Len(x) <= 255 /\ Len(x) \in Nat /\ q \in Nat /\ Len(x) # 0
      <4> HIDE DEF n, e
      <4> QED BY ONLY <1>c, <3>0, <3>1
    <3>3. c[i] = q + (Len(x) + 1) /\ c[i] <= e
      BY <1>c
    <3>4. q \in 0 .. e
      <4> HIDE DEF e, q, x
      <4> QED BY <1>e, <3>2, <3>3
    <3> HIDE DEF n, e
    <3> QED BY <1>c, <3>0, <3>1, <3>2, <3>3, <3>4
  <2>2. /\ VectorEnd(b, q, 1) = c[i]
        /\ SubSeq(b, q + 2, c[i]) = x
        /\ b[q + 1] = Len(x)
    <3> HIDE DEF x, q, b
    <3> QED BY <1>1, <2>1, ReadName
  <2>3. More(q)
    <3>1. HasVector(b, q, 1, e)
      <4> HIDE DEF x, e, n, q, b
      <4> QED BY <1>e, <2>1, <2>2 DEF HasVector, Has
    <3> HIDE DEF x, e, n, q, b
    <3> QED BY <2>1, <2>2, <3>1
  <2>4. from[q] = {x} \cup from[c[i]]
    <3> HIDE DEF from, x, q, e, b, More
    <3> QED BY <1>7, <2>1, <2>2, <2>3
  <2>5. Right(i)
    BY <1>10
  <2>6. Right(i - 1)
    <3> HIDE DEF from
    <3>1. i \in 1 .. n /\ n \in Nat
      BY <1>0
    <3>2. {protos[j] : j \in (i - 1) + 1 .. n} = {x} \cup {protos[j] : j \in i + 1 .. n}
      <4>1. \A j : j \in (i - 1) + 1 .. n <=> j = i \/ j \in i + 1 .. n
        <5> HIDE DEF n
        <5> QED BY <3>1
      <4> QED BY <4>1
    <3> HIDE DEF n, x
    <3> QED BY <2>4, <2>5, <3>2
  <2> HIDE DEF Right, n
  <2> QED BY <2>1, <2>6
<1>11. 0 \in T
  <2>1. \A i \in 0 .. n : i \in T
    <3> HIDE DEF T, n
    <3> QED BY <1>0, <1>9, <1>10, Backwards
  <2>2. 0 \in 0 .. n
    BY <1>0
  <2> HIDE DEF T
  <2> QED BY <2>1, <2>2
<1>12. from[0] = {protos[j] : j \in 1 .. n}
  <2>1. Right(0) /\ 0 + 1 = 1
    <3> HIDE DEF Right
    <3> QED BY <1>11
  <2> HIDE DEF from, n
  <2> QED BY <1>c, <2>1
<1> HIDE DEF from, b
<1> QED BY <1>3, <1>12 DEF b

-----------------------------------------------------------------------------
(* The extensions.                                                          *)

ExtensionType(x) == IF x = "ech" THEN EXT_ECH ELSE IF x = "alpn" THEN EXT_ALPN ELSE 0

\* y is extension x of h with v bytes of data.
Says(h, x, y, v) ==
  /\ y \in Seq(Nat) /\ v \in Nat \ {0} /\ Len(y) = v + 4
  /\ Lies(y, 0, U16(ExtensionType(x))) /\ Lies(y, 2, U16(v))
  /\ x = "alpn" => /\ v = Len(AlpnWire(h.alpn)) + 2
                   /\ Lies(y, 4, U16(Len(AlpnWire(h.alpn)))) /\ Lies(y, 6, AlpnWire(h.alpn))

LEMMA U16Nat == \A v \in Nat : U16(v) \in Seq(Nat) /\ Len(U16(v)) = 2
<1> SUFFICES ASSUME NEW v \in Nat PROVE U16(v) \in Seq(Nat) /\ Len(U16(v)) = 2
  OBVIOUS
<1>1. v \div 256 \in Nat /\ v % 256 \in Nat
  OBVIOUS
<1> QED BY <1>1 DEF U16

LEMMA ByteNat == \A q \in Seq(Byte) : q \in Seq(Nat)
<1>1. Byte \subseteq Nat
  BY DEF Byte
<1> QED BY <1>1, SeqWider

LEMMA ExtensionSays ==
  ASSUME NEW h, IsNames(h.alpn), NEW x \in ExtensionName
  PROVE  \E v : Says(h, x, ExtensionBytes(h, x), v)
<1> DEFINE y == ExtensionBytes(h, x)
           list == AlpnWire(h.alpn)
<1>0. EXT_ECH \in Nat /\ EXT_ALPN \in Nat /\ 0 \in Nat /\ 1 \in Nat /\ 2 \in Nat
  BY DEF EXT_ECH, EXT_ALPN
<1>1. CASE x = "ech"
  <2> DEFINE d == <<0>>
  <2>1. d \in Seq(Nat) /\ Len(d) = 1
    OBVIOUS
  <2> HIDE DEF d
  <2>2. y = U16(EXT_ECH) \o U16(1) \o d
    BY <1>1 DEF ExtensionBytes, d
  <2>3. /\ U16(EXT_ECH) \in Seq(Nat) /\ Len(U16(EXT_ECH)) = 2
        /\ U16(1) \in Seq(Nat) /\ Len(U16(1)) = 2
    BY <1>0, U16Nat
  <2> DEFINE t == U16(EXT_ECH)
             l == U16(1)
  <2> HIDE DEF y
  <2>4. y \in Seq(Nat) /\ Len(y) = 2 + 2 + 1 /\ Lies(y, 0, U16(EXT_ECH)) /\ Lies(y, 2, U16(1))
    <3> HIDE DEF t, l
    <3>1. Three(Nat, t \o l \o d, t, l, d)
      BY <2>1, <2>3, LiesThree DEF t, l
    <3> QED BY <2>1, <2>2, <2>3, <3>1 DEF Three, t, l
  <2>5. Says(h, x, y, 1)
    BY <1>1, <2>4 DEF Says, ExtensionType
  <2> QED BY <2>5 DEF y
<1>2. CASE x = "sni"
  <2> DEFINE d == Zeros(2)
  <2>1. d \in Seq(Nat) /\ Len(d) = 2
    BY DEF Zeros
  <2> HIDE DEF d
  <2>2. y = U16(0) \o U16(2) \o d
    BY <1>2 DEF ExtensionBytes, d
  <2>3. /\ U16(0) \in Seq(Nat) /\ Len(U16(0)) = 2
        /\ U16(2) \in Seq(Nat) /\ Len(U16(2)) = 2
    BY <1>0, U16Nat
  <2> DEFINE t == U16(0)
             l == U16(2)
  <2> HIDE DEF y
  <2>4. y \in Seq(Nat) /\ Len(y) = 2 + 2 + 2 /\ Lies(y, 0, U16(0)) /\ Lies(y, 2, U16(2))
    <3> HIDE DEF t, l
    <3>1. Three(Nat, t \o l \o d, t, l, d)
      BY <2>1, <2>3, LiesThree DEF t, l
    <3> QED BY <2>1, <2>2, <2>3, <3>1 DEF Three, t, l
  <2>5. Says(h, x, y, 2)
    BY <1>2, <2>4 DEF Says, ExtensionType
  <2> QED BY <2>5 DEF y
<1>3. CASE x = "alpn"
  <2> DEFINE L == Len(list)
             a == U16(EXT_ALPN) \o U16(L + 2)
  <2>1. list \in Seq(Nat) /\ L \in Nat /\ L + 2 \in Nat
    <3>1. Lies(list, 0, list) /\ 0 \in Nat
      BY DEF Lies
    <3> HIDE DEF list
    <3>2. list \in Seq(Byte)
      BY <3>1, WireIs DEF list
    <3> QED BY <3>2, ByteNat
  <2>2. y = a \o U16(L) \o list
    BY <1>3 DEF ExtensionBytes
  <2>3. /\ U16(EXT_ALPN) \in Seq(Nat) /\ Len(U16(EXT_ALPN)) = 2
        /\ U16(L + 2) \in Seq(Nat) /\ Len(U16(L + 2)) = 2
        /\ U16(L) \in Seq(Nat) /\ Len(U16(L)) = 2
    <3> HIDE DEF L
    <3> QED BY <1>0, <2>1, U16Nat
  <2> HIDE DEF y, L, list
  <2> DEFINE t == U16(EXT_ALPN)
             l == U16(L + 2)
             m == U16(L)
  <2> HIDE DEF t, l, m
  <2>4. a \in Seq(Nat) /\ Len(a) = 4 /\ a = t \o l
    <3>1. \A u, w \in Seq(Nat) : u \o w \in Seq(Nat) /\ Len(u \o w) = Len(u) + Len(w)
      OBVIOUS
    <3>2. a = t \o l
      BY DEF t, l
    <3> HIDE DEF a
    <3>3. t \in Seq(Nat) /\ l \in Seq(Nat) /\ Len(t) = 2 /\ Len(l) = 2
      BY <2>3 DEF t, l
    <3>4. t \o l \in Seq(Nat) /\ Len(t \o l) = 2 + 2
      BY <3>1, <3>3
    <3> QED BY <3>2, <3>4
  <2> HIDE DEF a
  <2>5. /\ y \in Seq(Nat) /\ Len(y) = 4 + 2 + L
        /\ Lies(y, 0, a) /\ Lies(y, 4, m) /\ Lies(y, 4 + 2, list)
    <3>1. Three(Nat, a \o m \o list, a, m, list)
      BY <2>1, <2>3, <2>4, LiesThree DEF m
    <3>2. y = a \o m \o list
      BY <2>2 DEF m
    <3>3. Len(m) = 2 /\ Len(list) = L
      BY <2>3 DEF m, L
    <3> QED BY <2>4, <3>1, <3>2, <3>3 DEF Three
  <2>6. Lies(y, 0, t) /\ Lies(y, 0 + 2, l)
    <3>1. t \in Seq(Nat) /\ l \in Seq(Nat) /\ Len(t) = 2 /\ 0 \in Nat
      BY <2>3 DEF t, l
    <3>2. Lies(y, 0, t \o l)
      BY <2>4, <2>5
    <3>3. Lies(y, 0, t) /\ Lies(y, 0 + Len(t), l)
      BY <3>1, <3>2, LiesParts
    <3> QED BY <3>1, <3>3
  <2>7. 0 + 2 = 2 /\ 4 + 2 = 6 /\ Len(y) = (L + 2) + 4 /\ L + 2 \in Nat \ {0}
    BY <2>1, <2>5
  <2>8. Says(h, x, y, L + 2)
    BY <1>3, <2>1, <2>5, <2>6, <2>7 DEF Says, ExtensionType, L, list, t, l, m
  <2> QED BY <2>8 DEF y
<1> QED BY <1>1, <1>2, <1>3 DEF ExtensionName

ExtensionItems(h) == [i \in 1 .. Len(h.exts) |-> ExtensionBytes(h, h.exts[i])]

LEMMA ExtensionsAre ==
  ASSUME NEW h, IsNames(h.alpn), h.exts \in Seq(ExtensionName)
  PROVE  Extensions(h) \in Seq(Nat) /\ \E c : Joins(ExtensionItems(h), c, Extensions(h))
<1> DEFINE q == ExtensionItems(h)
           n == Len(h.exts)
<1>1. n \in Nat /\ \A i \in 1 .. n : h.exts[i] \in ExtensionName
  OBVIOUS
<1>2. \A i \in 1 .. n : ExtensionBytes(h, h.exts[i]) \in Seq(Nat)
  BY <1>1, ExtensionSays DEF Says
<1>3. q \in Seq(Seq(Nat))
  BY <1>1, <1>2 DEF ExtensionItems
<1>4. Extensions(h) = FlattenSeq(q)
  BY DEF Extensions, ExtensionItems
<1> HIDE DEF q
<1>5. FlattenSeq(q) \in Seq(Nat) /\ \E c : Joins(q, c, FlattenSeq(q))
  BY <1>3, Flattened
<1> QED BY <1>4, <1>5 DEF q

\* What an extension is for the classifier.
Hits(h, x) == x = "ech" \/ (x = "alpn" /\ \E k \in 1 .. Len(h.alpn) : h.alpn[k] = ACME_ALPN)

\* s is a part of y, y stands behind q in b as far as b goes, and s is not cut.
PartIn(b, q, y, m, s) ==
  /\ b \in Seq(Nat) /\ q \in Nat /\ y \in Seq(Nat) /\ LiesTo(b, q, y)
  /\ m \in Nat /\ s \in Seq(Nat) /\ Lies(y, m, s) /\ m + Len(s) <= Len(y)
  /\ q + m + Len(s) <= Len(b)

LEMMA ReadPart ==
  ASSUME NEW b, NEW q, NEW y, NEW m, NEW s, PartIn(b, q, y, m, s)
  PROVE  Lies(b, q + m, s)
BY LiesInPart DEF PartIn

\* The header of an extension that stands in b, and its data when it is there whole.
LEMMA ReadExtension ==
  ASSUME NEW h, IsNames(h.alpn), NEW x \in ExtensionName, NEW y, NEW v, Says(h, x, y, v),
         NEW b \in Seq(Byte), NEW q \in Nat, LiesTo(b, q, y), v < 65536
  PROVE  /\ q + 4 <= Len(b) =>
              Num(b, q, 2) = ExtensionType(x) /\ VectorEnd(b, q + 2, 2) = q + 4 + v
         /\ q + 4 + v <= Len(b) /\ x = "alpn" =>
              (AlpnHasAcme(b, q + 4, q + 4 + v) <=> Hits(h, x))
<1>0. /\ b \in Seq(Nat) /\ v \in Nat /\ Len(b) \in Nat
      /\ y \in Seq(Nat) /\ Len(y) = v + 4
      /\ ExtensionType(x) \in Nat /\ ExtensionType(x) < 65536
  <2>1. ExtensionType(x) \in Nat /\ ExtensionType(x) < 65536
    BY DEF ExtensionType, EXT_ECH, EXT_ALPN
  <2>2. b \in Seq(Nat)
    BY ByteNat
  <2>3. v \in Nat /\ y \in Seq(Nat) /\ Len(y) = v + 4
    BY DEF Says
  <2> QED BY <2>1, <2>2, <2>3
<1>1. ASSUME q + 4 <= Len(b)
      PROVE  Num(b, q, 2) = ExtensionType(x) /\ VectorEnd(b, q + 2, 2) = q + 4 + v
  <2> DEFINE t == ExtensionType(x)
             T == U16(t)
             V == U16(v)
  <2>1. /\ T \in Seq(Nat) /\ Len(T) = 2 /\ V \in Seq(Nat) /\ Len(V) = 2
        /\ Lies(y, 0, T) /\ Lies(y, 2, V) /\ 0 \in Nat /\ 2 \in Nat
    BY <1>0, U16Nat DEF Says
  <2> HIDE DEF t, T, V
  <2>3. q + 0 + Len(T) <= Len(b) /\ q + 2 + Len(V) <= Len(b) /\ q + 2 \in Nat /\ q + 2 <= Len(b)
        /\ q + 0 = q /\ q + 2 + 2 <= Len(b)
    BY <1>0, <1>1, <2>1
  <2>2. PartIn(b, q, y, 0, T) /\ PartIn(b, q, y, 2, V)
    BY <1>0, <2>1, <2>3 DEF PartIn
  <2>4. Lies(b, q + 0, T)
    BY <2>2, ReadPart
  <2>5. Lies(b, q + 2, V)
    BY <2>2, ReadPart
  <2>6. Num(b, q, 2) = t
    <3>1. t \in Nat /\ t < 65536 /\ Lies(b, q, U16(t))
      BY <1>0, <2>3, <2>4 DEF t, T
    <3> QED BY <2>3, <3>1, Read16
  <2>7. VectorEnd(b, q + 2, 2) = q + 2 + 2 + v
    <3>1. Lies(b, q + 2, U16(v))
      BY <2>5 DEF V
    <3> QED BY <1>0, <2>3, <3>1, Read16
  <2> QED BY <1>0, <2>6, <2>7 DEF t
<1>2. ASSUME q + 4 + v <= Len(b), x = "alpn"
      PROVE  AlpnHasAcme(b, q + 4, q + 4 + v) <=> Hits(h, x)
  <2> DEFINE list == AlpnWire(h.alpn)
             L == Len(list)
             M == U16(L)
  <2>1. v = L + 2 /\ Lies(y, 4, M) /\ Lies(y, 6, list)
    BY <1>2 DEF Says
  <2>2. list \in Seq(Nat) /\ L \in Nat
    <3>1. Lies(list, 0, list) /\ 0 \in Nat
      BY DEF Lies
    <3> HIDE DEF list
    <3>2. list \in Seq(Byte)
      BY <3>1, WireIs DEF list
    <3> QED BY <3>2, ByteNat
  <2> HIDE DEF list, L, M
  <2>3. M \in Seq(Nat) /\ Len(M) = 2 /\ 4 \in Nat /\ 6 \in Nat /\ L < 65536 /\ Len(list) = L
    BY <1>0, <2>1, <2>2, U16Nat DEF L, M
  <2>4. /\ 4 + Len(M) <= Len(y) /\ 6 + Len(list) <= Len(y)
        /\ q + 4 + Len(M) <= Len(b) /\ q + 6 + Len(list) <= Len(b)
        /\ (q + 4) + 2 = q + 6 /\ q + 4 \in Nat /\ q + 4 + v = (q + 4) + 2 + L
        /\ (q + 4) + 2 + L <= Len(b)
    BY <1>0, <1>2, <2>1, <2>2, <2>3
  <2>5. PartIn(b, q, y, 4, M) /\ PartIn(b, q, y, 6, list)
    BY <1>0, <2>1, <2>2, <2>3, <2>4 DEF PartIn
  <2>6. Lies(b, q + 4, M)
    BY <2>5, ReadPart
  <2>7. Lies(b, q + 6, list)
    BY <2>5, ReadPart
  <2>8. Listed(b, q + 4, h.alpn)
    BY <2>3, <2>4, <2>6, <2>7 DEF L, M, list, Listed
  <2>9. AlpnHasAcme(b, q + 4, (q + 4) + 2 + L) <=> \E i \in 1 .. Len(h.alpn) : h.alpn[i] = ACME_ALPN
    BY <2>4, <2>8, AcmeIs DEF L, list
  <2> QED BY <1>2, <2>4, <2>9 DEF Hits
<1> QED BY <1>1, <1>2

\* From p to e there is nothing in b but the extensions of h.
Carries(h, b, p, e) ==
  /\ IsNames(h.alpn) /\ h.exts \in Seq(ExtensionName) /\ Len(Extensions(h)) < 65536
  /\ LiesTo(b, p, Extensions(h)) /\ e <= Len(b) /\ e <= p + Len(Extensions(h))

\* The loop over the extensions finds one that counts if it is there whole, and
\* no other.
LEMMA KindIs ==
  ASSUME NEW h, NEW b \in Seq(Byte), NEW p \in Nat, NEW e \in Nat, Carries(h, b, p, e)
  PROVE  /\ ExtensionsKind(b, p, e) \in {"Other", "EchOrAcmeAlpn"}
         /\ ExtensionsKind(b, p, e) = "EchOrAcmeAlpn" =>
              \E j \in 1 .. Len(h.exts) : Hits(h, h.exts[j])
         /\ e = p + Len(Extensions(h)) /\ (\E j \in 1 .. Len(h.exts) : Hits(h, h.exts[j]))
              => ExtensionsKind(b, p, e) = "EchOrAcmeAlpn"
<1> DEFINE n == Len(h.exts)
           r == Extensions(h)
           S == {"Other", "EchOrAcmeAlpn"}
           Goes(q) == Has(q, 2, e) /\ HasVector(b, q + 2, 2, e)
           Hit(q) == \/ Num(b, q, 2) = EXT_ECH
                     \/ /\ Num(b, q, 2) = EXT_ALPN
                        /\ AlpnHasAcme(b, q + 4, VectorEnd(b, q + 2, 2))
           Is(g) == g = [q \in Nat |-> IF ~(Has(q, 2, e) /\ HasVector(b, q + 2, 2, e)) THEN "Other"
                                       ELSE IF Hit(q) THEN "EchOrAcmeAlpn"
                                       ELSE g[VectorEnd(b, q + 2, 2)]]
           from == CHOOSE g : Is(g)
           next == [q \in Nat |-> IF Goes(q) THEN VectorEnd(b, q + 2, 2) ELSE q + 1]
           step == [q \in Nat |->
                     [z \in S |-> IF ~Goes(q) THEN "Other" ELSE IF Hit(q) THEN "EchOrAcmeAlpn" ELSE z]]
<1>0. n \in Nat /\ Len(b) \in Nat /\ \A i \in 1 .. n : h.exts[i] \in ExtensionName
  BY DEF Carries
<1>1. r \in Seq(Nat) /\ \E c : Joins(ExtensionItems(h), c, r)
  BY ExtensionsAre DEF Carries
<1>2. /\ IsNames(h.alpn) /\ Len(r) \in Nat /\ Len(r) < 65536 /\ LiesTo(b, p, r)
      /\ e <= Len(b) /\ e <= p + Len(r)
  BY <1>1 DEF Carries
<1>3. ExtensionsKind(b, p, e) = from[p]
  BY DEF ExtensionsKind
<1>4. ASSUME NEW q \in Nat, Goes(q)
      PROVE  /\ VectorEnd(b, q + 2, 2) \in Nat /\ q < VectorEnd(b, q + 2, 2)
             /\ VectorEnd(b, q + 2, 2) <= e /\ q < e /\ q + 4 <= Len(b)
  <2>1. q + 4 <= e /\ VectorEnd(b, q + 2, 2) <= e
    BY <1>4 DEF HasVector, Has
  <2>2. q + 2 + 2 <= Len(b) /\ q + 2 \in Nat
    BY <1>0, <1>2, <2>1
  <2>3. Num(b, q + 2, 2) \in Nat
    BY <2>2, Num2
  <2> QED BY <1>0, <1>2, <2>1, <2>3 DEF VectorEnd
<1>5. \E g : Is(g)
  <2>1. next \in [Nat -> Nat] /\ Forward(next, e)
    <3> HIDE DEF Goes
    <3> QED BY <1>4 DEF Forward
  <2>2. step \in [Nat -> [S -> S]] /\ "Other" \in S
    <3> HIDE DEF Goes, Hit
    <3> QED OBVIOUS
  <2>3. PICK g \in [Nat -> S] : Ahead(g, e, "Other", next, step)
    <3> HIDE DEF S, step, next
    <3> QED BY <2>1, <2>2, RecursionAhead
  <2>4. ASSUME NEW q \in Nat
        PROVE  g[q] = IF ~Goes(q) THEN "Other" ELSE IF Hit(q) THEN "EchOrAcmeAlpn"
                      ELSE g[VectorEnd(b, q + 2, 2)]
    <3>0. g[q] = IF q < e THEN step[q][g[next[q]]] ELSE "Other"
      <4> HIDE DEF step, next
      <4> QED BY <2>3 DEF Ahead
    <3>1. next[q] \in Nat
      <4> HIDE DEF Goes
      <4> QED BY <1>4
    <3>2. g[next[q]] \in S
      <4> HIDE DEF next, S
      <4> QED BY <3>1
    <3>3. step[q][g[next[q]]] = IF ~Goes(q) THEN "Other"
                                ELSE IF Hit(q) THEN "EchOrAcmeAlpn" ELSE g[next[q]]
      <4> HIDE DEF Goes, Hit, next, S
      <4> QED BY <3>2
    <3>4. Goes(q) => q < e /\ next[q] = VectorEnd(b, q + 2, 2)
      <4> HIDE DEF Goes
      <4> QED BY <1>4
    <3> HIDE DEF step, next, Goes, Hit
    <3> QED BY <3>0, <3>3, <3>4
  <2>5. Is(g)
    <3> HIDE DEF Hit
    <3> QED BY <2>4
  <2> HIDE DEF Is
  <2> QED BY <2>5
<1>6. Is(from)
  <2> HIDE DEF Is
  <2> QED BY <1>5
<1>7. ASSUME NEW q \in Nat
      PROVE  from[q] = IF ~Goes(q) THEN "Other" ELSE IF Hit(q) THEN "EchOrAcmeAlpn"
                       ELSE from[VectorEnd(b, q + 2, 2)]
  <2> HIDE DEF from, Hit
  <2> QED BY <1>6
<1>8. PICK c : Joins(ExtensionItems(h), c, r)
  BY <1>1
<1> DEFINE at(i) == p + c[i]
           Found(i) == \E j \in i + 1 .. n : Hits(h, h.exts[j])
           Right(i) == /\ from[at(i)] \in S
                       /\ from[at(i)] = "EchOrAcmeAlpn" => Found(i)
                       /\ e = p + Len(r) /\ Found(i) => from[at(i)] = "EchOrAcmeAlpn"
           T == {i \in 0 .. n : Right(i)}
           y(i) == ExtensionBytes(h, h.exts[i])
<1>c. /\ \A i \in 0 .. n : c[i] \in Nat
      /\ c[n] = Len(r) /\ c[0] = 0 /\ Len(r) \in Nat
      /\ \A i \in 1 .. n : /\ c[i] = c[i - 1] + Len(y(i)) /\ c[i] <= Len(r)
                           /\ Lies(r, c[i - 1], y(i))
  <2>1. Len(ExtensionItems(h)) = n /\ \A i \in 1 .. n : ExtensionItems(h)[i] = y(i)
    BY <1>0 DEF ExtensionItems
  <2>2. c \in [0 .. n -> Nat] /\ c[n] = Len(r) /\ c[0] = 0 /\ Len(r) \in Nat
    <3> HIDE DEF r, n, y
    <3> QED BY <1>1, <1>8, <2>1 DEF Joins
  <2>3. \A i \in 1 .. n : /\ c[i] = c[i - 1] + Len(y(i)) /\ c[i] <= Len(r)
                          /\ Lies(r, c[i - 1], y(i))
    <3> HIDE DEF r, n, y
    <3> QED BY <1>8, <2>1 DEF Joins
  <2> HIDE DEF r, n, y
  <2> QED BY <2>2, <2>3
<1>9. n \in T
  <2>1. at(n) \in Nat /\ ~Goes(at(n))
    <3>1. at(n) \in Nat /\ at(n) >= e
      <4> HIDE DEF n, r
      <4> QED BY <1>c, <1>2
    <3> HIDE DEF at
    <3> QED BY <3>1 DEF Has
  <2>2. from[at(n)] = "Other"
    <3> HIDE DEF from, at, Goes, Hit
    <3> QED BY <1>7, <2>1
  <2>3. ~Found(n)
    BY <1>0
  <2> HIDE DEF from, at, Found, n
  <2> QED BY <1>0, <2>2, <2>3
<1>10. ASSUME NEW i \in 1 .. n, i \in T PROVE i - 1 \in T
  <2> DEFINE x == h.exts[i]
             k == c[i - 1]
             q == at(i - 1)
  <2>0. /\ i - 1 \in 0 .. n /\ k \in Nat /\ x \in ExtensionName /\ c[i] \in Nat
        /\ c[i] = k + Len(y(i)) /\ c[i] <= Len(r) /\ Lies(r, k, y(i))
    <3>1. i - 1 \in 0 .. n /\ i \in 0 .. n
      BY <1>0
    <3> HIDE DEF n, r, y
    <3> QED BY <1>0, <1>c, <3>1
  <2>1. PICK v : Says(h, x, y(i), v)
    <3> HIDE DEF x
    <3>1. x \in ExtensionName
      BY <2>0
    <3> QED BY <1>2, <3>1, ExtensionSays DEF x
  <2>2. /\ v \in Nat /\ v < 65536 /\ Len(y(i)) = v + 4 /\ q \in Nat /\ q = p + k
        /\ at(i) = q + 4 + v /\ k + Len(y(i)) <= Len(r) /\ at(i) <= p + Len(r)
    <3>1. v \in Nat /\ Len(y(i)) = v + 4
      BY <2>1 DEF Says
    <3> HIDE DEF n, r, y, x
    <3>2. Len(r) \in Nat /\ Len(r) < 65536
      BY <1>2 DEF r
    <3>3. \A j, m, l, u, w \in Nat : m = j + l /\ l = u + 4 /\ m <= w /\ w < 65536 =>
            /\ u < 65536 /\ p + j \in Nat /\ p + m = (p + j) + 4 + u
            /\ j + l <= w /\ p + m <= p + w
      OBVIOUS
    <3>4. /\ v < 65536 /\ p + k \in Nat /\ p + c[i] = (p + k) + 4 + v
          /\ k + Len(y(i)) <= Len(r) /\ p + c[i] <= p + Len(r)
      <4> HIDE DEF k
      <4>1. Len(y(i)) \in Nat
        BY <3>1
      <4> QED BY ONLY <2>0, <3>1, <3>2, <3>3, <4>1
    <3> QED BY ONLY <3>1, <3>4 DEF q, at, k
  <2>3. /\ q + 4 <= Len(b) =>
             Num(b, q, 2) = ExtensionType(x) /\ VectorEnd(b, q + 2, 2) = q + 4 + v
        /\ q + 4 + v <= Len(b) /\ x = "alpn" =>
             (AlpnHasAcme(b, q + 4, q + 4 + v) <=> Hits(h, x))
    <3> HIDE DEF x, y, r, at, k, q
    <3>1. y(i) \in Seq(Nat)
      BY <2>1 DEF Says
    <3>2. LiesTo(b, p + k, y(i))
      BY <1>1, <1>2, <2>0, <2>2, <3>1, LiesToWithin
    <3>3. LiesTo(b, q, y(i))
      BY <2>2, <3>2
    <3> QED BY <1>2, <2>0, <2>1, <2>2, <3>3, ReadExtension
  <2>4. Right(i)
    BY <1>10
  <2>5. Found(i - 1) <=> Hits(h, x) \/ Found(i)
    <3>1. i \in 1 .. n /\ n \in Nat
      BY <1>0
    <3>2. \A j : j \in (i - 1) + 1 .. n <=> j = i \/ j \in i + 1 .. n
      <4> HIDE DEF n
      <4> QED BY <3>1
    <3> HIDE DEF n
    <3> QED BY <3>2
  <2>6. CASE ~Goes(q)
    <3>1. from[q] = "Other"
      <4> HIDE DEF from, at, Goes, Hit
      <4> QED BY <1>7, <2>2, <2>6
    <3>2. e # p + Len(r)
      <4> SUFFICES ASSUME e = p + Len(r) PROVE FALSE
        OBVIOUS
      <4> HIDE DEF r, at, x, y, n
      <4>1. q + 4 + v <= e /\ q + 4 <= Len(b)
        <5> HIDE DEF q, k
        <5>1. at(i) <= e
          BY <2>2
        <5>2. q + 4 + v <= e
          BY <2>2, <5>1
        <5> QED BY ONLY <1>0, <1>2, <2>2, <5>2, e \in Nat
      <4>2. VectorEnd(b, q + 2, 2) = q + 4 + v
        BY <2>3, <4>1
      <4> HIDE DEF q
      <4>3. q + 2 <= e /\ (q + 2) + 2 <= e
        <5>1. \A j, u, w \in Nat : j + 4 + u <= w => j + 2 <= w /\ (j + 2) + 2 <= w
          OBVIOUS
        <5>2. q \in Nat /\ v \in Nat
          BY <2>2
        <5> QED BY ONLY <4>1, <5>1, <5>2, e \in Nat
      <4>4. VectorEnd(b, q + 2, 2) <= e
        BY ONLY <4>1, <4>2
      <4>5. Has(q, 2, e) /\ HasVector(b, q + 2, 2, e)
        BY ONLY <4>3, <4>4 DEF Has, HasVector
      <4> QED BY ONLY <2>6, <4>5
    <3> HIDE DEF from, Found, at, n, r
    <3>3. Right(i - 1)
      BY <3>1, <3>2
    <3> HIDE DEF Right
    <3> QED BY <2>0, <3>3
  <2>7. CASE Goes(q)
    <3>1. q + 4 <= Len(b) /\ VectorEnd(b, q + 2, 2) <= e
      <4> HIDE DEF Goes, at
      <4> QED BY <1>4, <2>2, <2>7
    <3>2. Num(b, q, 2) = ExtensionType(x) /\ VectorEnd(b, q + 2, 2) = at(i) /\ q + 4 + v <= Len(b)
      <4> HIDE DEF Goes, at, q, x, n
      <4>1. Num(b, q, 2) = ExtensionType(x) /\ VectorEnd(b, q + 2, 2) = q + 4 + v
        BY ONLY <2>3, <3>1
      <4>2. at(i) = q + 4 + v /\ q \in Nat /\ v \in Nat
        BY ONLY <2>2
      <4>3. q + 4 + v <= Len(b)
        BY ONLY <1>0, <1>2, <3>1, <4>1, <4>2, e \in Nat
      <4> QED BY ONLY <4>1, <4>2, <4>3
    <3>3. Hit(q) <=> Hits(h, x)
      <4>1. CASE x = "alpn"
        <5>1. AlpnHasAcme(b, q + 4, at(i)) <=> Hits(h, x)
          <6> HIDE DEF at, q, x
          <6> QED BY <2>2, <2>3, <3>2, <4>1
        <5>2. Num(b, q, 2) = EXT_ALPN /\ EXT_ALPN # EXT_ECH
          BY <3>2, <4>1 DEF ExtensionType, EXT_ALPN, EXT_ECH
        <5> HIDE DEF at, q, x
        <5> QED BY <3>2, <5>1, <5>2
      <4>2. CASE x = "ech"
        BY <3>2, <4>2 DEF ExtensionType, Hits
      <4>3. CASE x = "sni"
        BY <3>2, <4>3 DEF ExtensionType, Hits, EXT_ALPN, EXT_ECH
      <4> HIDE DEF x, Hit, Goes
      <4> QED BY <2>0, <4>1, <4>2, <4>3 DEF ExtensionName
    <3>4. from[q] = IF Hits(h, x) THEN "EchOrAcmeAlpn" ELSE from[at(i)]
      <4> HIDE DEF from, at, Goes, Hit, q, x
      <4>1. q \in Nat
        BY <2>2
      <4>2. VectorEnd(b, q + 2, 2) = at(i)
        BY <3>2
      <4>3. Goes(q)
        BY <2>7
      <4>4. from[q] = IF ~Goes(q) THEN "Other" ELSE IF Hit(q) THEN "EchOrAcmeAlpn"
                      ELSE from[VectorEnd(b, q + 2, 2)]
        BY <1>7, <4>1
      <4> QED BY ONLY <3>3, <4>2, <4>3, <4>4
    <3> HIDE DEF from, Found, at, n, r, x
    <3>5. Right(i - 1)
      BY <2>4, <2>5, <3>4
    <3> HIDE DEF Right
    <3> QED BY <2>0, <3>5
  <2> HIDE DEF T, Goes
  <2> QED BY <2>6, <2>7
<1>11. 0 \in T
  <2>1. \A i \in 0 .. n : i \in T
    <3> HIDE DEF T, n
    <3> QED BY <1>0, <1>9, <1>10, Backwards
  <2>2. 0 \in 0 .. n
    BY <1>0
  <2> HIDE DEF T
  <2> QED BY <2>1, <2>2
<1>12. Right(0) /\ 0 + 1 = 1 /\ at(0) = p
  <2>1. Right(0)
    <3> HIDE DEF Right
    <3> QED BY <1>11
  <2> HIDE DEF Right, n, r
  <2> QED BY <1>c, <2>1
<1> HIDE DEF from, at
<1> QED BY <1>3, <1>12

-----------------------------------------------------------------------------
(* The records that carry a ClientHello.                                    *)

\* More bytes do not change a verdict: whatever bytes a connection begins with, a
\* well-formed ClientHello or not, what classify (clienthello.rs:35) makes of a
\* prefix it makes of the whole, unless it asked for more.
THEOREM VerdictLater ==
  ASSUME NEW b \in Seq(Byte), NEW n \in 1 .. Len(b), Classify(b, n) # "Incomplete"
  PROVE  Classify(b, n) = Classify(b, Len(b))
<1>0. n \in Nat /\ n # 0 /\ n <= Len(b) /\ Len(b) \in Nat /\ Len(b) # 0
  OBVIOUS
<1>1. CASE b[1] # 22
  BY <1>0, <1>1 DEF Classify
<1>2. CASE b[1] = 22
  <2>1. Has(0, 3, n) /\ HasVector(b, 3, 2, n)
    BY <1>0, <1>2 DEF Classify
  <2>2. 3 + 2 <= n /\ VectorEnd(b, 3, 2) <= n
    BY <2>1 DEF HasVector, Has
  <2>3. Num(b, 3, 2) \in Nat
    <3>1. 3 + 2 <= Len(b) /\ 3 \in Nat
      BY <1>0, <2>2
    <3> QED BY <3>1, Num2
  <2>4. Has(0, 3, Len(b)) /\ HasVector(b, 3, 2, Len(b))
    <3>1. VectorEnd(b, 3, 2) \in Nat
      BY <2>3 DEF VectorEnd
    <3> QED BY <1>0, <2>2, <3>1 DEF HasVector, Has
  <2> QED BY <1>0, <1>2, <2>1, <2>4 DEF Classify
<1> QED BY <1>1, <1>2

LEMMA SeqClosed ==
  ASSUME NEW S
  PROVE  \A u, w \in Seq(S) : u \o w \in Seq(S) /\ Len(u \o w) = Len(u) + Len(w)
OBVIOUS

LEMMA U16Bytes == \A v \in Nat : v < 65536 => U16(v) \in Seq(Byte) /\ Len(U16(v)) = 2
BY U16Is

LEMMA ListBytes ==
  ASSUME NEW protos, IsNames(protos)
  PROVE  AlpnWire(protos) \in Seq(Byte)
<1>1. Lies(AlpnWire(protos), 0, AlpnWire(protos)) /\ 0 \in Nat
  BY DEF Lies
<1> QED BY <1>1, WireIs

LEMMA ExtensionBytesAre ==
  ASSUME NEW h, IsNames(h.alpn), NEW x \in ExtensionName, Len(ExtensionBytes(h, x)) < 65536
  PROVE  ExtensionBytes(h, x) \in Seq(Byte)
<1>0. 0 \in Byte /\ <<0>> \in Seq(Byte) /\ Zeros(2) \in Seq(Byte)
  <2>1. 0 \in Byte
    BY SmallByte
  <2> QED BY <2>1 DEF Zeros
<1>1. \A u, w \in Seq(Byte) : u \o w \in Seq(Byte)
  BY SeqClosed
<1>2. CASE x = "ech"
  <2>1. U16(EXT_ECH) \in Seq(Byte) /\ U16(1) \in Seq(Byte)
    BY U16Bytes DEF EXT_ECH
  <2> DEFINE t == U16(EXT_ECH)
             l == U16(1)
             d == <<0>>
  <2>2. t \o l \o d \in Seq(Byte)
    <3> HIDE DEF t, l, d
    <3> QED BY <1>0, <1>1, <2>1 DEF t, l, d
  <2> QED BY <1>2, <2>2 DEF ExtensionBytes
<1>3. CASE x = "sni"
  <2>1. U16(0) \in Seq(Byte) /\ U16(2) \in Seq(Byte)
    BY U16Bytes
  <2> DEFINE t == U16(0)
             l == U16(2)
             d == Zeros(2)
  <2>2. t \o l \o d \in Seq(Byte)
    <3> HIDE DEF t, l, d
    <3> QED BY <1>0, <1>1, <2>1 DEF t, l, d
  <2> QED BY <1>3, <2>2 DEF ExtensionBytes
<1>4. CASE x = "alpn"
  <2> DEFINE list == AlpnWire(h.alpn)
  <2>1. list \in Seq(Byte) /\ Len(list) \in Nat
    BY ListBytes
  <2>2. Len(list) + 2 < 65536 /\ Len(list) < 65536
    <3>1. PICK v : Says(h, x, ExtensionBytes(h, x), v)
      BY ExtensionSays
    <3>2. Len(ExtensionBytes(h, x)) = v + 4 /\ v = Len(list) + 2
      BY <1>4, <3>1 DEF Says
    <3> HIDE DEF list
    <3> QED BY <2>1, <3>2
  <2>3. U16(EXT_ALPN) \in Seq(Byte) /\ U16(Len(list) + 2) \in Seq(Byte) /\ U16(Len(list)) \in Seq(Byte)
    <3> HIDE DEF list
    <3>1. Len(list) + 2 \in Nat /\ 16 \in Nat
      BY <2>1
    <3> QED BY <2>1, <2>2, <3>1, U16Bytes DEF EXT_ALPN
  <2> DEFINE t == U16(EXT_ALPN)
             l == U16(Len(list) + 2)
             m == U16(Len(list))
  <2>4. t \o l \o m \o list \in Seq(Byte)
    <3> HIDE DEF t, l, m, list
    <3> QED BY <1>1, <2>1, <2>3 DEF t, l, m
  <2> QED BY <1>4, <2>4 DEF ExtensionBytes
<1> QED BY <1>2, <1>3, <1>4 DEF ExtensionName

LEMMA ExtensionsBytes ==
  ASSUME NEW h, IsNames(h.alpn), h.exts \in Seq(ExtensionName), Len(Extensions(h)) < 65536
  PROVE  Extensions(h) \in Seq(Byte)
<1> DEFINE q == ExtensionItems(h)
           n == Len(h.exts)
           r == Extensions(h)
<1>1. n \in Nat /\ \A i \in 1 .. n : h.exts[i] \in ExtensionName
  OBVIOUS
<1>2. r \in Seq(Nat) /\ Len(r) \in Nat /\ Len(r) < 65536 /\ \E c : Joins(q, c, r)
  BY ExtensionsAre
<1>3. PICK c : Joins(q, c, r)
  BY <1>2
<1>4. Len(q) = n /\ \A i \in 1 .. n : q[i] = ExtensionBytes(h, h.exts[i])
  BY <1>1 DEF ExtensionItems
<1>5. ASSUME NEW i \in 1 .. n PROVE ExtensionBytes(h, h.exts[i]) \in Seq(Byte)
  <2> DEFINE y == ExtensionBytes(h, h.exts[i])
  <2>1. PICK v : Says(h, h.exts[i], y, v)
    BY <1>1, ExtensionSays
  <2>2. Len(y) \in Nat
    BY <2>1 DEF Says
  <2>3. c[i] = c[i - 1] + Len(y) /\ c[i] <= Len(r) /\ c[i - 1] \in Nat
    <3> HIDE DEF q, r, n
    <3>1. i - 1 \in 0 .. n /\ i \in 1 .. Len(q)
      BY <1>1, <1>4
    <3> QED BY <1>3, <1>4, <3>1 DEF Joins
  <2>4. Len(y) < 65536
    <3> HIDE DEF y, r
    <3> QED BY <1>2, <2>2, <2>3
  <2>5. h.exts[i] \in ExtensionName
    BY <1>1
  <2> QED BY <2>4, <2>5, ExtensionBytesAre
<1>6. q \in Seq(Seq(Byte))
  BY <1>1, <1>5 DEF ExtensionItems
<1>7. r = FlattenSeq(q)
  BY DEF Extensions, ExtensionItems
<1> HIDE DEF q, r
<1>8. FlattenSeq(q) \in Seq(Byte)
  BY <1>6, Flattened
<1> QED BY <1>7, <1>8 DEF r

\* r is u and behind it w.
Adds(r, u, w) ==
  /\ r \in Seq(Byte) /\ Len(r) = Len(u) + Len(w)
  /\ \A i \in 1 .. Len(u) : r[i] = u[i]
  /\ \A i \in 1 .. Len(w) : r[Len(u) + i] = w[i]

LEMMA Appended ==
  ASSUME NEW u \in Seq(Byte), NEW w \in Seq(Byte)
  PROVE  Adds(u \o w, u, w)
BY DEF Adds

\* What stands before the extensions: 41 bytes, four of which are read.
LEMMA Fixed ==
  /\ FixedFields \in Seq(Byte) /\ Len(FixedFields) = 41
  /\ FixedFields[35] = 0 /\ FixedFields[36] = 0 /\ FixedFields[37] = 2 /\ FixedFields[40] = 1
<1>0. 0 \in Byte /\ 1 \in Byte /\ 2 \in Byte
  BY SmallByte
<1>1. PICK z : z = Zeros(RANDOM_END) /\ z \in Seq(Byte) /\ Len(z) = 34
  <2>1. Zeros(RANDOM_END) \in Seq(Byte) /\ Len(Zeros(RANDOM_END)) = 34
    BY <1>0 DEF Zeros, RANDOM_END
  <2> QED BY <2>1
<1>2. PICK f : f = <<0>> /\ f \in Seq(Byte) /\ Len(f) = 1 /\ f[1] = 0
  <2>1. <<0>> \in Seq(Byte) /\ Len(<<0>>) = 1 /\ <<0>>[1] = 0
    BY <1>0
  <2> QED BY <2>1
<1>3. PICK u : u = U16(2) /\ u \in Seq(Byte) /\ Len(u) = 2 /\ u[1] = 0 /\ u[2] = 2
  <2>1. U16(2) \in Seq(Byte) /\ Len(U16(2)) = 2 /\ U16(2)[1] = 0 /\ U16(2)[2] = 2
    BY <1>0 DEF U16
  <2> QED BY <2>1
<1>4. PICK y : y = Zeros(2) /\ y \in Seq(Byte) /\ Len(y) = 2
  <2>1. Zeros(2) \in Seq(Byte) /\ Len(Zeros(2)) = 2
    BY <1>0 DEF Zeros
  <2> QED BY <2>1
<1>5. PICK o : o = <<1, 0>> /\ o \in Seq(Byte) /\ Len(o) = 2 /\ o[1] = 1
  <2>1. <<1, 0>> \in Seq(Byte) /\ Len(<<1, 0>>) = 2 /\ <<1, 0>>[1] = 1
    BY <1>0
  <2> QED BY <2>1
<1>7. PICK a : a = z \o f /\ Adds(a, z, f)
  BY <1>1, <1>2, Appended
<1>8. a \in Seq(Byte) /\ Len(a) = 35 /\ a[35] = 0
  <2>1. a \in Seq(Byte) /\ Len(a) = 34 + 1 /\ a[34 + 1] = f[1]
    BY <1>1, <1>2, <1>7 DEF Adds
  <2> QED BY <1>2, <2>1
<1>9. PICK b : b = a \o u /\ Adds(b, a, u)
  BY <1>3, <1>8, Appended
<1>10. b \in Seq(Byte) /\ Len(b) = 37 /\ b[35] = 0 /\ b[36] = 0 /\ b[37] = 2
  <2>1. /\ b \in Seq(Byte) /\ Len(b) = 35 + 2 /\ b[35] = a[35]
        /\ b[35 + 1] = u[1] /\ b[35 + 2] = u[2]
    <3>1. /\ b \in Seq(Byte) /\ Len(b) = 35 + 2 /\ \A i \in 1 .. 35 : b[i] = a[i]
          /\ \A i \in 1 .. 2 : b[35 + i] = u[i]
      BY <1>3, <1>8, <1>9 DEF Adds
    <3> QED BY <3>1
  <2> QED BY <1>3, <1>8, <2>1
<1>11. PICK d : d = b \o y /\ Adds(d, b, y)
  BY <1>4, <1>10, Appended
<1>12. d \in Seq(Byte) /\ Len(d) = 39 /\ d[35] = 0 /\ d[36] = 0 /\ d[37] = 2
  <2>1. d \in Seq(Byte) /\ Len(d) = 37 + 2 /\ \A i \in 1 .. 37 : d[i] = b[i]
    BY <1>4, <1>10, <1>11 DEF Adds
  <2> QED BY <1>10, <2>1
<1>13. PICK r : r = d \o o /\ Adds(r, d, o)
  BY <1>5, <1>12, Appended
<1>14. /\ r \in Seq(Byte) /\ Len(r) = 41 /\ r[35] = 0 /\ r[36] = 0 /\ r[37] = 2 /\ r[40] = 1
  <2>1. r \in Seq(Byte) /\ Len(r) = 39 + 2 /\ r[39 + 1] = o[1] /\ \A i \in 1 .. 39 : r[i] = d[i]
    <3>1. /\ r \in Seq(Byte) /\ Len(r) = 39 + 2 /\ \A i \in 1 .. 39 : r[i] = d[i]
          /\ \A i \in 1 .. 2 : r[39 + i] = o[i]
      BY <1>5, <1>12, <1>13 DEF Adds
    <3> QED BY <3>1
  <2> QED BY <1>5, <1>12, <2>1
<1>15. FixedFields = r
  BY <1>1, <1>2, <1>3, <1>4, <1>5, <1>7, <1>9, <1>11, <1>13 DEF FixedFields
<1> QED BY <1>14, <1>15

\* A ClientHello fits the lengths that stand in it.
Sized(h) ==
  /\ IsNames(h.alpn) /\ h.exts \in Seq(ExtensionName) /\ h.form \in Form
  /\ Extensions(h) \in Seq(Byte) /\ Len(Extensions(h)) < 65536
  /\ ExtensionList(h) \in Seq(Byte) /\ Len(ExtensionList(h)) <= Len(Extensions(h))
  /\ Lies(Extensions(h), 0, ExtensionList(h))
  /\ h.form # "short" => ExtensionList(h) = Extensions(h)
  /\ h.form = "bare" => h.exts = <<>>
  /\ Body(h) \in Seq(Byte)
  /\ Len(Body(h)) = 41 + (IF h.form = "bare" THEN 0 ELSE 2 + Len(ExtensionList(h)))
  /\ Message(h) \in Seq(Byte) /\ Len(Message(h)) = 4 + Len(Body(h)) /\ Len(Message(h)) < 65536

LEMMA FrontIs ==
  ASSUME NEW S, NEW r \in Seq(S)
  PROVE  /\ Front(r) \in Seq(S) /\ Len(Front(r)) <= Len(r) /\ Len(r) <= Len(Front(r)) + 1
         /\ Lies(r, 0, Front(r))
<1>1. Len(r) \in Nat /\ Front(r) = SubSeq(r, 1, Len(r) - 1)
  BY DEF Front
<1>2. CASE Len(r) = 0
  BY <1>1, <1>2 DEF Lies
<1>3. CASE Len(r) # 0
  <2>1. PICK n \in Nat : n = Len(r) - 1 /\ n + 1 = Len(r) /\ n <= Len(r)
    BY <1>1, <1>3
  <2>2. PICK s : s = SubSeq(r, 1, n)
    OBVIOUS
  <2>3. s \in Seq(S) /\ Len(s) = n /\ \A i \in 1 .. n : s[i] = r[1 + i - 1]
    BY <2>1, <2>2
  <2>4. \A i \in 1 .. n : 1 + i - 1 = 0 + i
    OBVIOUS
  <2>5. Front(r) = s
    BY <1>1, <2>1, <2>2
  <2>6. Lies(r, 0, s)
    BY <2>3, <2>4 DEF Lies
  <2> QED BY <2>1, <2>3, <2>5, <2>6
<1> QED BY <1>1, <1>2, <1>3

LEMMA HelloSized ==
  ASSUME NEW h, IsHello(h)
  PROVE  Sized(h)
<1> DEFINE r == Extensions(h)
           list == ExtensionList(h)
           field == ExtensionField(h)
           body == Body(h)
           m == Message(h)
           head == <<1, 0>>
           L == IF h.form = "bare" THEN 0 ELSE 2 + Len(list)
<1>0. /\ IsNames(h.alpn) /\ h.exts \in Seq(ExtensionName) /\ h.form \in Form
      /\ Len(m) < 65536
      /\ h.form = "bare" => h.exts = <<>>
  <2> HIDE DEF r, list, field, body, head, L
  <2>a. h.alpn \in Seq(Seq(Byte)) /\ \A i \in DOMAIN h.alpn : Len(h.alpn[i]) \in NameLength
    BY DEF IsHello
  <2>1. /\ h.exts \in Seq(ExtensionName) /\ h.form \in Form /\ Len(m) < 65536
        /\ h.form = "bare" => h.exts = <<>>
    BY DEF IsHello
  <2>2. ASSUME NEW S, NEW s \in Seq(S) PROVE DOMAIN s = 1 .. Len(s)
    OBVIOUS
  <2>3. DOMAIN h.alpn = 1 .. Len(h.alpn)
    BY ONLY <2>a, <2>2
  <2>4. ASSUME NEW i \in 1 .. Len(h.alpn) PROVE Len(h.alpn[i]) \in NameLength
    <3>1. i \in DOMAIN h.alpn
      BY ONLY <2>3, i \in 1 .. Len(h.alpn)
    <3> QED BY ONLY <2>a, <3>1
  <2>5. IsNames(h.alpn)
    BY ONLY <2>a, <2>4 DEF IsNames
  <2> QED BY ONLY <2>1, <2>5
<1>1. r \in Seq(Nat) /\ Len(r) \in Nat /\ \E c : Joins(ExtensionItems(h), c, r)
  BY <1>0, ExtensionsAre
<1>2. /\ list \in Seq(Nat) /\ Len(list) \in Nat /\ Len(list) <= Len(r) /\ Len(r) <= Len(list) + 1
      /\ Lies(r, 0, list)
      /\ h.form # "short" => list = r
  <2>1. CASE h.form = "short"
    <3>1. list = Front(r)
      BY <2>1 DEF ExtensionList
    <3> HIDE DEF r, list
    <3> QED BY <1>1, <2>1, <3>1, FrontIs
  <2>2. CASE h.form # "short"
    <3>1. list = r
      BY <2>2 DEF ExtensionList
    <3> HIDE DEF r, list
    <3> QED BY <1>1, <2>2, <3>1 DEF Lies
  <2> QED BY <2>1, <2>2
<1>3. field \in Seq(Nat) /\ Len(field) = L /\ L \in Nat
  <2>1. PICK l : l = U16(Len(list))
    OBVIOUS
  <2>2. l \in Seq(Nat) /\ Len(l) = 2
    BY <1>2, <2>1, U16Nat
  <2>3. field = IF h.form = "bare" THEN <<>> ELSE l \o list
    BY <2>1 DEF ExtensionField
  <2> HIDE DEF field, list
  <2>4. l \o list \in Seq(Nat) /\ Len(l \o list) = 2 + Len(list)
    <3>1. \A u, w \in Seq(Nat) : u \o w \in Seq(Nat) /\ Len(u \o w) = Len(u) + Len(w)
      BY SeqClosed
    <3>2. list \in Seq(Nat)
      BY <1>2
    <3> QED BY ONLY <2>2, <3>1, <3>2
  <2>5. L \in Nat
    BY <1>2
  <2>6. CASE h.form = "bare"
    BY <2>3, <2>5, <2>6
  <2>7. CASE h.form # "bare"
    BY <2>3, <2>4, <2>5, <2>7
  <2> HIDE DEF L
  <2> QED BY <2>6, <2>7
<1>4. body = FixedFields \o field /\ body \in Seq(Nat) /\ Len(body) = 41 + L
  <2>1. body = FixedFields \o field
    BY DEF Body
  <2>2. FixedFields \in Seq(Nat) /\ Len(FixedFields) = 41
    BY Fixed, ByteNat
  <2>3. \A u, w \in Seq(Nat) : u \o w \in Seq(Nat) /\ Len(u \o w) = Len(u) + Len(w)
    BY SeqClosed
  <2> HIDE DEF body, field, L
  <2> QED BY <1>3, <2>1, <2>2, <2>3
<1>5. m = head \o U16(Len(body)) \o body /\ m \in Seq(Nat) /\ Len(m) = 4 + Len(body)
  <2>1. m = head \o U16(Len(body)) \o body
    BY DEF Message
  <2>2. PICK l : l = U16(Len(body))
    OBVIOUS
  <2>3. l \in Seq(Nat) /\ Len(l) = 2 /\ Len(body) \in Nat
    BY <1>4, <2>2, U16Nat
  <2>4. head \in Seq(Nat) /\ Len(head) = 2
    OBVIOUS
  <2> HIDE DEF m, head, body
  <2>5. head \o l \o body \in Seq(Nat) /\ Len(head \o l \o body) = 2 + 2 + Len(body)
    <3>1. body \in Seq(Nat)
      BY <1>4
    <3>2. Three(Nat, head \o l \o body, head, l, body)
      BY <2>3, <2>4, <3>1, LiesThree
    <3> QED BY <2>3, <2>4, <3>2 DEF Three
  <2> QED BY <2>1, <2>2, <2>3, <2>5
<1>6. h.form = "bare" => Len(r) = 0
  <2> SUFFICES ASSUME h.form = "bare" PROVE Len(r) = 0
    OBVIOUS
  <2>1. Len(ExtensionItems(h)) = 0
    <3>1. h.exts = <<>>
      BY <1>0
    <3>3. Len(h.exts) = 0
      BY ONLY <3>1
    <3>2. \A n \in Nat : Len([i \in 1 .. n |-> ExtensionBytes(h, h.exts[i])]) = n
      OBVIOUS
    <3> QED BY <3>2, <3>3 DEF ExtensionItems
  <2>2. PICK c : Joins(ExtensionItems(h), c, r)
    BY <1>1
  <2> HIDE DEF r
  <2> QED BY <2>1, <2>2 DEF Joins
<1>7. Len(body) < 65536 /\ Len(list) < 65536 /\ Len(r) < 65536
  <2>1. Len(body) \in Nat /\ Len(body) = 41 + L /\ Len(m) = 4 + Len(body)
    BY <1>4, <1>5
  <2>2. \A a, b, c, d \in Nat : d = 4 + a /\ d < 65536 =>
          /\ a = 41 + 0 /\ c = 0 /\ b <= c => a < 65536 /\ b < 65536 /\ c < 65536
          /\ a = 41 + (2 + b) /\ c <= b + 1 => a < 65536 /\ b < 65536 /\ c < 65536
    OBVIOUS
  <2>3. h.form = "bare" => L = 0 /\ Len(r) = 0
    BY <1>6
  <2>4. h.form # "bare" => L = 2 + Len(list)
    OBVIOUS
  <2>5. Len(m) \in Nat /\ Len(m) < 65536
    BY <1>0, <1>5
  <2> HIDE DEF m, body, list, r, L
  <2>6. CASE h.form = "bare"
    BY ONLY <1>1, <1>2, <2>1, <2>2, <2>3, <2>5, <2>6
  <2>7. CASE h.form # "bare"
    BY ONLY <1>1, <1>2, <2>1, <2>2, <2>4, <2>5, <2>7
  <2> QED BY ONLY <2>6, <2>7
<1>8. r \in Seq(Byte)
  BY <1>0, <1>7, ExtensionsBytes
<1>9. list \in Seq(Byte)
  <2> HIDE DEF r, list
  <2>1. \/ list = r
        \/ list = Front(r)
    BY DEF ExtensionList, list, r
  <2> QED BY <1>8, <2>1, FrontIs
<1> DEFINE Closed == \A u, w \in Seq(Byte) : u \o w \in Seq(Byte) /\ Len(u \o w) = Len(u) + Len(w)
<1>10. Closed
  BY SeqClosed
<1>11. field \in Seq(Byte)
  <2>1. U16(Len(list)) \in Seq(Byte)
    BY <1>2, <1>7, U16Bytes
  <2>2. field = IF h.form = "bare" THEN <<>> ELSE U16(Len(list)) \o list
    BY DEF ExtensionField
  <2> HIDE DEF field, list
  <2> QED BY <1>9, <1>10, <2>1, <2>2
<1>12. body \in Seq(Byte)
  <2> HIDE DEF body, field
  <2> QED BY <1>4, <1>10, <1>11, Fixed
<1>13. m \in Seq(Byte)
  <2>1. U16(Len(body)) \in Seq(Byte)
    BY <1>4, <1>7, U16Bytes
  <2>2. head \in Seq(Byte)
    <3>1. 0 \in Byte /\ 1 \in Byte
      BY SmallByte
    <3> QED BY <3>1
  <2> HIDE DEF m, body, head
  <2> QED BY <1>5, <1>10, <1>12, <2>1, <2>2
<1> HIDE DEF r, list, body, m
<1>14. Len(body) = 41 + (IF h.form = "bare" THEN 0 ELSE 2 + Len(list))
  BY <1>4
<1> HIDE DEF L, field
<1> QED BY ONLY <1>0, <1>2, <1>5, <1>7, <1>8, <1>9, <1>12, <1>13, <1>14
        DEF Sized, r, list, body, m

LEMMA BytesThree == \A x, y, z \in Seq(Byte) : Three(Byte, x \o y \o z, x, y, z)
BY LiesThree

LEMMA BytesWithin ==
  ASSUME NEW r \in Seq(Byte), NEW s \in Seq(Byte), NEW b, NEW p \in Nat, NEW k \in Nat,
         Lies(b, p, r), Lies(r, k, s), k + Len(s) <= Len(r)
  PROVE  Lies(b, p + k, s)
BY LiesWithin

\* A record stands at the start of the bytes.
LEMMA RecordIs ==
  ASSUME NEW s \in Seq(Byte), Len(s) < 65536
  PROVE  /\ Record(s) \in Seq(Byte) /\ Len(Record(s)) = 5 + Len(s)
         /\ \A b \in Seq(Byte) : Lies(b, 0, Record(s)) /\ 5 + Len(s) <= Len(b) =>
              b[1] = 22 /\ VectorEnd(b, 3, 2) = 5 + Len(s) /\ Lies(b, 5, s)
<1>1. PICK l : l = U16(Len(s)) /\ l \in Seq(Byte) /\ Len(l) = 2
  <2>1. Len(s) \in Nat
    OBVIOUS
  <2> QED BY <2>1, U16Bytes
<1> DEFINE t == <<22, 3, 1>>
<1>2. t \in Seq(Byte) /\ Len(t) = 3 /\ t[1] = 22
  <2>1. 22 \in Byte /\ 3 \in Byte /\ 1 \in Byte
    BY SmallByte
  <2> QED BY <2>1
<1> HIDE DEF t
<1>3. PICK r : r = Record(s) /\ Three(Byte, r, t, l, s)
  <2>1. Record(s) = t \o l \o s
    BY <1>1 DEF Record, t
  <2>2. Three(Byte, t \o l \o s, t, l, s)
    BY ONLY <1>1, <1>2, BytesThree, s \in Seq(Byte)
  <2>3. Three(Byte, Record(s), t, l, s)
    BY ONLY <2>1, <2>2
  <2> QED BY ONLY <2>3
<1>4. /\ r \in Seq(Byte) /\ Len(r) = 3 + 2 + Len(s)
      /\ Lies(r, 0, t) /\ Lies(r, 3, l) /\ Lies(r, 3 + 2, s)
  BY <1>1, <1>2, <1>3 DEF Three
<1>5. Len(s) \in Nat /\ Len(r) = 5 + Len(s) /\ Lies(r, 5, s)
  BY <1>4
<1>6. ASSUME NEW b \in Seq(Byte), Lies(b, 0, r), 5 + Len(s) <= Len(b)
      PROVE  b[1] = 22 /\ VectorEnd(b, 3, 2) = 5 + Len(s) /\ Lies(b, 5, s)
  <2>1. Lies(b, 0 + 0, t)
    <3>1. 0 \in Nat /\ 0 + Len(t) <= Len(r)
      BY <1>2, <1>5
    <3> QED BY ONLY <1>2, <1>4, <1>6, <3>1, BytesWithin
  <2>2. Lies(b, 0 + 3, l)
    <3>1. 0 \in Nat /\ 3 \in Nat /\ 3 + Len(l) <= Len(r)
      BY <1>1, <1>5
    <3> QED BY ONLY <1>1, <1>4, <1>6, <3>1, BytesWithin
  <2>3. Lies(b, 0 + 5, s)
    <3>1. 0 \in Nat /\ 5 \in Nat /\ 5 + Len(s) <= Len(r)
      BY <1>5
    <3> QED BY ONLY <1>4, <1>5, <1>6, <3>1, BytesWithin, s \in Seq(Byte)
  <2>4. b[1] = 22
    <3>1. 1 \in 1 .. Len(t) /\ (0 + 0) + 1 = 1
      BY <1>2
    <3> QED BY <1>2, <2>1, <3>1 DEF Lies
  <2>5. VectorEnd(b, 3, 2) = 3 + 2 + Len(s)
    <3>1. Lies(b, 3, U16(Len(s))) /\ 3 \in Nat /\ 3 + 2 <= Len(b)
      <4>1. 0 + 3 = 3 /\ \A x, y \in Nat : 5 + x <= y => 3 + 2 <= y
        OBVIOUS
      <4>2. Len(b) \in Nat
        OBVIOUS
      <4> QED BY ONLY <1>1, <1>5, <1>6, <2>2, <4>1, <4>2
    <3> QED BY <1>5, <3>1, Read16
  <2>6. 0 + 5 = 5 /\ 3 + 2 + Len(s) = 5 + Len(s)
    BY <1>5
  <2> QED BY <2>3, <2>4, <2>5, <2>6
<1> QED BY <1>3, <1>4, <1>5, <1>6

\* A byte of the message is where it belongs in b, for the first k of them.
Behind5(b, k, s) == \A j \in 1 .. k : b[5 + j] = s[j]

\* The head of the message.
LEMMA HeadIs ==
  ASSUME NEW h, Sized(h), NEW b \in Seq(Byte), NEW k \in Nat, 4 <= k, 5 + k <= Len(b),
         Behind5(b, k, Message(h))
  PROVE  b[6] = 1 /\ VectorEnd(b, 6, 3) = 9 + Len(Body(h))
<1> DEFINE body == Body(h)
           m == Message(h)
<1>1. body \in Seq(Byte) /\ Len(body) \in Nat /\ Len(body) < 65536
  <2>1. body \in Seq(Byte) /\ Len(m) = 4 + Len(body) /\ Len(m) < 65536
    BY DEF Sized
  <2>2. Len(body) \in Nat
    BY <2>1
  <2> HIDE DEF body, m
  <2> QED BY <2>1, <2>2
<1>2. PICK l : l = U16(Len(body)) /\ l \in Seq(Byte) /\ Len(l) = 2 /\ 256 * l[1] + l[2] = Len(body)
  <2> HIDE DEF body
  <2> QED BY <1>1, U16Is
<1>3. PICK t : t = <<1, 0>> /\ t \in Seq(Byte) /\ Len(t) = 2 /\ t[1] = 1 /\ t[2] = 0
  <2>1. 1 \in Byte /\ 0 \in Byte
    BY SmallByte
  <2>2. <<1, 0>> \in Seq(Byte) /\ Len(<<1, 0>>) = 2 /\ <<1, 0>>[1] = 1 /\ <<1, 0>>[2] = 0
    BY <2>1
  <2> QED BY <2>2
<1>4. Three(Byte, m, t, l, body)
  <2>1. m = t \o l \o body
    BY <1>2, <1>3 DEF Message
  <2>2. Three(Byte, t \o l \o body, t, l, body)
    <3> HIDE DEF body
    <3>1. t \in Seq(Byte) /\ l \in Seq(Byte) /\ body \in Seq(Byte)
      BY <1>1, <1>2, <1>3
    <3> QED BY ONLY <3>1, BytesThree
  <2> QED BY <2>1, <2>2
<1>5. m[1] = 1 /\ m[2] = 0 /\ m[3] = l[1] /\ m[4] = l[2]
  <2>1. Lies(m, 0, t) /\ Lies(m, 2, l)
    BY <1>3, <1>4 DEF Three
  <2>2. m[0 + 1] = t[1] /\ m[0 + 2] = t[2] /\ m[2 + 1] = l[1] /\ m[2 + 2] = l[2]
    <3> HIDE DEF m
    <3>1. 1 \in 1 .. 2 /\ 2 \in 1 .. 2
      OBVIOUS
    <3> QED BY ONLY <1>2, <1>3, <2>1, <3>1 DEF Lies
  <2>3. 0 + 1 = 1 /\ 0 + 2 = 2 /\ 2 + 1 = 3 /\ 2 + 2 = 4
    OBVIOUS
  <2> QED BY ONLY <1>3, <2>2, <2>3
<1>6. b[6] = 1 /\ b[7] = 0 /\ b[8] = l[1] /\ b[9] = l[2]
  <2>1. \A j \in 1 .. k : b[5 + j] = m[j]
    BY DEF Behind5
  <2>2. 1 \in 1 .. k /\ 2 \in 1 .. k /\ 3 \in 1 .. k /\ 4 \in 1 .. k
    OBVIOUS
  <2>3. b[5 + 1] = m[1] /\ b[5 + 2] = m[2] /\ b[5 + 3] = m[3] /\ b[5 + 4] = m[4]
    BY ONLY <2>1, <2>2
  <2>4. 5 + 1 = 6 /\ 5 + 2 = 7 /\ 5 + 3 = 8 /\ 5 + 4 = 9
    OBVIOUS
  <2> QED BY ONLY <1>5, <2>3, <2>4
<1>7. Num(b, 6, 3) = 256 * (256 * b[7] + b[8]) + b[9]
  <2>1. 6 \in Nat /\ 6 + 3 <= Len(b)
    OBVIOUS
  <2>2. Num(b, 6, 3) = 256 * (256 * b[6 + 1] + b[6 + 2]) + b[6 + 3]
    BY <2>1, Nums
  <2>3. 6 + 1 = 7 /\ 6 + 2 = 8 /\ 6 + 3 = 9
    OBVIOUS
  <2> QED BY ONLY <2>2, <2>3
<1>8. l[1] \in Nat /\ l[2] \in Nat
  <2>1. 1 \in 1 .. Len(l) /\ 2 \in 1 .. Len(l)
    BY <1>2
  <2> QED BY <1>2, <2>1, ByteAt
<1>9. Num(b, 6, 3) = Len(body)
  <2>1. \A x, y \in Nat : 256 * (256 * 0 + x) + y = 256 * x + y
    OBVIOUS
  <2> QED BY ONLY <1>2, <1>6, <1>7, <1>8, <2>1
<1>10. \A x \in Nat : 6 + 3 + x = 9 + x
  OBVIOUS
<1> HIDE DEF body
<1> QED BY <1>1, <1>6, <1>9, <1>10 DEF VectorEnd, body

LEMMA BytesParts ==
  ASSUME NEW x \in Seq(Byte), NEW y \in Seq(Byte), NEW b, NEW p \in Nat, Lies(b, p, x \o y)
  PROVE  Lies(b, p, x) /\ Lies(b, p + Len(x), y) /\ Len(x \o y) = Len(x) + Len(y)
BY LiesParts

LEMMA FieldIs ==
  ASSUME NEW h, Sized(h)
  PROVE  /\ ExtensionField(h) \in Seq(Byte)
         /\ h.form # "bare" => /\ U16(Len(ExtensionList(h))) \in Seq(Byte)
                               /\ Len(U16(Len(ExtensionList(h)))) = 2
                               /\ Len(ExtensionList(h)) \in Nat /\ Len(ExtensionList(h)) < 65536
<1>1. ExtensionList(h) \in Seq(Byte) /\ Len(ExtensionList(h)) <= Len(Extensions(h))
      /\ Len(Extensions(h)) < 65536 /\ Extensions(h) \in Seq(Byte)
  BY DEF Sized
<1>2. Len(ExtensionList(h)) \in Nat /\ Len(ExtensionList(h)) < 65536
  <2>1. Len(ExtensionList(h)) \in Nat /\ Len(Extensions(h)) \in Nat
    BY <1>1
  <2> QED BY ONLY <1>1, <2>1
<1>3. U16(Len(ExtensionList(h))) \in Seq(Byte) /\ Len(U16(Len(ExtensionList(h)))) = 2
  BY <1>2, U16Bytes
<1>4. ExtensionField(h) \in Seq(Byte)
  <2>1. U16(Len(ExtensionList(h))) \o ExtensionList(h) \in Seq(Byte)
    BY ONLY <1>1, <1>3, SeqClosed
  <2>2. CASE h.form = "bare"
    BY <2>2 DEF ExtensionField
  <2>3. CASE h.form # "bare"
    BY <2>1, <2>3 DEF ExtensionField
  <2> QED BY <2>2, <2>3
<1> QED BY <1>2, <1>3, <1>4

\* The whole message behind the header of one record, and nothing else.
Whole(h, b) == Lies(b, 5, Message(h)) /\ Len(b) = 5 + Len(Message(h))

\* Where the parts of the message are.
LEMMA BodyIs ==
  ASSUME NEW h, Sized(h), NEW b \in Seq(Byte), Whole(h, b)
  PROVE  /\ Lies(b, 9, FixedFields) /\ Lies(b, 50, ExtensionField(h))
         /\ Len(b) = 9 + Len(Body(h)) /\ Len(Body(h)) \in Nat
<1> DEFINE body == Body(h)
           m == Message(h)
           field == ExtensionField(h)
<1>1. /\ body \in Seq(Byte) /\ m \in Seq(Byte) /\ Len(m) = 4 + Len(body) /\ Len(m) < 65536
      /\ Lies(b, 5, m) /\ Len(b) = 5 + Len(m)
  BY DEF Sized, Whole
<1>2. Len(body) \in Nat /\ Len(body) < 65536 /\ Len(b) = 9 + Len(body)
  <2>1. Len(body) \in Nat /\ Len(m) \in Nat
    <3> HIDE DEF body, m
    <3> QED BY ONLY <1>1
  <2>2. \A x, y, z \in Nat : y = 4 + x /\ y < 65536 => x < 65536 /\ 5 + y = 9 + x
    OBVIOUS
  <2> HIDE DEF body, m
  <2> QED BY ONLY <1>1, <2>1, <2>2
<1>3. PICK l : l = U16(Len(body)) /\ l \in Seq(Byte) /\ Len(l) = 2
  <2> HIDE DEF body
  <2> QED BY <1>2, U16Bytes
<1> DEFINE t == <<1, 0>>
<1>4. t \in Seq(Byte) /\ Len(t) = 2
  <2>1. 1 \in Byte /\ 0 \in Byte
    BY SmallByte
  <2> QED BY <2>1
<1>5. m = t \o l \o body
  BY <1>3 DEF Message
<1> HIDE DEF t
<1>6. Lies(m, 4, body)
  <2> HIDE DEF m, body
  <2>1. t \in Seq(Byte) /\ l \in Seq(Byte) /\ body \in Seq(Byte)
    BY <1>1, <1>3, <1>4
  <2>2. Three(Byte, t \o l \o body, t, l, body)
    BY ONLY <2>1, BytesThree
  <2>3. Lies(t \o l \o body, 2 + 2, body)
    BY ONLY <1>3, <1>4, <2>2 DEF Three
  <2> QED BY <1>5, <2>3
<1>7. Lies(b, 9, body)
  <2> HIDE DEF m, body
  <2>1. 5 \in Nat /\ 4 \in Nat /\ 4 + Len(body) <= Len(m)
    BY <1>1, <1>2
  <2>2. Lies(b, 5 + 4, body)
    BY ONLY <1>1, <1>6, <2>1, BytesWithin
  <2> QED BY <2>2
<1>8. Lies(b, 9, FixedFields) /\ Lies(b, 9 + 41, field)
  <2>1. Lies(b, 9, FixedFields \o field) /\ 9 \in Nat
    BY <1>7 DEF Body
  <2>2. field \in Seq(Byte) /\ FixedFields \in Seq(Byte) /\ Len(FixedFields) = 41
    BY FieldIs, Fixed
  <2> HIDE DEF field
  <2>3. Lies(b, 9, FixedFields) /\ Lies(b, 9 + Len(FixedFields), field)
    BY ONLY <2>1, <2>2, BytesParts
  <2> QED BY ONLY <2>2, <2>3
<1> HIDE DEF field, body
<1>9. Lies(b, 50, field)
  BY <1>8
<1> QED BY ONLY <1>2, <1>8, <1>9 DEF field, body

\* The fields before the extensions are whole and end behind byte 50.
Before(b) ==
  /\ VectorEnd(b, 43, 1) = 44 /\ VectorEnd(b, 44, 2) = 48 /\ VectorEnd(b, 48, 1) = 50

LEMMA BeforeIs ==
  ASSUME NEW b \in Seq(Byte), 50 <= Len(b), Lies(b, 9, FixedFields)
  PROVE  Before(b)
<1>1. b[44] = 0 /\ b[45] = 0 /\ b[46] = 2 /\ b[49] = 1
  <2>1. /\ b[9 + 35] = FixedFields[35] /\ b[9 + 36] = FixedFields[36]
        /\ b[9 + 37] = FixedFields[37] /\ b[9 + 40] = FixedFields[40]
    <3>1. 35 \in 1 .. 41 /\ 36 \in 1 .. 41 /\ 37 \in 1 .. 41 /\ 40 \in 1 .. 41
      OBVIOUS
    <3>2. \A j \in 1 .. 41 : b[9 + j] = FixedFields[j]
      BY Fixed DEF Lies
    <3> QED BY ONLY <3>1, <3>2
  <2>2. 9 + 35 = 44 /\ 9 + 36 = 45 /\ 9 + 37 = 46 /\ 9 + 40 = 49
    OBVIOUS
  <2> QED BY ONLY <2>1, <2>2, Fixed
<1>2. /\ 43 + 1 <= Len(b) /\ 44 + 2 <= Len(b) /\ 48 + 1 <= Len(b)
      /\ 43 \in Nat /\ 44 \in Nat /\ 48 \in Nat
  OBVIOUS
<1>3. Num(b, 43, 1) = b[43 + 1] /\ Num(b, 48, 1) = b[48 + 1]
  BY <1>2, Num1
<1>4. Num(b, 44, 2) = 256 * b[44 + 1] + b[44 + 2]
  BY <1>2, Num2
<1>5. 43 + 1 = 44 /\ 48 + 1 = 49 /\ 44 + 1 = 45 /\ 44 + 2 = 46 /\ 256 * 0 + 2 = 2
  OBVIOUS
<1>6. Num(b, 43, 1) = 0 /\ Num(b, 48, 1) = 1 /\ Num(b, 44, 2) = 2
  BY ONLY <1>1, <1>3, <1>4, <1>5
<1> QED BY ONLY <1>6 DEF Before, VectorEnd

\* The verdict on a whole message hangs on its extensions alone.
LEMMA WholeKind ==
  ASSUME NEW h, Sized(h), NEW b \in Seq(Byte), Whole(h, b)
  PROVE  /\ h.form = "bare" => RecordKind(b, 5, Len(b)) = "Other"
         /\ h.form # "bare" => /\ RecordKind(b, 5, Len(b)) = ExtensionsKind(b, 52, Len(b))
                               /\ Carries(h, b, 52, Len(b))
                               /\ Len(b) = 52 + Len(ExtensionList(h))
<1> DEFINE e == Len(b)
           list == ExtensionList(h)
           r == Extensions(h)
<1>1. /\ Lies(b, 9, FixedFields) /\ Lies(b, 50, ExtensionField(h))
      /\ e = 9 + Len(Body(h)) /\ Len(Body(h)) \in Nat /\ e \in Nat
  BY BodyIs
<1>2. /\ Len(Body(h)) = 41 + (IF h.form = "bare" THEN 0 ELSE 2 + Len(list))
      /\ list \in Seq(Byte) /\ Len(list) \in Nat /\ Len(list) < 65536
      /\ r \in Seq(Byte) /\ Len(r) \in Nat /\ Len(list) <= Len(r) /\ Lies(r, 0, list)
      /\ Len(r) < 65536 /\ IsNames(h.alpn) /\ h.exts \in Seq(ExtensionName)
  <2>1. /\ Len(Body(h)) = 41 + (IF h.form = "bare" THEN 0 ELSE 2 + Len(list))
        /\ list \in Seq(Byte) /\ r \in Seq(Byte) /\ Len(list) <= Len(r) /\ Lies(r, 0, list)
        /\ Len(r) < 65536 /\ IsNames(h.alpn) /\ h.exts \in Seq(ExtensionName)
    BY DEF Sized
  <2> HIDE DEF list, r
  <2>2. Len(list) \in Nat /\ Len(r) \in Nat
    BY ONLY <2>1
  <2>3. \A x, y \in Nat : x <= y /\ y < 65536 => x < 65536
    OBVIOUS
  <2> QED BY ONLY <2>1, <2>2, <2>3
<1>3. e = IF h.form = "bare" THEN 50 ELSE 52 + Len(list)
  <2> HIDE DEF e, list
  <2> QED BY ONLY <1>1, <1>2
<1>4. 50 <= e
  <2> HIDE DEF e, list
  <2> QED BY ONLY <1>2, <1>3
<1>5. Before(b)
  BY <1>1, <1>4, BeforeIs
<1>6. b[6] = 1 /\ VectorEnd(b, 6, 3) = e
  <2>1. Sized(h) /\ Message(h) \in Seq(Byte) /\ Len(Message(h)) = 4 + Len(Body(h))
    BY DEF Sized
  <2>2. Len(Message(h)) \in Nat /\ 4 <= Len(Message(h)) /\ 5 + Len(Message(h)) <= Len(b)
    <3>1. Len(b) = 5 + Len(Message(h))
      BY DEF Whole
    <3>2. \A x, y \in Nat : y = 4 + x => 4 <= y /\ 5 + y <= 5 + y
      OBVIOUS
    <3>3. Len(Message(h)) \in Nat
      BY <2>1
    <3> QED BY ONLY <1>1, <2>1, <3>1, <3>2, <3>3
  <2>3. Behind5(b, Len(Message(h)), Message(h))
    BY DEF Whole, Lies, Behind5
  <2>4. b[6] = 1 /\ VectorEnd(b, 6, 3) = 9 + Len(Body(h))
    BY <2>1, <2>2, <2>3, HeadIs
  <2> QED BY <1>1, <2>4
<1>7. RecordKind(b, 5, e) = BodyKind(b, 9, e)
  <2>1. Has(5, 1, e) /\ Has(6, 3, e) /\ 5 + 1 = 6 /\ 5 + 4 = 9
    <3> HIDE DEF e
    <3> QED BY <1>1, <1>4 DEF Has
  <2>2. HasVector(b, 6, 3, e)
    <3> HIDE DEF e
    <3> QED BY <1>1, <1>6, <2>1 DEF HasVector
  <2> HIDE DEF e
  <2> QED BY ONLY <1>6, <2>1, <2>2 DEF RecordKind
<1>8. BodyKind(b, 9, e) = IF ~Has(50, 2, e) THEN "Other"
                          ELSE IF ~HasVector(b, 50, 2, e) THEN "Incomplete"
                          ELSE ExtensionsKind(b, 52, VectorEnd(b, 50, 2))
  <2>1. /\ Has(43, 1, e) /\ Has(44, 2, e) /\ Has(48, 1, e) /\ 9 + RANDOM_END = 43
        /\ 44 <= e /\ 48 <= e /\ 50 <= e /\ 50 + 2 = 52
    <3> HIDE DEF e
    <3> QED BY <1>1, <1>4 DEF Has, RANDOM_END
  <2>2. HasVector(b, 43, 1, e) /\ HasVector(b, 44, 2, e) /\ HasVector(b, 48, 1, e)
    <3> HIDE DEF e
    <3> QED BY ONLY <1>5, <2>1 DEF HasVector, Before
  <2> HIDE DEF e
  <2> QED BY ONLY <1>5, <2>1, <2>2 DEF BodyKind, Before
<1>9. CASE h.form = "bare"
  <2>1. e = 50 /\ ~Has(50, 2, 50)
    BY <1>3, <1>9 DEF Has
  <2> HIDE DEF e
  <2> QED BY <1>7, <1>8, <1>9, <2>1 DEF e
<1>10. CASE h.form # "bare"
  <2>1. e = 52 + Len(list)
    BY <1>3, <1>10
  <2>2. Lies(b, 50, U16(Len(list))) /\ Lies(b, 52, list)
    <3>1. /\ U16(Len(list)) \in Seq(Byte) /\ Len(U16(Len(list))) = 2
      BY <1>10, FieldIs
    <3>2. ExtensionField(h) = U16(Len(list)) \o list
      BY <1>10 DEF ExtensionField
    <3> HIDE DEF e, list
    <3>3. PICK l : l = U16(Len(list))
      OBVIOUS
    <3>4. Lies(b, 50, l \o list) /\ 50 \in Nat
      BY <1>1, <3>2, <3>3
    <3>5. l \in Seq(Byte) /\ Len(l) = 2 /\ list \in Seq(Byte)
      BY <1>2, <3>1, <3>3
    <3>6. Lies(b, 50, l) /\ Lies(b, 50 + Len(l), list)
      BY ONLY <3>4, <3>5, BytesParts
    <3>7. 50 + 2 = 52
      OBVIOUS
    <3> QED BY ONLY <3>3, <3>5, <3>6, <3>7
  <2>3. VectorEnd(b, 50, 2) = e
    <3>1. VectorEnd(b, 50, 2) = 50 + 2 + Len(list)
      <4>1. 50 + 2 <= Len(b) /\ 50 \in Nat
        <5> HIDE DEF list
        <5> QED BY <1>2, <2>1
      <4> HIDE DEF e, list
      <4> QED BY <1>2, <2>2, <4>1, Read16
    <3>2. \A x \in Nat : 50 + 2 + x = 52 + x
      OBVIOUS
    <3> HIDE DEF e, list
    <3> QED BY ONLY <1>2, <2>1, <3>1, <3>2
  <2>4. Has(50, 2, e) /\ HasVector(b, 50, 2, e)
    <3> HIDE DEF e, list
    <3>1. 50 + 2 <= e /\ e <= e
      BY <1>1, <1>2, <2>1
    <3> QED BY ONLY <2>3, <3>1 DEF Has, HasVector
  <2>5. RecordKind(b, 5, e) = ExtensionsKind(b, 52, e)
    <3> HIDE DEF e
    <3> QED BY ONLY <1>7, <1>8, <2>3, <2>4
  <2>6. LiesTo(b, 52, r)
    <3> SUFFICES ASSUME NEW j \in 1 .. Len(r), 52 + j <= Len(b) PROVE b[52 + j] = r[j]
      BY DEF LiesTo
    <3>1. j \in 1 .. Len(list) /\ 0 + j = j
      <4> HIDE DEF list, r
      <4> QED BY <1>2, <2>1
    <3>2. b[52 + j] = list[j] /\ r[0 + j] = list[j]
      <4> HIDE DEF list, r, e
      <4> QED BY ONLY <1>2, <2>2, <3>1 DEF Lies
    <3> QED BY <3>1, <3>2
  <2>7. Carries(h, b, 52, e)
    <3>1. e <= Len(b) /\ e <= 52 + Len(r)
      <4>1. e <= 52 + Len(r)
        <5> HIDE DEF list, r, e
        <5> QED BY ONLY <1>2, <2>1
      <4> QED BY <1>1, <4>1
    <3> HIDE DEF e
    <3> QED BY ONLY <1>2, <2>6, <3>1 DEF Carries, r
  <2> QED BY <1>10, <2>1, <2>5, <2>7
<1> QED BY <1>9, <1>10

\* An extension that counts is one that signals.
LEMMA SignalsIs ==
  ASSUME NEW h, Sized(h)
  PROVE  (\E j \in 1 .. Len(h.exts) : Hits(h, h.exts[j])) <=>
           "ech" \in Range(h.exts) \/ OffersAcme(h)
<1>1. h.exts \in Seq(ExtensionName) /\ h.alpn \in Seq(Seq(Byte))
  BY DEF Sized, IsNames
<1>2. \A x : x \in Range(h.exts) <=> \E j \in 1 .. Len(h.exts) : h.exts[j] = x
  BY <1>1 DEF Range
<1>3. \A x : x \in Range(h.alpn) <=> \E j \in 1 .. Len(h.alpn) : h.alpn[j] = x
  BY <1>1 DEF Range
<1>4. OffersAcme(h) <=> /\ \E j \in 1 .. Len(h.exts) : h.exts[j] = "alpn"
                        /\ \E k \in 1 .. Len(h.alpn) : h.alpn[k] = ACME_ALPN
  BY ONLY <1>2, <1>3 DEF OffersAcme
<1> QED BY ONLY <1>2, <1>4 DEF Hits

\* Only the first record is read, and it ends inside the message.
LEMMA SplitKind ==
  ASSUME NEW h, Sized(h), NEW b \in Seq(Byte), 46 <= Len(b),
         Lies(b, 5, SubSeq(Message(h), 1, 41))
  PROVE  RecordKind(b, 5, 46) = "Incomplete"
<1> DEFINE m == Message(h)
<1>1. m \in Seq(Byte) /\ Len(m) = 4 + Len(Body(h)) /\ Body(h) \in Seq(Byte)
  BY DEF Sized
<1>2. Len(Body(h)) \in Nat /\ 41 <= Len(Body(h)) /\ Len(m) \in Nat /\ 41 <= Len(m)
  <2>1. Len(Body(h)) = 41 + (IF h.form = "bare" THEN 0 ELSE 2 + Len(ExtensionList(h)))
    BY DEF Sized
  <2>2. h.form # "bare" => Len(ExtensionList(h)) \in Nat
    BY FieldIs
  <2>3. Len(Body(h)) \in Nat
    BY <1>1
  <2>4. 41 <= Len(Body(h))
    BY ONLY <2>1, <2>2
  <2> HIDE DEF m
  <2> QED BY ONLY <1>1, <2>3, <2>4
<1>3. Behind5(b, 41, m)
  <2> HIDE DEF m
  <2>1. PICK s : s = SubSeq(m, 1, 41)
    OBVIOUS
  <2>2. Len(s) = 41 /\ \A j \in 1 .. 41 : s[j] = m[1 + j - 1]
    BY ONLY <1>1, <1>2, <2>1
  <2>3. Lies(b, 5, s)
    BY <2>1 DEF m
  <2>4. \A j \in 1 .. 41 : 1 + j - 1 = j
    OBVIOUS
  <2> QED BY ONLY <2>2, <2>3, <2>4 DEF Lies, Behind5
<1>4. b[6] = 1 /\ VectorEnd(b, 6, 3) = 9 + Len(Body(h))
  <2>1. 41 \in Nat /\ 4 <= 41 /\ 5 + 41 <= Len(b)
    OBVIOUS
  <2> QED BY <1>3, <2>1, HeadIs
<1>5. ~HasVector(b, 6, 3, 46)
  <2>1. \A x \in Nat : 41 <= x => ~(9 + x <= 46)
    OBVIOUS
  <2> QED BY ONLY <1>2, <1>4, <2>1 DEF HasVector
<1>6. Has(5, 1, 46) /\ 5 + 1 = 6
  BY DEF Has
<1> QED BY ONLY <1>4, <1>5, <1>6 DEF RecordKind

\* The first record of b ends at e.
Opens(b, e) == b \in Seq(Byte) /\ Len(b) \in Nat /\ 5 <= e /\ e <= Len(b) /\ b[1] = 22 /\ VectorEnd(b, 3, 2) = e

LEMMA OpensKind ==
  ASSUME NEW b, NEW e \in Nat, Opens(b, e)
  PROVE  Classify(b, Len(b)) = RecordKind(b, 5, e)
<1>1. /\ Len(b) \in Nat /\ 5 <= Len(b) /\ e <= Len(b) /\ b[1] = 22 /\ VectorEnd(b, 3, 2) = e
  BY DEF Opens
<1>2. Has(0, 3, Len(b)) /\ HasVector(b, 3, 2, Len(b)) /\ Len(b) # 0
  BY <1>1 DEF Has, HasVector
<1> QED BY ONLY <1>1, <1>2 DEF Classify

\* What carries a ClientHello, and the verdict on all of it.
LEMMA OneRecord ==
  ASSUME NEW h, IsHello(h), h.form \notin {"http", "split"}
  PROVE  /\ h.bytes \in Seq(Byte) /\ Len(h.bytes) \in Nat /\ Len(h.bytes) # 0 /\ Whole(h, h.bytes)
         /\ Classify(h.bytes, Len(h.bytes)) = RecordKind(h.bytes, 5, Len(h.bytes))
<1> DEFINE m == Message(h)
           b == h.bytes
<1>1. Sized(h)
  BY HelloSized
<1>2. m \in Seq(Byte) /\ Len(m) < 65536 /\ Len(m) \in Nat
  BY <1>1 DEF Sized
<1>3. b = Record(m)
  BY DEF IsHello, BytesOf
<1>4. /\ Record(m) \in Seq(Byte) /\ Len(Record(m)) = 5 + Len(m)
      /\ \A d \in Seq(Byte) : Lies(d, 0, Record(m)) /\ 5 + Len(m) <= Len(d) =>
           d[1] = 22 /\ VectorEnd(d, 3, 2) = 5 + Len(m) /\ Lies(d, 5, m)
  <2> HIDE DEF m
  <2> QED BY <1>2, RecordIs
<1> HIDE DEF m, b
<1>5. b \in Seq(Byte) /\ Len(b) = 5 + Len(m) /\ Lies(b, 0, Record(m)) /\ Len(b) \in Nat
  <2>1. Lies(b, 0, b)
    <3>1. \A j \in 1 .. Len(b) : 0 + j = j
      BY <1>2, <1>3, <1>4
    <3> QED BY <3>1 DEF Lies
  <2>2. 5 + Len(m) \in Nat
    BY <1>2
  <2> QED BY ONLY <1>3, <1>4, <2>1, <2>2
<1>6. 5 + Len(m) <= Len(b) /\ 5 <= Len(b) /\ Len(b) <= Len(b) /\ Len(b) # 0
  BY <1>2, <1>5
<1>7. b[1] = 22 /\ VectorEnd(b, 3, 2) = 5 + Len(m) /\ Lies(b, 5, m)
  BY ONLY <1>4, <1>5, <1>6
<1>8. Opens(b, Len(b))
  BY ONLY <1>5, <1>6, <1>7 DEF Opens
<1>9. Classify(b, Len(b)) = RecordKind(b, 5, Len(b))
  BY ONLY <1>5, <1>8, OpensKind
<1> QED BY ONLY <1>5, <1>6, <1>7, <1>9 DEF Whole, m, b

LEMMA BytesFirst ==
  ASSUME NEW s \in Seq(Byte), NEW k \in Nat, k <= Len(s)
  PROVE  SubSeq(s, 1, k) \in Seq(Byte) /\ Len(SubSeq(s, 1, k)) = k
OBVIOUS

LEMMA TwoRecords ==
  ASSUME NEW h, IsHello(h), h.form = "split"
  PROVE  /\ h.bytes \in Seq(Byte) /\ Len(h.bytes) \in Nat /\ Len(h.bytes) # 0
         /\ Classify(h.bytes, Len(h.bytes)) = "Incomplete"
<1> DEFINE m == Message(h)
           b == h.bytes
<1>1. Sized(h)
  BY HelloSized
<1>2. m \in Seq(Byte) /\ Len(m) < 65536 /\ Len(m) \in Nat /\ 45 <= Len(m)
  <2>1. m \in Seq(Byte) /\ Len(m) < 65536 /\ Len(m) = 4 + Len(Body(h))
    BY <1>1 DEF Sized
  <2>2. Len(Body(h)) = 41 + (IF h.form = "bare" THEN 0 ELSE 2 + Len(ExtensionList(h)))
    BY <1>1 DEF Sized
  <2>3. h.form # "bare" => Len(ExtensionList(h)) \in Nat
    BY <1>1, FieldIs
  <2> HIDE DEF m
  <2>4. Len(m) \in Nat
    BY <2>1
  <2> QED BY ONLY <2>1, <2>2, <2>3, <2>4
<1>3. b = Record(SubSeq(m, 1, 41)) \o Record(SubSeq(m, 42, Len(m)))
  BY DEF IsHello, BytesOf
<1> HIDE DEF m, b
<1>x. PICK x : x = SubSeq(m, 1, 41)
  OBVIOUS
<1>4. x \in Seq(Byte) /\ Len(x) = 41 /\ Len(x) < 65536
  <2>1. x \in Seq(Byte) /\ Len(x) = 41
    <3>1. 41 \in Nat /\ 41 <= Len(m) /\ m \in Seq(Byte)
      BY ONLY <1>2
    <3> QED BY ONLY <1>x, <3>1, BytesFirst
  <2> QED BY ONLY <2>1
<1>y. PICK y : y = SubSeq(m, 42, Len(m))
  OBVIOUS
<1>5. y \in Seq(Byte) /\ Len(y) < 65536
  <2>1. y \in Seq(Byte) /\ Len(y) = Len(m) - 42 + 1
    BY ONLY <1>2, <1>y
  <2>2. Len(m) - 42 + 1 < 65536
    BY ONLY <1>2
  <2> QED BY ONLY <2>1, <2>2
<1>6. PICK r : /\ r = Record(x) /\ r \in Seq(Byte) /\ Len(r) = 5 + 41
               /\ \A d \in Seq(Byte) : Lies(d, 0, r) /\ 5 + 41 <= Len(d) =>
                    d[1] = 22 /\ VectorEnd(d, 3, 2) = 5 + 41 /\ Lies(d, 5, x)
  <2>1. /\ Record(x) \in Seq(Byte) /\ Len(Record(x)) = 5 + Len(x)
        /\ \A d \in Seq(Byte) : Lies(d, 0, Record(x)) /\ 5 + Len(x) <= Len(d) =>
             d[1] = 22 /\ VectorEnd(d, 3, 2) = 5 + Len(x) /\ Lies(d, 5, x)
    <3>1. x \in Seq(Byte) /\ Len(x) < 65536
      BY <1>4
    <3> QED BY ONLY <3>1, RecordIs
  <2>2. Len(x) = 41
    BY <1>4
  <2>3. PICK r : r = Record(x)
    OBVIOUS
  <2>4. /\ r \in Seq(Byte) /\ Len(r) = 5 + 41
        /\ \A d \in Seq(Byte) : Lies(d, 0, r) /\ 5 + 41 <= Len(d) =>
             d[1] = 22 /\ VectorEnd(d, 3, 2) = 5 + 41 /\ Lies(d, 5, x)
    BY ONLY <2>1, <2>2, <2>3
  <2> QED BY ONLY <2>3, <2>4
<1>7. PICK s : s = Record(y) /\ s \in Seq(Byte)
  <2>1. Record(y) \in Seq(Byte)
    BY ONLY <1>5, RecordIs
  <2> QED BY ONLY <2>1
<1>8. b = r \o s
  BY ONLY <1>3, <1>x, <1>y, <1>6, <1>7
<1>9. b \in Seq(Byte) /\ Len(b) = 46 + Len(s) /\ Len(b) \in Nat /\ 46 <= Len(b)
  <2>1. r \o s \in Seq(Byte) /\ Len(r \o s) = Len(r) + Len(s) /\ Len(s) \in Nat
    <3>1. \A u, w \in Seq(Byte) : u \o w \in Seq(Byte) /\ Len(u \o w) = Len(u) + Len(w)
      BY SeqClosed
    <3>2. r \in Seq(Byte) /\ s \in Seq(Byte)
      BY <1>6, <1>7
    <3> QED BY ONLY <3>1, <3>2
  <2>2. b \in Seq(Byte) /\ Len(b) = 5 + 41 + Len(s)
    BY ONLY <1>6, <1>8, <2>1
  <2> QED BY ONLY <2>1, <2>2
<1>10. Lies(b, 0, r)
  <2>1. \A j \in 1 .. Len(b) : 0 + j = j
    BY <1>9
  <2>2. Lies(b, 0, r \o s) /\ 0 \in Nat
    BY ONLY <1>8, <2>1 DEF Lies
  <2> QED BY ONLY <1>6, <1>7, <2>2, BytesParts
<1>11. b[1] = 22 /\ VectorEnd(b, 3, 2) = 46 /\ Lies(b, 5, x)
  <2>1. 5 + 41 = 46
    OBVIOUS
  <2> QED BY ONLY <1>6, <1>9, <1>10, <2>1
<1>12. RecordKind(b, 5, 46) = "Incomplete"
  <2>1. Lies(b, 5, SubSeq(Message(h), 1, 41))
    BY <1>x, <1>11 DEF m
  <2> QED BY <1>1, <1>9, <2>1, SplitKind
<1>13. Opens(b, 46) /\ 46 \in Nat
  BY <1>9, <1>11 DEF Opens
<1>14. Classify(b, Len(b)) = RecordKind(b, 5, 46)
  BY ONLY <1>13, OpensKind
<1>15. Len(b) # 0
  BY <1>9
<1> QED BY ONLY <1>9, <1>12, <1>14, <1>15 DEF b

\* What classify (clienthello.rs:35) takes the whole of a ClientHello for: nothing
\* for a client that does not signal, and the right thing for one that does so in
\* one record, with any extensions in any order and any ALPN names.
THEOREM HelloRead ==
  ASSUME NEW h, IsHello(h)
  PROVE  /\ h.bytes \in Seq(Byte) /\ Len(h.bytes) \in Nat /\ Len(h.bytes) # 0
         /\ Classify(h.bytes, Len(h.bytes)) = "EchOrAcmeAlpn" => Signals(h)
         /\ Signals(h) /\ h.form \notin {"split", "short"} =>
              Classify(h.bytes, Len(h.bytes)) = "EchOrAcmeAlpn"
<1> DEFINE b == h.bytes
           kind == Classify(b, Len(b))
<1>1. Sized(h) /\ h.form \in Form
  BY HelloSized DEF Sized
<1>2. CASE h.form = "http"
  <2>1. b = <<71, 69, 84, 32>>
    <3>1. b = BytesOf(h)
      BY DEF IsHello
    <3> HIDE DEF b
    <3> QED BY ONLY <1>2, <3>1 DEF BytesOf
  <2>2. 71 \in Byte /\ 69 \in Byte /\ 84 \in Byte /\ 32 \in Byte
    BY SmallByte
  <2> HIDE DEF b
  <2>3. b \in Seq(Byte) /\ Len(b) = 4 /\ b[1] = 71
    BY ONLY <2>1, <2>2
  <2>4. kind = "NotTls"
    BY <2>3 DEF Classify
  <2>5. ~Signals(h)
    BY <1>2 DEF Signals
  <2>6. Len(b) \in Nat /\ Len(b) # 0
    BY <2>3
  <2> HIDE DEF kind
  <2> QED BY ONLY <2>3, <2>4, <2>5, <2>6 DEF b, kind
<1>3. CASE h.form = "split"
  <2>1. /\ b \in Seq(Byte) /\ Len(b) \in Nat /\ Len(b) # 0 /\ kind = "Incomplete"
    BY <1>3, TwoRecords
  <2> HIDE DEF b, kind
  <2> QED BY ONLY <1>3, <2>1 DEF b, kind
<1>4. CASE h.form \notin {"http", "split"}
  <2>1. /\ b \in Seq(Byte) /\ Len(b) \in Nat /\ Len(b) # 0 /\ Whole(h, b)
        /\ kind = RecordKind(b, 5, Len(b))
    BY <1>4, OneRecord
  <2>2. Signals(h) <=> \E j \in 1 .. Len(h.exts) : Hits(h, h.exts[j])
    <3>1. Signals(h) <=> "ech" \in Range(h.exts) \/ OffersAcme(h)
      BY <1>4 DEF Signals
    <3> QED BY <1>1, <3>1, SignalsIs
  <2>3. CASE h.form = "bare"
    <3>1. kind = "Other"
      BY <1>1, <2>1, <2>3, WholeKind
    <3>2. ~Signals(h)
      <4>1. h.exts = <<>>
        BY <1>1, <2>3 DEF Sized
      <4>2. Len(h.exts) = 0
        BY ONLY <4>1
      <4>3. ~\E j \in 1 .. Len(h.exts) : TRUE
        BY ONLY <4>2
      <4> QED BY ONLY <2>2, <4>3
    <3> HIDE DEF b, kind
    <3> QED BY ONLY <2>1, <3>1, <3>2 DEF b, kind
  <2>4. CASE h.form # "bare"
    <3>1. /\ RecordKind(b, 5, Len(b)) = ExtensionsKind(b, 52, Len(b))
          /\ Carries(h, b, 52, Len(b)) /\ Len(b) = 52 + Len(ExtensionList(h))
      BY <1>1, <2>1, <2>4, WholeKind
    <3>2. 52 \in Nat
      OBVIOUS
    <3>3. /\ ExtensionsKind(b, 52, Len(b)) = "EchOrAcmeAlpn" =>
               \E j \in 1 .. Len(h.exts) : Hits(h, h.exts[j])
          /\ Len(b) = 52 + Len(Extensions(h)) /\ (\E j \in 1 .. Len(h.exts) : Hits(h, h.exts[j]))
               => ExtensionsKind(b, 52, Len(b)) = "EchOrAcmeAlpn"
      <4> DEFINE found == \E j \in 1 .. Len(h.exts) : Hits(h, h.exts[j])
      <4> HIDE DEF b
      <4>1. PICK p \in Nat : p = 52
        BY ONLY <3>2
      <4>2. PICK e \in Nat : e = Len(b)
        BY ONLY <2>1
      <4>3. b \in Seq(Byte) /\ Carries(h, b, p, e)
        BY ONLY <2>1, <3>1, <4>1, <4>2
      <4>4. /\ ExtensionsKind(b, p, e) = "EchOrAcmeAlpn" => found
            /\ e = p + Len(Extensions(h)) /\ found => ExtensionsKind(b, p, e) = "EchOrAcmeAlpn"
        BY ONLY <4>3, KindIs, p \in Nat, e \in Nat
      <4> HIDE DEF found
      <4>5. /\ ExtensionsKind(b, 52, Len(b)) = "EchOrAcmeAlpn" => found
            /\ Len(b) = 52 + Len(Extensions(h)) /\ found
                 => ExtensionsKind(b, 52, Len(b)) = "EchOrAcmeAlpn"
        BY ONLY <4>1, <4>2, <4>4
      <4> QED BY ONLY <4>5 DEF found
    <3>4. h.form # "short" => ExtensionList(h) = Extensions(h)
      BY <1>1 DEF Sized
    <3>5. kind = ExtensionsKind(b, 52, Len(b))
      BY <2>1, <3>1
    <3> HIDE DEF b, kind
    <3> QED BY ONLY <2>1, <2>2, <3>1, <3>3, <3>4, <3>5 DEF b, kind
  <2> QED BY <2>3, <2>4
<1> QED BY <1>2, <1>3, <1>4

-----------------------------------------------------------------------------
(* The gate of reject_non_ech.                                              *)

\* The server has not let the client through.
Early == {"listen", "peek", "dropped"}

\* Who is let through signals, and the certificate fits the client.
GateInv ==
  /\ arrived <= Len(hello.bytes)
  /\ cert # "none" => pc["server"] \notin Early
  /\ ech /\ reject_non_ech /\ pc["server"] \notin Early => Signals(hello)
  /\ cert = "challenge" => OffersAcme(hello)
  /\ cert = "served" => ~OffersAcme(hello)

\* What a step does to the peek, the certificate and the gate.
GateMoves ==
  /\ UNCHANGED hello
  /\ arrived' = arrived \/ arrived' \in 1 .. Len(hello.bytes)
  /\ late => late'
  /\ pc["client"] = "failed" => pc'["client"] = "failed"
  /\ UNCHANGED cert \/ Accept
  /\ pc["server"] \notin Early => pc'["server"] \notin Early
  /\ pc["server"] \in Early => \/ pc'["server"] = pc["server"]
                               \/ Dial \/ PeekPasses \/ PeekRejects

LEMMA GateSetup ==
  ASSUME TypeOK, PhaseInv, Setup
  PROVE  GateMoves
<1>0. /\ DOMAIN pc = End /\ pc = [x \in End |-> pc[x]] /\ "client" \in End /\ "server" \in End
      /\ "client" # "server"
  BY TypedEnds DEF End
<1> USE DEF GateMoves
<1>1. CASE Dial
  <2>1. UNCHANGED setupVars /\ pc["client"] = "dial" /\ pc["server"] = "listen"
    BY <1>1 DEF Dial, PhaseInv
  <2> QED BY <1>1, <2>1 DEF setupVars, Early
<1>2. CASE Arrive
  <2>1. arrived' \in 1 .. Len(hello.bytes)
    BY <1>2 DEF Arrive, Cuts
  <2>2. UNCHANGED <<pc, hello, late, cert>>
    BY <1>2 DEF Arrive, bridgeVars
  <2> QED BY <2>1, <2>2
<1>3. CASE PeekMore \/ Deadline
  BY <1>3 DEF PeekMore, Deadline, bridgeVars
<1>4. CASE PeekPasses \/ PeekRejects
  <2>1. pc["server"] = "peek" /\ pc'["client"] = pc["client"] /\ UNCHANGED <<hello, arrived, late, cert>>
    BY <1>0, <1>4 DEF PeekPasses, PeekRejects, Goto
  <2> QED BY <1>4, <2>1 DEF Early
<1>5. CASE Accept
  <2>1. /\ pc["server"] = "tls" /\ pc["client"] = "tls" /\ pc'["server"] = "http"
        /\ UNCHANGED <<hello, arrived, late>>
    BY <1>5 DEF Accept
  <2> QED BY <1>5, <2>1 DEF Early
<1>6. CASE HandleRequest
  <2>1. /\ pc["server"] = "http" /\ pc["client"] = "upgrade" /\ UNCHANGED <<hello, arrived, late, cert>>
        /\ pc'["server"] \in {"http", "dial"}
    BY <1>6 DEF HandleRequest
  <2> QED BY <2>1 DEF Early
<1>7. CASE HttpEnds
  <2>1. /\ pc["server"] = "http" /\ UNCHANGED setupVars
        /\ pc'["server"] = "failed" /\ pc'["client"] = "failed"
    BY <1>7 DEF HttpEnds
  <2> QED BY <2>1 DEF Early, setupVars
<1>8. CASE ServerDials \/ AcceptFails \/ ServerDialFails
  <2>1. /\ pc["server"] \in {"dial", "tls"} /\ UNCHANGED setupVars
        /\ pc'["server"] \in {"copy", "failed"} /\ pc'["client"] = pc["client"]
    BY <1>0, <1>8 DEF ServerDials, AcceptFails, ServerDialFails, Goto, Drop
  <2> QED BY <2>1 DEF Early, setupVars
<1>9. CASE ClientFails \/ ClientIsDropped
  <2>1. UNCHANGED setupVars /\ pc'["server"] = pc["server"] /\ pc'["client"] = "failed"
    BY <1>0, <1>9 DEF ClientFails, ClientIsDropped, Drop
  <2> QED BY <2>1 DEF setupVars
<1> QED BY <1>1, <1>2, <1>3, <1>4, <1>5, <1>6, <1>7, <1>8, <1>9 DEF Setup

LEMMA GateCopy ==
  ASSUME TypeOK, NEW e \in End, Copy(e), UNCHANGED setupVars
  PROVE  GateMoves
<1>0. /\ DOMAIN pc = End /\ pc[e] = "copy" /\ "client" \in End /\ "server" \in End
      /\ UNCHANGED <<hello, arrived, late, cert>>
  BY TypedEnds DEF End, Copy, setupVars
<1>1. pc' = pc \/ \E how \in Over : pc' = [pc EXCEPT ![e] = how]
  <2> USE DEF Drop, Over
  <2>1. CASE CopyUp(e) \/ CopyDone(e) \/ SendFails(e) \/ CopyError(e)
    BY <2>1 DEF CopyUp, CopyDone, SendFails, CopyError
  <2>2. CASE FlushOut(e) \/ ReadEof(e) \/ ShutdownWs(e) \/ WriteTcp(e) \/ ShutdownTcp(e)
    BY <2>2 DEF FlushOut, FlushFrame, ReadEof, ShutdownWs, WriteTcp, ShutdownTcp
  <2>3. CASE PollRead(e)
    BY <2>3 DEF PollRead, ReadRest, ReadFrame, TakeFrame
  <2> QED BY <2>1, <2>2, <2>3 DEF Copy
<1>2. \A x \in End : pc'[x] = pc[x] \/ (pc[x] = "copy" /\ pc'[x] \in Over)
  BY <1>0, <1>1
<1> QED BY <1>0, <1>2 DEF GateMoves, Early, Over

LEMMA GateStep ==
  ASSUME TypeOK, PhaseInv, Next
  PROVE  GateMoves
BY GateSetup, GateCopy DEF Next

\* What the server sees is a beginning of what was sent.
LEMMA PeekedIs ==
  ASSUME TypeOK, arrived <= Len(hello.bytes)
  PROVE  /\ IsHello(hello) /\ hello.bytes \in Seq(Byte) /\ Len(hello.bytes) \in Nat
         /\ Peeked \in Nat /\ Peeked <= Len(hello.bytes) /\ Peeked <= PEEK_CAP
         /\ Peeked > 0 => Peeked \in 1 .. Len(hello.bytes)
<1>1. IsHello(hello)
  BY HellosAssumption DEF TypeOK
<1>2. hello.bytes \in Seq(Byte) /\ Len(hello.bytes) \in Nat
  BY <1>1, HelloRead
<1>3. arrived \in Nat /\ PEEK_CAP \in Nat
  BY TunnelAssumption DEF TypeOK
<1>4. Peeked \in Nat /\ Peeked <= Len(hello.bytes) /\ Peeked <= PEEK_CAP
  BY <1>2, <1>3 DEF Peeked
<1> HIDE DEF Peeked
<1>5. Peeked > 0 => Peeked \in 1 .. Len(hello.bytes)
  BY ONLY <1>2, <1>4
<1> QED BY <1>1, <1>2, <1>4, <1>5

LEMMA VerdictIsFinal ==
  ASSUME TypeOK, arrived <= Len(hello.bytes)
  PROVE  VerdictStands
<1> SUFFICES ASSUME Peeked > 0, Verdict # "Incomplete"
             PROVE  Verdict = Classify(hello.bytes, Len(hello.bytes))
  BY DEF VerdictStands
<1>1. hello.bytes \in Seq(Byte) /\ Peeked \in 1 .. Len(hello.bytes)
  BY PeekedIs
<1> QED BY <1>1, VerdictLater DEF Verdict


LEMMA GateStays ==
  ASSUME TypeOK, PhaseInv, GateInv, [Next]_vars
  PROVE  GateInv'
<1>1. CASE UNCHANGED vars
  BY <1>1 DEF vars, bridgeVars, setupVars, GateInv
<1>2. CASE Next
  <2>0. GateMoves /\ Len(hello.bytes) \in Nat
    BY <1>2, GateStep, PeekedIs DEF GateInv
  <2>1. hello' = hello /\ arrived' <= Len(hello'.bytes)
    <3>1. \A n \in 1 .. Len(hello.bytes) : n <= Len(hello.bytes)
      BY <2>0
    <3> QED BY <2>0, <3>1 DEF GateInv, GateMoves
  <2>2. ech /\ reject_non_ech /\ pc'["server"] \notin Early => Signals(hello)
    <3> SUFFICES ASSUME ech, reject_non_ech, pc["server"] \in Early, pc'["server"] \notin Early
                 PROVE  Signals(hello)
      BY <2>0 DEF GateInv, GateMoves
    <3>1. Dial \/ PeekPasses \/ PeekRejects
      BY <2>0 DEF GateMoves
    <3>2. ~Dial
      BY DEF Dial, Early
    <3>3. ~PeekRejects
      <4>1. DOMAIN pc = End /\ "server" \in End
        BY TypedEnds DEF End
      <4> QED BY <4>1 DEF PeekRejects, Goto, Early
    <3>4. Peeked > 0 /\ Verdict = "EchOrAcmeAlpn"
      BY <3>1, <3>2, <3>3 DEF PeekPasses
    <3>5. Verdict = Classify(hello.bytes, Len(hello.bytes))
      BY <3>4, VerdictIsFinal DEF VerdictStands, GateInv
    <3>6. IsHello(hello)
      BY PeekedIs DEF GateInv
    <3> QED BY <3>4, <3>5, <3>6, HelloRead
  <2>3. CASE UNCHANGED cert
    BY <2>0, <2>1, <2>2, <2>3 DEF GateInv, GateMoves
  <2>4. CASE Accept
    <3>1. /\ pc["server"] = "tls" /\ pc' = [client |-> "upgrade", server |-> "http"]
          /\ pc'["server"] = "http"
      BY <2>4 DEF Accept
    <3>2. (cert' = "challenge" => OffersAcme(hello)) /\ (cert' = "served" => ~OffersAcme(hello))
      <4> DEFINE offered == IF "alpn" \in Range(hello.exts)
                            THEN AlpnProtocols(AlpnWire(hello.alpn)) ELSE {}
                 selected == SelectAlpn(offered, hello.challenge)
      <4>1. selected # "alert" /\ cert' = IF selected = "acme-tls/1" THEN "challenge" ELSE "served"
        BY <2>4 DEF Accept
      <4>2. ACME_ALPN \in offered <=> OffersAcme(hello)
        <5>1. IsNames(hello.alpn)
          BY PeekedIs, HelloSized DEF GateInv, Sized
        <5>2. AlpnProtocols(AlpnWire(hello.alpn)) = {hello.alpn[i] : i \in 1 .. Len(hello.alpn)}
          BY <5>1, ProtocolsAre
        <5>3. DOMAIN hello.alpn = 1 .. Len(hello.alpn)
          BY <5>1, NamesAre
        <5>4. Range(hello.alpn) = {hello.alpn[i] : i \in 1 .. Len(hello.alpn)}
          BY ONLY <5>3 DEF Range
        <5> QED BY ONLY <5>2, <5>4 DEF OffersAcme, offered
      <4>3. selected = "acme-tls/1" <=> ACME_ALPN \in offered
        <5> HIDE DEF offered
        <5> QED BY <4>1 DEF SelectAlpn
      <4> HIDE DEF selected, offered
      <4> QED BY <4>1, <4>2, <4>3
    <3> QED BY <2>0, <2>1, <2>2, <3>1, <3>2 DEF GateInv, Early
  <2> QED BY <2>0, <2>3, <2>4 DEF GateMoves
<1> QED BY <1>1, <1>2

LEMMA GateInit == Init => GateInv
<1> SUFFICES ASSUME Init PROVE GateInv
  OBVIOUS
<1>1. TypeOK /\ pc["server"] = "listen" /\ cert = "none" /\ arrived = 0
  BY TypeInit DEF Init
<1>2. Len(hello.bytes) \in Nat
  BY <1>1, HellosAssumption, HelloRead DEF TypeOK
<1>3. 0 <= Len(hello.bytes)
  BY <1>2
<1> QED BY <1>1, <1>3 DEF GateInv, Early

LEMMA GateCorrect == Spec => [](TypeOK /\ GateInv)
<1>1. TypeOK /\ PhaseInv /\ GateInv /\ [Next]_vars => GateInv'
  BY GateStays
<1> QED BY <1>1, GateInit, TypeCorrect, CutInit, CutStep, PTL DEF Spec

\* A verdict of the classifier on what has arrived is its verdict on all of the
\* ClientHello (clienthello.rs:35, which is_ech_or_acme_handshake calls on every
\* prefix it peeks at, server.rs:373), wherever the network cuts the bytes.
THEOREM VerdictsStand == Spec => []VerdictStands
<1>1. TypeOK /\ GateInv => VerdictStands
  BY VerdictIsFinal DEF GateInv
<1> QED BY <1>1, GateCorrect, PTL

\* Behind reject_non_ech (server.rs:168) the production certificate is shown only
\* to a client whose ClientHello carries an ECH extension or offers acme-tls/1,
\* for any list of extensions and protocols and any cut of the bytes, and the
\* ALPN callback (tls_server.rs:193) shows the challenge to validators alone.
THEOREM GateHolds == Spec => []OnlySignalledAreServed
<1>1. TypeOK /\ GateInv => OnlySignalledAreServed
  BY DEF GateInv, OnlySignalledAreServed
<1> QED BY <1>1, GateCorrect, PTL

LEMMA CauseStays ==
  ASSUME TypeOK, PhaseInv, GateInv, DropsHaveCause, [Next]_vars
  PROVE  DropsHaveCause'
<1>1. CASE UNCHANGED vars
  BY <1>1 DEF vars, bridgeVars, setupVars, DropsHaveCause
<1>2. CASE Next
  <2>0. GateMoves
    BY <1>2, GateStep
  <2> SUFFICES ASSUME pc'["server"] = "dropped", Signals(hello), ~late', pc'["client"] # "failed",
                      hello.form \notin {"split", "short"}, Len(hello.bytes) <= PEEK_CAP
               PROVE  FALSE
    <3>1. Len(hello.bytes) \in Nat /\ PEEK_CAP \in Nat
      BY PeekedIs, TunnelAssumption DEF GateInv
    <3>2. ~(Len(hello.bytes) > PEEK_CAP) => Len(hello.bytes) <= PEEK_CAP
      BY <3>1
    <3> QED BY <2>0, <3>2 DEF DropsHaveCause, GateMoves
  <2>1. ~late /\ pc["client"] # "failed"
    BY <2>0 DEF GateMoves
  <2>2. pc["server"] # "dropped"
    <3>1. Len(hello.bytes) \in Nat /\ PEEK_CAP \in Nat
      BY PeekedIs, TunnelAssumption DEF GateInv
    <3>2. ~(Len(hello.bytes) > PEEK_CAP)
      BY <3>1
    <3> QED BY <2>1, <3>2 DEF DropsHaveCause
  <2>3. PeekRejects
    <3>1. pc["server"] \in Early /\ pc'["server"] # pc["server"]
      BY <2>0, <2>2 DEF GateMoves, Early
    <3>2. Dial \/ PeekPasses \/ PeekRejects
      BY <2>0, <3>1 DEF GateMoves
    <3>3. DOMAIN pc = End /\ "server" \in End
      BY TypedEnds DEF End
    <3>4. ~Dial /\ ~PeekPasses
      BY <3>3 DEF Dial, PeekPasses, Goto
    <3> QED BY <3>2, <3>4
  <2>4. \/ Peeked > 0 /\ Verdict \in {"NotTls", "Other"}
        \/ Peeked > 0 /\ Verdict = "Incomplete" /\ Peeked = PEEK_CAP
    BY <2>1, <2>3 DEF PeekRejects
  <2>5. /\ IsHello(hello) /\ Len(hello.bytes) \in Nat /\ Peeked \in Nat
        /\ Peeked <= Len(hello.bytes)
    BY PeekedIs DEF GateInv
  <2>6. Classify(hello.bytes, Len(hello.bytes)) = "EchOrAcmeAlpn"
    BY <2>5, HelloRead
  <2>7. CASE Verdict # "Incomplete"
    <3>1. Verdict = Classify(hello.bytes, Len(hello.bytes))
      BY <2>4, <2>7, VerdictIsFinal DEF VerdictStands, GateInv
    <3> QED BY <2>4, <2>6, <2>7, <3>1
  <2>8. CASE Verdict = "Incomplete"
    <3>1. Peeked = PEEK_CAP
      BY <2>4, <2>8
    <3>2. Peeked = Len(hello.bytes)
      <4> HIDE DEF Peeked
      <4> QED BY <2>5, <3>1
    <3> QED BY <2>6, <2>8, <3>2 DEF Verdict
  <2> QED BY <2>7, <2>8
<1> QED BY <1>1, <1>2

\* A client that signals in one record, within the peek and before the deadline
\* is not reset by rst_drop (server.rs:169), for any extensions, protocols and
\* cuts of its bytes, unless it went away itself.
THEOREM DropsJustified == Spec => []DropsHaveCause
<1>1. Init => DropsHaveCause
  <2> SUFFICES ASSUME Init PROVE DropsHaveCause
    OBVIOUS
  <2>1. pc["server"] = "listen"
    BY DEF Init
  <2> QED BY <2>1 DEF DropsHaveCause
<1>2. TypeOK /\ PhaseInv /\ GateInv /\ DropsHaveCause /\ [Next]_vars => DropsHaveCause'
  BY CauseStays
<1> QED BY <1>1, <1>2, GateCorrect, CutInit, CutStep, PTL DEF Spec

=============================================================================
