---------------------------- MODULE H3RouterProofs ----------------------------
(***************************************************************************)
(* Proofs about H3Router, for any clients, any capacities and any faults.  *)
(***************************************************************************)
EXTENDS H3Router, TLAPS

\* A connection that speaks HTTP/3, or ever had a tunnel, passed the check.
ConnOk(c) ==
  /\ c = [client |-> c.client, heard |-> c.heard, phase |-> c.phase,
          tunnel |-> c.tunnel, unread |-> c.unread]
  /\ c.tunnel \in {"none", "open", "over"}
  /\ c.phase = "h3" \/ c.tunnel # "none" => EchOk(c)

\* The tunnel of a connection in `now` is open while its bridge runs or is
\* still heard of in e.
Owned(now, k, e) ==
  (k \in bridges \/ \E i \in 1 .. Len(e) : e[i].key = k) => now[k].tunnel = "open"

\* A close notice is the last word of a bridge that has ended.
ClosedIsLast(e) == \A i \in 1 .. Len(e) : e[i].out = "Closed" =>
  /\ e[i].key \notin bridges
  /\ \A j \in 1 .. Len(e) : e[j].key = e[i].key => j <= i

RouterInv ==
  /\ made \in Nat
  /\ bridges \subseteq 1 .. made
  /\ egress \in Seq(Message) /\ \A i \in 1 .. Len(egress) : egress[i].key <= made
  /\ \A k \in DOMAIN conns :
       k \in 1 .. made /\ ConnOk(conns[k]) /\ Owned(conns, k, egress)
  /\ ClosedIsLast(egress)

LEMMA RouterInit == Init => RouterInv
BY DEF Init, RouterInv, Owned, ClosedIsLast

\* What service makes of one connection.
LEMMA PolledOk ==
  ASSUME NEW c, ConnOk(c)
  PROVE  /\ ConnOk(Poll(Start(c)))
         /\ c.tunnel # "none" => Poll(Start(c)).tunnel = c.tunnel
<1>1. ConnOk(Start(c)) /\ Start(c).tunnel = c.tunnel
  <2>1. CASE c.phase = "established"
    <3>1. Start(c) = [client |-> c.client, heard |-> c.heard,
                      phase |-> IF EchOk(c) THEN "h3" ELSE "closing",
                      tunnel |-> c.tunnel, unread |-> c.unread]
      BY <2>1 DEF Start, ConnOk
    <3> QED BY <3>1 DEF ConnOk, EchOk
  <2>2. CASE c.phase # "established"
    BY <2>2 DEF Start
  <2> QED BY <2>1, <2>2
<1> DEFINE d == Start(c)
<1> HIDE DEF d
<1>2. ConnOk(d) => ConnOk(Poll(d)) /\ (d.tunnel # "none" => Poll(d).tunnel = d.tunnel)
  <2> SUFFICES ASSUME ConnOk(d)
               PROVE  ConnOk(Poll(d)) /\ (d.tunnel # "none" => Poll(d).tunnel = d.tunnel)
    OBVIOUS
  <2>1. CASE d.phase = "h3" /\ d.tunnel = "none"
    <3>1. Poll(d) = [client |-> d.client, heard |-> d.heard, phase |-> d.phase,
                     tunnel |-> "open", unread |-> d.unread]
      BY <2>1 DEF Poll, ConnOk
    <3> QED BY <2>1, <3>1 DEF ConnOk, EchOk
  <2>2. CASE ~(d.phase = "h3" /\ d.tunnel = "none")
    BY <2>2 DEF Poll
  <2> QED BY <2>1, <2>2
<1> QED BY <1>1, <1>2 DEF d

\* service opens tunnels on connections that passed the check and had none,
\* and starts their bridges; it changes no other tunnel.
LEMMA Serviced ==
  ASSUME NEW now, NEW due \in SUBSET DOMAIN now, NEW closed,
         Service(now, due, closed), \A k \in DOMAIN now : ConnOk(now[k])
  PROVE  /\ \A k \in DOMAIN conns' :
              /\ k \in DOMAIN now /\ ConnOk(conns'[k])
              /\ now[k].tunnel # "none" => conns'[k].tunnel = now[k].tunnel
         /\ bridges \subseteq bridges'
         /\ \A k \in bridges' \ bridges :
              /\ k \in DOMAIN now /\ now[k].tunnel = "none"
              /\ k \in DOMAIN conns' => conns'[k].tunnel = "open"
<1> DEFINE polled == [k \in DOMAIN now |-> IF k \in due THEN Poll(Start(now[k])) ELSE now[k]]
           opened == {k \in due : now[k].tunnel = "none" /\ polled[k].tunnel = "open"}
<1>1. /\ DOMAIN conns' = DOMAIN now \ closed
      /\ \A k \in DOMAIN conns' : \E u : conns'[k] = [polled[k] EXCEPT !.unread = u]
      /\ bridges' = bridges \cup opened
  BY DEF Service
<1>2. \A k \in DOMAIN now :
        ConnOk(polled[k]) /\ (now[k].tunnel # "none" => polled[k].tunnel = now[k].tunnel)
  BY PolledOk
<1>3. opened \subseteq DOMAIN now
  OBVIOUS
<1>4. \A k \in opened : now[k].tunnel = "none" /\ polled[k].tunnel = "open"
  OBVIOUS
<1> HIDE DEF polled, opened
<1>5. ASSUME NEW k \in DOMAIN conns'
      PROVE  k \in DOMAIN now /\ ConnOk(conns'[k]) /\ conns'[k].tunnel = polled[k].tunnel
  <2>1. k \in DOMAIN now /\ ConnOk(polled[k])
    BY <1>1, <1>2
  <2>2. PICK u : conns'[k] = [polled[k] EXCEPT !.unread = u]
    BY <1>1
  <2>3. conns'[k] = [client |-> polled[k].client, heard |-> polled[k].heard,
                     phase |-> polled[k].phase, tunnel |-> polled[k].tunnel, unread |-> u]
    BY <2>1, <2>2 DEF ConnOk
  <2> QED BY <2>1, <2>3 DEF ConnOk, EchOk
<1> QED BY <1>1, <1>2, <1>3, <1>4, <1>5

\* A serviced step of the loop keeps the invariant if the connections it
\* services fit the bridges and the messages that are left.
LEMMA ServiceKeeps ==
  ASSUME RouterInv, NEW now, NEW due \in SUBSET DOMAIN now, NEW closed,
         Service(now, due, closed), made' \in Nat, made <= made',
         \A k \in DOMAIN now :
           k \in 1 .. made' /\ ConnOk(now[k]) /\ Owned(now, k, egress'),
         egress' \in Seq(Message), \A i \in 1 .. Len(egress') : egress'[i].key <= made,
         ClosedIsLast(egress')
  PROVE  RouterInv'
<1>1. /\ \A k \in DOMAIN conns' :
           /\ k \in DOMAIN now /\ ConnOk(conns'[k])
           /\ now[k].tunnel # "none" => conns'[k].tunnel = now[k].tunnel
      /\ bridges \subseteq bridges'
      /\ \A k \in bridges' \ bridges :
           /\ k \in DOMAIN now /\ now[k].tunnel = "none"
           /\ k \in DOMAIN conns' => conns'[k].tunnel = "open"
  BY Serviced
<1>2. bridges' \subseteq 1 .. made'
  BY <1>1 DEF RouterInv
<1>3. \A i \in 1 .. Len(egress') : egress'[i].key <= made'
  <2> SUFFICES ASSUME NEW i \in 1 .. Len(egress') PROVE egress'[i].key <= made'
    OBVIOUS
  <2>1. egress'[i] \in Message /\ egress'[i].key <= made
    OBVIOUS
  <2> QED BY <2>1 DEF Message, Keys, RouterInv
<1>4. \A k \in DOMAIN conns' : Owned(conns, k, egress)'
  BY <1>1 DEF Owned
<1>5. ClosedIsLast(egress)'
  <2> SUFFICES ASSUME NEW i \in 1 .. Len(egress'), egress'[i].out = "Closed",
                      egress'[i].key \in bridges'
               PROVE  FALSE
    BY DEF ClosedIsLast
  <2>1. egress'[i].key \in bridges' \ bridges
    BY DEF ClosedIsLast
  <2> QED BY <1>1, <2>1 DEF Owned
<1> QED BY <1>1, <1>2, <1>3, <1>4, <1>5 DEF RouterInv, ConnOk, EchOk

\* What is left of the channel when its first message was taken.
LEMMA TailOfEgress ==
  ASSUME RouterInv, egress # <<>>
  PROVE  /\ Head(egress) = egress[1] /\ Head(egress) \in Message
         /\ Tail(egress) \in Seq(Message)
         /\ \A i \in 1 .. Len(Tail(egress)) :
              i + 1 \in 1 .. Len(egress) /\ Tail(egress)[i] = egress[i + 1]
         /\ ClosedIsLast(Tail(egress))
<1>1. /\ Head(egress) = egress[1] /\ Head(egress) \in Message
      /\ Tail(egress) \in Seq(Message)
      /\ \A i \in 1 .. Len(Tail(egress)) :
           i \in Nat /\ i + 1 \in 1 .. Len(egress) /\ Tail(egress)[i] = egress[i + 1]
  BY DEF RouterInv
<1> DEFINE f == Tail(egress)
<1> HIDE DEF f
<1>2. ASSUME NEW i \in 1 .. Len(f), f[i].out = "Closed"
      PROVE  /\ f[i].key \notin bridges
             /\ \A j \in 1 .. Len(f) : f[j].key = f[i].key => j <= i
  <2>1. /\ i + 1 \in 1 .. Len(egress) /\ f[i] = egress[i + 1]
        /\ f[i].key \notin bridges
        /\ \A j \in 1 .. Len(egress) : egress[j].key = f[i].key => j <= i + 1
    BY <1>1, <1>2 DEF RouterInv, ClosedIsLast, f
  <2>2. ASSUME NEW j \in 1 .. Len(f), f[j].key = f[i].key PROVE j <= i
    <3>1. j + 1 \in 1 .. Len(egress) /\ f[j] = egress[j + 1]
      BY <1>1 DEF f
    <3>2. j + 1 <= i + 1
      BY <2>1, <2>2, <3>1
    <3>3. i \in Nat /\ j \in Nat
      BY <1>1 DEF f
    <3> QED BY <3>2, <3>3
  <2> QED BY <2>1, <2>2
<1>3. ClosedIsLast(f)
  BY <1>2 DEF ClosedIsLast
<1> QED BY <1>1, <1>3 DEF f

\* A message is taken: a close notice is the bridge's last word, so that no
\* bridge and no message is left of the tunnel it ends.
LEMMA RouterEgress ==
  ASSUME RouterInv, Egress
  PROVE  RouterInv'
<1> DEFINE msg == Head(egress)
<1>0. egress # <<>> /\ egress' = Tail(egress) /\ made' = made /\ made \in Nat
  BY DEF Egress, RouterInv
<1>1. /\ msg = egress[1] /\ msg \in Message
      /\ egress' \in Seq(Message)
      /\ \A i \in 1 .. Len(egress') : i + 1 \in 1 .. Len(egress) /\ egress'[i] = egress[i + 1]
      /\ ClosedIsLast(egress')
  BY <1>0, TailOfEgress
<1>2. \A i \in 1 .. Len(egress') : egress'[i].key <= made
  BY <1>1 DEF RouterInv
<1>3. \A k \in DOMAIN conns : Owned(conns, k, egress) => Owned(conns, k, egress')
  BY <1>1 DEF Owned
<1>4. 1 \in 1 .. Len(egress)
  BY <1>0 DEF RouterInv
<1>5. CASE msg.key \in DOMAIN conns
  <2> DEFINE now == [conns EXCEPT ![msg.key] =
                       IF msg.out = "Closed" THEN [@ EXCEPT !.tunnel = "over", !.unread = 0]
                                             ELSE @]
  <2>1. Service(now, {msg.key}, {})
    BY <1>5 DEF Egress
  <2>2. DOMAIN now = DOMAIN conns
    OBVIOUS
  <2>3. ASSUME NEW k \in DOMAIN conns
        PROVE  k \in 1 .. made /\ ConnOk(now[k]) /\ Owned(now, k, egress')
    <3>0. k \in 1 .. made /\ ConnOk(conns[k]) /\ Owned(conns, k, egress')
      BY <1>3 DEF RouterInv
    <3>1. CASE k # msg.key \/ msg.out # "Closed"
      <4>1. now[k] = conns[k]
        BY <3>1
      <4> HIDE DEF now
      <4> QED BY <3>0, <4>1 DEF Owned
    <3>2. CASE k = msg.key /\ msg.out = "Closed"
      <4>1. now[k] = [conns[k] EXCEPT !.tunnel = "over", !.unread = 0]
        BY <3>2
      <4> HIDE DEF now
      <4>2. now[k] = [client |-> conns[k].client, heard |-> conns[k].heard,
                      phase |-> conns[k].phase, tunnel |-> "over", unread |-> 0]
        BY <3>0, <4>1 DEF ConnOk
      <4>3. k \notin bridges /\ \A i \in 1 .. Len(egress) : egress[i].key = k => i <= 1
        BY <1>1, <1>4, <3>2 DEF RouterInv, ClosedIsLast
      <4>4. \A i \in 1 .. Len(egress') : egress'[i].key # k
        <5> SUFFICES ASSUME NEW i \in 1 .. Len(egress'), egress'[i].key = k PROVE FALSE
          OBVIOUS
        <5>1. i + 1 <= 1
          BY <1>1, <4>3
        <5> QED BY <5>1
      <4>5. Owned(now, k, egress')
        BY <4>3, <4>4 DEF Owned
      <4>6. EchOk(conns[k])
        <5>1. conns[k].tunnel = "open"
          BY <1>1, <1>4, <3>2 DEF RouterInv, Owned
        <5> QED BY <3>0, <5>1 DEF ConnOk
      <4> QED BY <3>0, <4>2, <4>5, <4>6 DEF ConnOk, EchOk
    <3> QED BY <3>1, <3>2
  <2> HIDE DEF now
  <2>4. {msg.key} \subseteq DOMAIN now
    BY <1>5, <2>2
  <2> QED BY <1>0, <1>1, <1>2, <2>1, <2>2, <2>3, <2>4, ServiceKeeps
<1>6. CASE msg.key \notin DOMAIN conns
  <2>1. UNCHANGED <<conns, rx, bridges, made>>
    BY <1>6 DEF Egress
  <2>2. \A k \in DOMAIN conns' : Owned(conns, k, egress)'
    BY <1>3, <2>1 DEF RouterInv, Owned
  <2>3. ClosedIsLast(egress)'
    BY <1>1, <2>1 DEF ClosedIsLast
  <2> QED BY <1>0, <1>1, <1>2, <2>1, <2>2, <2>3 DEF RouterInv, ConnOk, EchOk
<1> QED BY <1>5, <1>6

\* quiche takes in a datagram: neither the tunnel nor who it is for changes,
\* and only service goes on to HTTP/3.
LEMMA FedOk ==
  ASSUME NEW c, NEW d, ConnOk(c)
  PROVE  ConnOk(Feed(c, d)) /\ Feed(c, d).tunnel = c.tunnel
<1>1. \E h, p, u : /\ Feed(c, d) = [client |-> c.client, heard |-> h, phase |-> p,
                                    tunnel |-> c.tunnel, unread |-> u]
                   /\ p \in {c.phase, "established"}
  <2>1. CASE c.phase = "closing" \/ (d.what = Data /\ c.heard # 1 .. HelloParts)
    BY <2>1 DEF Feed, ConnOk
  <2>2. CASE c.phase # "closing" /\ d.what # Data
    <3>1. Feed(c, d) = [client |-> c.client, heard |-> c.heard \cup {d.what},
                        phase |-> c.phase, tunnel |-> c.tunnel, unread |-> c.unread]
      BY <2>2 DEF Feed, ConnOk
    <3> QED BY <3>1
  <2>3. CASE c.phase = "handshake" /\ d.what = Data /\ c.heard = 1 .. HelloParts
    <3>1. Feed(c, d) = [client |-> c.client, heard |-> c.heard, phase |-> "established",
                        tunnel |-> c.tunnel, unread |-> c.unread]
      BY <2>3 DEF Feed, ConnOk
    <3> QED BY <3>1
  <2>4. CASE c.phase \notin {"closing", "handshake"} /\ d.what = Data /\ c.heard = 1 .. HelloParts
    <3>1. Feed(c, d) = [client |-> c.client, heard |-> c.heard, phase |-> c.phase,
                        tunnel |-> c.tunnel, unread |-> Feed(c, d).unread]
      BY <2>4 DEF Feed, ConnOk
    <3> QED BY <3>1
  <2> QED BY <2>1, <2>2, <2>3, <2>4
<1> QED BY <1>1 DEF ConnOk, EchOk

LEMMA RouterRecv ==
  ASSUME RouterInv, NEW d, RecvKnown(d) \/ RecvInitial(d) \/ RecvDropped(d)
  PROVE  RouterInv'
<1>0. made \in Nat /\ \A k \in DOMAIN conns : k \in 1 .. made /\ ConnOk(conns[k])
  BY DEF RouterInv
<1>1. CASE RecvKnown(d)
  <2> DEFINE key == Key(d)
             now == [conns EXCEPT ![key] = Feed(@, d)]
  <2>1. /\ key \in DOMAIN conns /\ Service(now, {key}, {})
        /\ made' = made /\ egress' = egress
    BY <1>1 DEF RecvKnown
  <2> HIDE DEF key
  <2>2. DOMAIN now = DOMAIN conns
    OBVIOUS
  <2>3. ASSUME NEW k \in DOMAIN conns
        PROVE  k \in 1 .. made /\ ConnOk(now[k]) /\ now[k].tunnel = conns[k].tunnel
    <3>1. now[k] = IF k = key THEN Feed(conns[k], d) ELSE conns[k]
      OBVIOUS
    <3> HIDE DEF now
    <3> QED BY <1>0, <3>1, FedOk
  <2> HIDE DEF now
  <2>4. \A k \in DOMAIN now : Owned(now, k, egress')
    BY <2>1, <2>2, <2>3 DEF RouterInv, Owned
  <2>5. {key} \subseteq DOMAIN now
    BY <2>1, <2>2
  <2>6. /\ made' \in Nat /\ made <= made'
        /\ \A k \in DOMAIN now : k \in 1 .. made' /\ ConnOk(now[k]) /\ Owned(now, k, egress')
    BY <1>0, <2>1, <2>2, <2>3, <2>4
  <2>7. /\ egress' \in Seq(Message) /\ \A i \in 1 .. Len(egress') : egress'[i].key <= made
        /\ ClosedIsLast(egress')
    BY <2>1 DEF RouterInv
  <2> QED BY <2>1, <2>5, <2>6, <2>7, ServiceKeeps
<1>2. CASE RecvInitial(d)
  <2> DEFINE key == Key(d)
             now == [k \in DOMAIN conns \cup {key} |->
                       IF k = key THEN Feed(NewConn(d.from), d) ELSE conns[k]]
  <2>1. /\ key \notin DOMAIN conns /\ Service(now, {key}, {})
        /\ made' = made + 1 /\ egress' = egress
    BY <1>2 DEF RecvInitial
  <2>2. key = made + 1
    BY <2>1 DEF Key
  <2> HIDE DEF key
  <2>3. ASSUME NEW k \in DOMAIN now
        PROVE  /\ k \in 1 .. made' /\ ConnOk(now[k])
               /\ k # key => k \in DOMAIN conns /\ now[k].tunnel = conns[k].tunnel
    <3>1. ConnOk(NewConn(d.from))
      BY DEF ConnOk, NewConn
    <3>2. k = key \/ k \in DOMAIN conns
      OBVIOUS
    <3>3. now[k] = IF k = key THEN Feed(NewConn(d.from), d) ELSE conns[k]
      OBVIOUS
    <3> HIDE DEF now
    <3>4. k \in 1 .. made'
      BY <1>0, <2>1, <2>2, <3>2
    <3> QED BY <1>0, <3>1, <3>2, <3>3, <3>4, FedOk
  <2>4. key \in DOMAIN now
    OBVIOUS
  <2> HIDE DEF now
  <2>5. ASSUME NEW k \in DOMAIN now PROVE Owned(now, k, egress')
    <3>1. CASE k = key
      <4>1. k \notin bridges
        BY <1>0, <2>2, <3>1 DEF RouterInv
      <4>2. \A i \in 1 .. Len(egress') : egress'[i].key # k
        <5> SUFFICES ASSUME NEW i \in 1 .. Len(egress'), egress'[i].key = k PROVE FALSE
          OBVIOUS
        <5>1. made + 1 <= made
          BY <2>1, <2>2, <3>1 DEF RouterInv
        <5> QED BY <1>0, <5>1
      <4> QED BY <4>1, <4>2 DEF Owned
    <3>2. CASE k # key
      BY <2>1, <2>3, <3>2 DEF RouterInv, Owned
    <3> QED BY <3>1, <3>2
  <2>6. /\ made' \in Nat /\ made <= made' /\ {key} \subseteq DOMAIN now
        /\ \A k \in DOMAIN now : k \in 1 .. made' /\ ConnOk(now[k]) /\ Owned(now, k, egress')
    BY <1>0, <2>1, <2>3, <2>4, <2>5
  <2>7. /\ egress' \in Seq(Message) /\ \A i \in 1 .. Len(egress') : egress'[i].key <= made
        /\ ClosedIsLast(egress')
    BY <2>1 DEF RouterInv
  <2> QED BY <2>1, <2>6, <2>7, ServiceKeeps
<1>3. CASE RecvDropped(d)
  BY <1>3 DEF RecvDropped, connVars, bridgeVars, RouterInv, Owned, ClosedIsLast, ConnOk, EchOk
<1> QED BY <1>1, <1>2, <1>3

\* A freed slot and a timer have every connection serviced; the timer may
\* take connections away.
LEMMA RouterRetry ==
  ASSUME RouterInv, Credit \/ Timer
  PROVE  RouterInv'
<1>1. PICK closed : Service(conns, DOMAIN conns, closed)
  BY DEF Credit, Timer
<1>2. made' = made /\ egress' = egress
  BY DEF Credit, Timer
<1>3. /\ made' \in Nat /\ made <= made'
      /\ \A k \in DOMAIN conns :
           k \in 1 .. made' /\ ConnOk(conns[k]) /\ Owned(conns, k, egress')
  BY <1>2 DEF RouterInv
<1>4. /\ egress' \in Seq(Message) /\ \A i \in 1 .. Len(egress') : egress'[i].key <= made
      /\ ClosedIsLast(egress')
  BY <1>2 DEF RouterInv
<1> QED BY <1>1, <1>3, <1>4, ServiceKeeps

\* A bridge writes and ends only while it runs.
LEMMA RouterBridge ==
  ASSUME RouterInv, NEW k \in Keys, BridgeReads(k) \/ BridgeWrites(k) \/ BridgeEnds(k)
  PROVE  RouterInv'
<1>0. k \in bridges /\ k \in 1 .. made /\ conns' = conns /\ made' = made
  BY DEF RouterInv, BridgeReads, BridgeWrites, BridgeEnds, connVars
<1>1. CASE BridgeReads(k)
  BY <1>0, <1>1 DEF BridgeReads, RouterInv, Owned, ClosedIsLast, ConnOk, EchOk
<1>2. CASE BridgeWrites(k) \/ BridgeEnds(k)
  <2>1. PICK m \in Message : /\ m.key = k /\ egress' = Append(egress, m)
                             /\ m.out = "Closed" => bridges' = bridges \ {k}
    BY <1>2 DEF BridgeWrites, BridgeEnds, Send, Message
  <2>2. bridges' \subseteq bridges
    BY <1>2 DEF BridgeWrites, BridgeEnds
  <2> DEFINE len == Len(egress)
  <2>3. /\ len \in Nat /\ egress' \in Seq(Message) /\ Len(egress') = len + 1
        /\ egress'[len + 1] = m
        /\ \A i \in 1 .. len : egress'[i] = egress[i]
    BY <2>1 DEF RouterInv
  <2>4. \A i \in 1 .. Len(egress') :
          \/ i \in 1 .. len /\ egress'[i] = egress[i]
          \/ i = len + 1 /\ egress'[i] = m
    BY <2>3
  <2> HIDE DEF len
  <2>5. \A i \in 1 .. Len(egress') : egress'[i].key <= made'
    BY <1>0, <2>1, <2>4 DEF RouterInv, len
  <2>6. \A l \in DOMAIN conns' : Owned(conns, l, egress)'
    BY <1>0, <2>1, <2>2, <2>4 DEF RouterInv, Owned, len
  <2>7. ASSUME NEW i \in 1 .. Len(egress'), egress'[i].out = "Closed"
        PROVE  /\ egress'[i].key \notin bridges'
               /\ \A j \in 1 .. Len(egress') : egress'[j].key = egress'[i].key => j <= i
    <3>1. CASE i \in 1 .. len /\ egress'[i] = egress[i]
      <4>1. /\ egress[i].key \notin bridges
            /\ \A j \in 1 .. len : egress[j].key = egress[i].key => j <= i
        BY <2>7, <3>1 DEF RouterInv, ClosedIsLast, len
      <4> QED BY <1>0, <2>1, <2>2, <2>4, <3>1, <4>1
    <3>2. CASE i = len + 1 /\ egress'[i] = m
      BY <2>1, <2>3, <2>7, <3>2
    <3> QED BY <2>4, <3>1, <3>2
  <2>8. ClosedIsLast(egress)'
    BY <2>7 DEF ClosedIsLast
  <2> QED BY <1>0, <2>2, <2>3, <2>5, <2>6, <2>8 DEF RouterInv, ConnOk, EchOk
<1> QED BY <1>1, <1>2

\* Every step keeps the invariant.
LEMMA RouterStep == RouterInv /\ [Next]_vars => RouterInv'
<1> SUFFICES ASSUME RouterInv, [Next]_vars PROVE RouterInv'
  OBVIOUS
<1>1. CASE Environment \/ UNCHANGED vars
  <2>1. UNCHANGED <<conns, made, bridges, egress>>
    BY <1>1 DEF Environment, SendHello, SendData, ClientLeaves, ClientRecv, Lose,
       vars, connVars, bridgeVars
  <2> QED BY <2>1 DEF RouterInv, Owned, ClosedIsLast, ConnOk, EchOk
<1>2. CASE Loop
  BY <1>2, RouterRecv, RouterEgress, RouterRetry DEF Loop
<1>3. ASSUME NEW k \in Keys, BridgeReads(k) \/ BridgeWrites(k) \/ BridgeEnds(k)
      PROVE  RouterInv'
  BY <1>3, RouterBridge
<1> QED BY <1>1, <1>2, <1>3 DEF Next

LEMMA RouterCorrect == Spec => []RouterInv
BY RouterInit, RouterStep, PTL DEF Spec

\* Whoever did not use ECH is not tunnelled: service asks after the handshake
\* and before the first request, on every path that services a connection.
THEOREM EchCorrect == Spec => []OnlyEchIsTunnelled
<1>1. RouterInv => OnlyEchIsTunnelled
  BY DEF RouterInv, Owned, ConnOk, EchOk, OnlyEchIsTunnelled
<1> QED BY <1>1, RouterCorrect, PTL

\* Neither a bridge nor a message of it meets a connection other than its own,
\* whichever of the two goes first: an id is used once, and a close notice is
\* the last message under it.
THEOREM BridgesCorrect == Spec => []BridgesOfConns
<1>1. RouterInv => BridgesOfConns
  <2> SUFFICES ASSUME RouterInv PROVE BridgesOfConns
    OBVIOUS
  <2>1. DOMAIN egress = 1 .. Len(egress)
    BY DEF RouterInv
  <2> QED BY <2>1 DEF RouterInv, Owned, BridgesOfConns
<1> QED BY <1>1, RouterCorrect, PTL

-----------------------------------------------------------------------------
(* NoLostWakeup: a full channel or a permit behind every chunk that waits. *)

WakeInv ==
  /\ made \in 0 .. MaxConns
  /\ rx \in [Keys -> 0 .. INBOUND_CHANNEL_CAP]
  /\ \A k \in DOMAIN conns : conns[k].unread \in Nat
  /\ NoLostWakeup

LEMMA WakeInit == Init => WakeInv
BY H3RouterAssumption DEF Init, WakeInv, NoLostWakeup, Keys

\* The decision after the handshake and the request leave what waits alone.
LEMMA PolledUnread ==
  ASSUME NEW c, ConnOk(c)
  PROVE  Poll(Start(c)).unread = c.unread
<1>1. CASE c.phase = "established"
  <2>1. Start(c) = [client |-> c.client, heard |-> c.heard,
                    phase |-> IF EchOk(c) THEN "h3" ELSE "closing",
                    tunnel |-> c.tunnel, unread |-> c.unread]
    BY <1>1 DEF Start, ConnOk
  <2> QED BY <2>1 DEF Poll
<1>2. CASE c.phase # "established"
  BY <1>2 DEF Start, Poll, ConnOk
<1> QED BY <1>1, <1>2

\* After service a connection it was for has nothing left to move, or its
\* channel is full; no other channel changes.
LEMMA ServiceFills ==
  ASSUME NEW now, NEW due \in SUBSET DOMAIN now, NEW closed,
         Service(now, due, closed),
         rx \in [Keys -> 0 .. INBOUND_CHANNEL_CAP], DOMAIN now \subseteq Keys,
         \A k \in DOMAIN now : ConnOk(now[k]) /\ now[k].unread \in Nat
  PROVE  /\ rx' \in [Keys -> 0 .. INBOUND_CHANNEL_CAP]
         /\ \A k \in DOMAIN conns' :
              /\ k \in DOMAIN now
              /\ conns'[k].unread \in Nat
              /\ k \in due => conns'[k].unread = 0 \/ rx'[k] = INBOUND_CHANNEL_CAP
              /\ k \notin due =>
                   conns'[k] = now[k] /\ rx'[k] = rx[k] /\ (k \in bridges' => k \in bridges)
<1> DEFINE polled == [k \in DOMAIN now |-> IF k \in due THEN Poll(Start(now[k])) ELSE now[k]]
           opened == {k \in due : now[k].tunnel = "none" /\ polled[k].tunnel = "open"}
           reading == {k \in due : polled[k].phase = "h3"} \cap (bridges \cup opened)
           moved == [k \in Keys |-> IF k \in reading
                       THEN Pumped(polled[k], INBOUND_CHANNEL_CAP - rx[k]) ELSE 0]
<1>1. /\ conns' = [k \in DOMAIN now \ closed |->
                     [polled[k] EXCEPT !.unread =
                        IF k \in due \ reading THEN 0 ELSE @ - moved[k]]]
      /\ rx' = [k \in Keys |-> rx[k] + moved[k]]
      /\ bridges' = bridges \cup opened
  BY DEF Service
<1>2. ASSUME NEW k \in DOMAIN now
      PROVE  ConnOk(polled[k]) /\ polled[k].unread = now[k].unread
  BY PolledOk, PolledUnread
<1>3. reading \subseteq due /\ opened \subseteq due
  OBVIOUS
<1>4. \A k \in DOMAIN now : k \notin due => polled[k] = now[k]
  OBVIOUS
<1> HIDE DEF polled, opened, reading
<1>5. ASSUME NEW k \in Keys
      PROVE  /\ k \notin reading => moved[k] = 0
             /\ k \in reading => /\ moved[k] \in 0 .. INBOUND_CHANNEL_CAP - rx[k]
                                 /\ moved[k] <= polled[k].unread
                                 /\ \/ moved[k] = polled[k].unread
                                    \/ moved[k] = INBOUND_CHANNEL_CAP - rx[k]
  <2>1. k \notin reading => moved[k] = 0
    OBVIOUS
  <2>2. CASE k \in reading
    <3>1. moved[k] = Least(polled[k].unread, INBOUND_CHANNEL_CAP - rx[k])
      BY <2>2 DEF Pumped
    <3>2. polled[k].unread \in Nat
      BY <1>2, <1>3, <2>2
    <3>3. INBOUND_CHANNEL_CAP - rx[k] \in Nat
      BY H3RouterAssumption
    <3> HIDE DEF moved
    <3> QED BY <3>1, <3>2, <3>3, <2>1 DEF Least
  <2> QED BY <2>1, <2>2
<1> HIDE DEF moved
<1>6. rx' \in [Keys -> 0 .. INBOUND_CHANNEL_CAP]
  <2> SUFFICES ASSUME NEW k \in Keys PROVE rx[k] + moved[k] \in 0 .. INBOUND_CHANNEL_CAP
    BY <1>1
  <2>1. rx[k] \in 0 .. INBOUND_CHANNEL_CAP /\ INBOUND_CHANNEL_CAP \in Nat
    BY H3RouterAssumption
  <2> QED BY <1>5, <2>1
<1>7. ASSUME NEW k \in DOMAIN conns'
      PROVE  /\ k \in DOMAIN now
             /\ conns'[k].unread \in Nat
             /\ k \in due => conns'[k].unread = 0 \/ rx'[k] = INBOUND_CHANNEL_CAP
             /\ k \notin due =>
                  conns'[k] = now[k] /\ rx'[k] = rx[k] /\ (k \in bridges' => k \in bridges)
  <2>0. /\ k \in DOMAIN now /\ k \in Keys
        /\ rx[k] \in 0 .. INBOUND_CHANNEL_CAP /\ INBOUND_CHANNEL_CAP \in Nat
        /\ rx'[k] = rx[k] + moved[k]
        /\ conns'[k] = [polled[k] EXCEPT !.unread =
                          IF k \in due \ reading THEN 0 ELSE @ - moved[k]]
    BY <1>1, H3RouterAssumption
  <2>1. polled[k].unread \in Nat /\ ConnOk(polled[k])
    BY <1>2, <2>0
  <2>2. conns'[k] = [client |-> polled[k].client, heard |-> polled[k].heard,
                     phase |-> polled[k].phase, tunnel |-> polled[k].tunnel,
                     unread |-> IF k \in due \ reading THEN 0
                                ELSE polled[k].unread - moved[k]]
    BY <2>0, <2>1 DEF ConnOk
  <2>3. CASE k \in reading
    <3>1. k \in due /\ conns'[k].unread = polled[k].unread - moved[k]
      BY <1>3, <2>2, <2>3
    <3> QED BY <1>5, <2>0, <2>1, <2>3, <3>1
  <2>4. CASE k \in due \ reading
    BY <2>0, <2>2, <2>4
  <2>5. CASE k \notin due
    <3>1. k \notin reading /\ moved[k] = 0 /\ polled[k] = now[k]
      BY <1>3, <1>4, <1>5, <2>0, <2>5
    <3>2. conns'[k].unread = now[k].unread
      BY <2>1, <2>2, <2>5, <3>1
    <3>3. conns'[k] = now[k]
      BY <2>1, <2>2, <3>1, <3>2 DEF ConnOk
    <3>4. k \in bridges' => k \in bridges
      BY <1>1, <1>3, <2>5
    <3> QED BY <2>0, <2>1, <2>5, <3>1, <3>3, <3>4
  <2> QED BY <2>3, <2>4, <2>5
<1> QED BY <1>6, <1>7

\* What service leaves waiting waits for a full channel, if the connections it
\* passes over are as they were or a permit is there.
LEMMA ServiceWakes ==
  ASSUME RouterInv, WakeInv, NEW now, NEW due \in SUBSET DOMAIN now, NEW closed,
         Service(now, due, closed), made' \in 0 .. MaxConns,
         \A k \in DOMAIN now :
           k \in 1 .. made' /\ ConnOk(now[k]) /\ now[k].unread \in Nat,
         \A k \in DOMAIN now \ due : k \in DOMAIN conns /\ now[k] = conns[k],
         read_credit' = read_credit \/ due = DOMAIN now
  PROVE  WakeInv'
<1>1. DOMAIN now \subseteq Keys
  BY H3RouterAssumption DEF Keys
<1>2. rx \in [Keys -> 0 .. INBOUND_CHANNEL_CAP]
  BY DEF WakeInv
<1>3. /\ rx' \in [Keys -> 0 .. INBOUND_CHANNEL_CAP]
      /\ \A k \in DOMAIN conns' :
           /\ k \in DOMAIN now
           /\ conns'[k].unread \in Nat
           /\ k \in due => conns'[k].unread = 0 \/ rx'[k] = INBOUND_CHANNEL_CAP
           /\ k \notin due =>
                conns'[k] = now[k] /\ rx'[k] = rx[k] /\ (k \in bridges' => k \in bridges)
  BY <1>1, <1>2, ServiceFills
<1>4. ASSUME NEW k \in DOMAIN conns',
             conns'[k].tunnel = "open", conns'[k].unread > 0, k \in bridges'
      PROVE  rx'[k] = INBOUND_CHANNEL_CAP \/ read_credit'
  <2>1. CASE k \in due
    BY <1>3, <1>4, <2>1
  <2>2. CASE k \notin due
    <3>1. /\ k \in DOMAIN conns /\ conns'[k] = conns[k] /\ rx'[k] = rx[k] /\ k \in bridges
          /\ read_credit' = read_credit
      BY <1>3, <1>4, <2>2
    <3> QED BY <1>4, <3>1 DEF WakeInv, NoLostWakeup
  <2> QED BY <2>1, <2>2
<1> QED BY <1>3, <1>4 DEF WakeInv, NoLostWakeup

\* A datagram is at most one chunk more to move.
LEMMA FedUnread ==
  ASSUME NEW c, NEW d, ConnOk(c), c.unread \in Nat
  PROVE  Feed(c, d).unread \in Nat
<1>1. c.unread + 1 \in Nat /\ Least(c.unread + 1, MaxUnread) \in Nat
  BY H3RouterAssumption DEF Least
<1>2. CASE c.phase \notin {"closing", "handshake"} /\ d.what = Data /\ c.heard = 1 .. HelloParts
  <2>1. Feed(c, d).unread = IF c.tunnel = "open" THEN Least(c.unread + 1, MaxUnread)
                            ELSE c.unread
    BY <1>2 DEF Feed, ConnOk
  <2> QED BY <1>1, <2>1
<1>3. CASE ~(c.phase \notin {"closing", "handshake"} /\ d.what = Data /\ c.heard = 1 .. HelloParts)
  BY <1>3 DEF Feed, ConnOk
<1> QED BY <1>2, <1>3

LEMMA WakeRecv ==
  ASSUME RouterInv, WakeInv, NEW d, RecvKnown(d) \/ RecvInitial(d) \/ RecvDropped(d)
  PROVE  WakeInv'
<1>0. /\ made \in 0 .. MaxConns
      /\ \A k \in DOMAIN conns : k \in 1 .. made /\ ConnOk(conns[k]) /\ conns[k].unread \in Nat
  BY DEF RouterInv, WakeInv
<1>1. CASE RecvKnown(d)
  <2> DEFINE key == Key(d)
             now == [conns EXCEPT ![key] = Feed(@, d)]
  <2>1. /\ key \in DOMAIN conns /\ Service(now, {key}, {})
        /\ made' = made /\ read_credit' = read_credit
    BY <1>1 DEF RecvKnown
  <2> HIDE DEF key
  <2>2. /\ DOMAIN now = DOMAIN conns
        /\ \A k \in DOMAIN conns : now[k] = IF k = key THEN Feed(conns[k], d) ELSE conns[k]
    OBVIOUS
  <2> HIDE DEF now
  <2>3. \A k \in DOMAIN now : k \in 1 .. made' /\ ConnOk(now[k]) /\ now[k].unread \in Nat
    BY <1>0, <2>1, <2>2, FedOk, FedUnread
  <2>4. /\ {key} \in SUBSET DOMAIN now
        /\ \A k \in DOMAIN now \ {key} : k \in DOMAIN conns /\ now[k] = conns[k]
    BY <2>1, <2>2
  <2> QED BY <1>0, <2>1, <2>3, <2>4, ServiceWakes
<1>2. CASE RecvInitial(d)
  <2> DEFINE key == Key(d)
             now == [k \in DOMAIN conns \cup {key} |->
                       IF k = key THEN Feed(NewConn(d.from), d) ELSE conns[k]]
  <2>1. /\ key \notin DOMAIN conns /\ Service(now, {key}, {})
        /\ made' = made + 1 /\ made < MaxConns /\ read_credit' = read_credit
    BY <1>2 DEF RecvInitial
  <2>2. key = made + 1
    BY <2>1 DEF Key
  <2> HIDE DEF key
  <2>3. /\ DOMAIN now = DOMAIN conns \cup {key}
        /\ \A k \in DOMAIN now :
             now[k] = IF k = key THEN Feed(NewConn(d.from), d) ELSE conns[k]
    OBVIOUS
  <2> HIDE DEF now
  <2>4. ConnOk(NewConn(d.from)) /\ NewConn(d.from).unread \in Nat
    BY DEF ConnOk, NewConn
  <2>5. made' \in 0 .. MaxConns
    BY <1>0, <2>1, H3RouterAssumption
  <2>6. \A k \in DOMAIN now : k \in 1 .. made'
    BY <1>0, <2>1, <2>2, <2>3
  <2>7. \A k \in DOMAIN now : ConnOk(now[k]) /\ now[k].unread \in Nat
    BY <1>0, <2>3, <2>4, FedOk, FedUnread
  <2>8. /\ {key} \in SUBSET DOMAIN now
        /\ \A k \in DOMAIN now \ {key} : k \in DOMAIN conns /\ now[k] = conns[k]
    BY <2>3
  <2> QED BY <2>1, <2>5, <2>6, <2>7, <2>8, ServiceWakes
<1>3. CASE RecvDropped(d)
  BY <1>3 DEF RecvDropped, connVars, bridgeVars, WakeInv, NoLostWakeup
<1> QED BY <1>1, <1>2, <1>3

LEMMA WakeEgress ==
  ASSUME RouterInv, WakeInv, Egress
  PROVE  WakeInv'
<1> DEFINE msg == Head(egress)
<1>0. made' = made /\ read_credit' = read_credit /\ RouterInv' /\ made \in 0 .. MaxConns
  BY RouterEgress DEF Egress, WakeInv
<1>1. CASE msg.key \in DOMAIN conns
  <2> DEFINE now == [conns EXCEPT ![msg.key] =
                       IF msg.out = "Closed" THEN [@ EXCEPT !.tunnel = "over", !.unread = 0]
                                             ELSE @]
  <2>1. Service(now, {msg.key}, {})
    BY <1>1 DEF Egress
  <2>2. /\ DOMAIN now = DOMAIN conns
        /\ \A k \in DOMAIN conns : k # msg.key => now[k] = conns[k]
        /\ now[msg.key] = IF msg.out = "Closed"
             THEN [conns[msg.key] EXCEPT !.tunnel = "over", !.unread = 0] ELSE conns[msg.key]
    BY <1>1
  <2> HIDE DEF now
  <2>3. ConnOk(conns[msg.key]) /\ conns[msg.key].unread \in Nat
    BY <1>1 DEF RouterInv, WakeInv
  <2>4. ConnOk(now[msg.key]) /\ now[msg.key].unread \in Nat
    <3>1. CASE msg.out # "Closed"
      BY <2>2, <2>3, <3>1
    <3>2. CASE msg.out = "Closed"
      <4>1. now[msg.key] =
              [client |-> conns[msg.key].client, heard |-> conns[msg.key].heard,
               phase |-> conns[msg.key].phase, tunnel |-> "over", unread |-> 0]
        BY <2>2, <2>3, <3>2 DEF ConnOk
      <4>2. conns[msg.key].tunnel = "open"
        <5>1. 1 \in 1 .. Len(egress) /\ msg = egress[1]
          BY DEF RouterInv, Egress
        <5> QED BY <1>1, <5>1 DEF RouterInv, Owned
      <4> QED BY <2>3, <4>1, <4>2 DEF ConnOk, EchOk
    <3> QED BY <3>1, <3>2
  <2>5. \A k \in DOMAIN now : k \in 1 .. made' /\ ConnOk(now[k]) /\ now[k].unread \in Nat
    BY <1>0, <2>2, <2>4 DEF RouterInv, WakeInv
  <2>6. /\ {msg.key} \in SUBSET DOMAIN now
        /\ \A k \in DOMAIN now \ {msg.key} : k \in DOMAIN conns /\ now[k] = conns[k]
    BY <1>1, <2>2
  <2> QED BY <1>0, <2>1, <2>5, <2>6, ServiceWakes
<1>2. CASE msg.key \notin DOMAIN conns
  <2>1. UNCHANGED <<conns, rx, bridges, made, read_credit>>
    BY <1>2 DEF Egress
  <2> QED BY <2>1 DEF WakeInv, NoLostWakeup
<1> QED BY <1>1, <1>2

\* The permit that Credit consumes is not missed: every connection is serviced.
LEMMA WakeRetry ==
  ASSUME RouterInv, WakeInv, Credit \/ Timer
  PROVE  WakeInv'
<1>1. PICK closed : Service(conns, DOMAIN conns, closed)
  BY DEF Credit, Timer
<1>2. made' = made
  BY DEF Credit, Timer
<1>3. /\ made' \in 0 .. MaxConns
      /\ \A k \in DOMAIN conns :
           k \in 1 .. made' /\ ConnOk(conns[k]) /\ conns[k].unread \in Nat
  BY <1>2 DEF RouterInv, WakeInv
<1> QED BY <1>1, <1>3, ServiceWakes

LEMMA WakeBridge ==
  ASSUME RouterInv, WakeInv, NEW k \in Keys, BridgeReads(k) \/ BridgeWrites(k) \/ BridgeEnds(k)
  PROVE  WakeInv'
<1>1. CASE BridgeReads(k)
  <2>1. /\ read_credit' /\ UNCHANGED <<conns, made>> /\ rx[k] > 0
        /\ rx' = [rx EXCEPT ![k] = @ - 1]
    BY <1>1 DEF BridgeReads, connVars
  <2>2. rx' \in [Keys -> 0 .. INBOUND_CHANNEL_CAP]
    BY <2>1, H3RouterAssumption DEF WakeInv
  <2> QED BY <2>1, <2>2 DEF WakeInv, NoLostWakeup
<1>2. CASE BridgeWrites(k)
  BY <1>2 DEF BridgeWrites, connVars, WakeInv, NoLostWakeup
<1>3. CASE BridgeEnds(k)
  <2>1. /\ UNCHANGED <<conns, made, read_credit>> /\ bridges' = bridges \ {k}
        /\ rx' = [rx EXCEPT ![k] = 0]
    BY <1>3 DEF BridgeEnds, connVars
  <2>2. rx' \in [Keys -> 0 .. INBOUND_CHANNEL_CAP]
    BY <2>1, H3RouterAssumption DEF WakeInv
  <2>3. \A l \in bridges' : rx'[l] = rx[l] /\ l \in bridges
    BY <2>1 DEF WakeInv
  <2> QED BY <2>1, <2>2, <2>3 DEF WakeInv, NoLostWakeup
<1> QED BY <1>1, <1>2, <1>3

LEMMA WakeStep == RouterInv /\ WakeInv /\ [Next]_vars => WakeInv'
<1> SUFFICES ASSUME RouterInv, WakeInv, [Next]_vars PROVE WakeInv'
  OBVIOUS
<1>1. CASE Environment \/ UNCHANGED vars
  <2>1. UNCHANGED <<conns, made, rx, bridges, read_credit>>
    BY <1>1 DEF Environment, SendHello, SendData, ClientLeaves, ClientRecv, Lose,
       vars, connVars, bridgeVars
  <2> QED BY <2>1 DEF WakeInv, NoLostWakeup
<1>2. CASE Loop
  BY <1>2, WakeRecv, WakeEgress, WakeRetry DEF Loop
<1>3. ASSUME NEW k \in Keys, BridgeReads(k) \/ BridgeWrites(k) \/ BridgeEnds(k)
      PROVE  WakeInv'
  BY <1>3, WakeBridge
<1> QED BY <1>1, <1>2, <1>3 DEF Next

\* One Notify for all connections loses no wakeup: a chunk waits only for a
\* full channel, or the permit is there that has every connection retried.
THEOREM WakeupCorrect == Spec => []NoLostWakeup
<1>1. WakeInv => NoLostWakeup
  BY DEF WakeInv
<1> QED BY <1>1, RouterCorrect, WakeInit, WakeStep, PTL DEF Spec

=============================================================================
