-------------------------- MODULE H3SessionProofs --------------------------
(***************************************************************************)
(* Proofs about H3Session, for any number of connections and sessions, any *)
(* capacities and any mix of failures.                                     *)
(***************************************************************************)
EXTENDS H3Session, FiniteSetTheorems, TLAPS

Serving == mgr \in {"open", "select", "turn"}
Started(r) == task[r] \in {"bridging", "ended"}

\* The requests that have left the channel come first in `arrived`; the last
\* of them may be the one the session holds.
Taken == Len(arrived) - Len(open_rx)

\* `arrived` is what was answered, what is parked and what is in the channel,
\* in this order, and no request is in it twice.
QueueInv ==
  /\ Len(open_rx) <= Len(arrived)
  /\ \A i \in 1 .. Len(open_rx) : open_rx[i] = arrived[Taken + i]
  /\ pending # {} => Taken > 0 /\ pending = {arrived[Taken]}
  /\ \A i \in 1 .. Len(arrived) :
       IF i > Taken \/ arrived[i] \in pending
         THEN task[arrived[i]] = "waiting"
         ELSE Answered(arrived[i])
  /\ \A i, j \in 1 .. Len(arrived) : arrived[i] = arrived[j] => i = j

\* Every QuicStream has a name of its own, and what is in the map and in the
\* egress channel of a session bears names of this session.
NameInv ==
  /\ ~Serving => DOMAIN streams = {} /\ egress = <<>>
  /\ \A sid \in DOMAIN streams :
       /\ sid < opened
       /\ Started(streams[sid].owner)
       /\ handle[streams[sid].owner] = [epoch |-> epoch, sid |-> sid]
  /\ \A r \in Requests : Started(r) =>
       /\ handle[r].epoch <= epoch
       /\ handle[r].epoch = epoch => handle[r].sid < opened
  /\ \A r, q \in Requests :
       Started(r) /\ Started(q) /\ handle[r] = handle[q] => r = q
  /\ \A i \in 1 .. Len(egress) :
       /\ Started(egress[i].from)
       /\ handle[egress[i].from] = [epoch |-> epoch, sid |-> egress[i].sid]

\* Between two sessions manager() holds no request.
IdleHolds == mgr = "idle" => pending = {}

Inv == TypeOK /\ QueueInv /\ IdleHolds /\ NameInv

\* The head and the tail of a sequence that is not empty.
LEMMA TailOf ==
  ASSUME NEW S, NEW q \in Seq(S), q # <<>>
  PROVE  /\ Len(q) > 0 /\ Head(q) \in S /\ Head(q) = q[1]
         /\ Tail(q) \in Seq(S) /\ Len(Tail(q)) = Len(q) - 1
         /\ \A i \in 1 .. Len(q) - 1 : Tail(q)[i] = q[i + 1]
OBVIOUS

\* A sequence with one more element.
LEMMA AppendOf ==
  ASSUME NEW S, NEW q \in Seq(S), NEW e \in S
  PROVE  /\ Append(q, e) \in Seq(S) /\ Len(Append(q, e)) = Len(q) + 1
         /\ \A i \in 1 .. Len(q) : Append(q, e)[i] = q[i]
         /\ Append(q, e)[Len(q) + 1] = e
OBVIOUS

\* Nothing has arrived and no session exists at first.
LEMMA InvInit == Init => Inv
<1> SUFFICES ASSUME Init PROVE Inv
  OBVIOUS
<1> USE H3SessionAssumption DEF Init
<1>1. DOMAIN streams = {} /\ streams \in [DOMAIN streams -> Stream]
  BY DEF NoStreams
<1>2. handle \in [Requests -> Handle]
  BY DEF Handle
<1>3. TypeOK
  <2>1. /\ open_rx \in Seq(Requests) /\ Len(open_rx) <= OPEN_CHANNEL_CAP
        /\ arrived \in Seq(Requests)
        /\ egress \in Seq(Message) /\ Len(egress) <= EGRESS_CHANNEL_CAP
    OBVIOUS
  <2>2. task \in [Requests -> {"idle", "sending", "waiting", "bridging", "refused", "ended"}]
    OBVIOUS
  <2>3. credit \in 0 .. PeerCredit /\ unsent \subseteq Nat
    OBVIOUS
  <2> QED BY <1>1, <1>2, <2>1, <2>2, <2>3 DEF TypeOK
<1>4. QueueInv
  BY DEF QueueInv, Taken
<1>5. NameInv
  BY <1>1 DEF NameInv, Serving, Started
<1>6. IdleHolds
  BY DEF IdleHolds
<1> QED BY <1>3, <1>4, <1>5, <1>6 DEF Inv

\* What a bridge sends is a message, and there was room for it.
LEMMA SendType ==
  ASSUME TypeOK, NEW r \in Requests, NEW out \in {"Data", "Closed"}, Send(r, out)
  PROVE  /\ ToLoop(r, out) \in Message
         /\ egress' \in Seq(Message) /\ Len(egress') = Len(egress) + 1
         /\ Len(egress') <= EGRESS_CHANNEL_CAP
         /\ \A i \in 1 .. Len(egress) : egress'[i] = egress[i]
         /\ egress'[Len(egress) + 1] = ToLoop(r, out)
<1>1. ToLoop(r, out) \in Message
  BY DEF TypeOK, ToLoop, Message, Handle
<1>2. egress \in Seq(Message) /\ egress' = Append(egress, ToLoop(r, out))
  BY DEF TypeOK, Send
<1>3. Len(egress) \in Nat /\ Len(egress) < EGRESS_CHANNEL_CAP
  BY <1>2 DEF Send
<1> HIDE DEF Send
<1> QED BY <1>1, <1>2, <1>3, AppendOf, H3SessionAssumption

\* The streams of a session are finitely many: their ids are below `opened`.
LEMMA StreamsFinite ==
  ASSUME TypeOK, NameInv
  PROVE  Cardinality(DOMAIN streams) \in Nat
<1>1. opened \in Nat /\ \A sid \in DOMAIN streams : sid \in Nat /\ sid < opened
  BY DEF TypeOK, NameInv
<1>2. DOMAIN streams \subseteq 0 .. opened
  BY <1>1
<1>3. IsFiniteSet(0 .. opened)
  BY <1>1, FS_Interval
<1> QED BY <1>2, <1>3, FS_Subset, FS_CardinalityType

\* Every action keeps the types.
LEMMA TypeStep == Inv /\ [Next]_vars => TypeOK'
<1> SUFFICES ASSUME Inv, [Next]_vars PROVE TypeOK'
  OBVIOUS
<1> USE H3SessionAssumption DEF Inv, TypeOK, requestVars, connVars, streamVars, bridgeVars
<1>1. CASE EndSession
  <2>1. DOMAIN streams' = {} /\ streams' \in [DOMAIN streams' -> Stream]
    BY <1>1 DEF EndSession, NoStreams
  <2>2. task' \in [Requests -> {"idle", "sending", "waiting", "bridging", "refused", "ended"}]
    BY <1>1 DEF EndSession, Refuse
  <2> QED BY <1>1, <2>1, <2>2 DEF EndSession
<1>2. CASE SetupFails \/ HandshakeFails \/ TurnClosed \/ UdpError
  BY <1>1, <1>2 DEF SetupFails, HandshakeFails, TurnClosed, UdpError
<1>3. CASE ManagerRecv
  <2>1. Head(open_rx) \in Requests /\ Tail(open_rx) \in Seq(Requests)
        /\ Len(Tail(open_rx)) <= OPEN_CHANNEL_CAP
    BY <1>3, TailOf DEF ManagerRecv
  <2> QED BY <1>3, <2>1 DEF ManagerRecv
<1>4. CASE Setup
  <2>1. credit' \in 0 .. PeerCredit /\ epoch' \in Nat
    BY <1>4 DEF Setup
  <2> QED BY <1>4, <2>1 DEF Setup
<1>5. CASE HandshakeDone
  BY <1>5 DEF HandshakeDone
<1>6. CASE Park
  BY <1>6 DEF Park, Wait
<1>7. CASE Defer
  BY <1>7 DEF Defer, Wait
<1>8. CASE OpenFails
  BY <1>8 DEF OpenFails, Wait, Refuse
<1>9. CASE OpenStream
  <2>1. PICK r \in pending :
          /\ task' = [task EXCEPT ![r] = "bridging"]
          /\ handle' = [handle EXCEPT ![r] = [epoch |-> epoch, sid |-> opened]]
          /\ streams' = [sid \in DOMAIN streams \cup {opened} |->
                           IF sid = opened THEN [owner |-> r, closed |-> FALSE]
                                           ELSE streams[sid]]
    BY <1>9 DEF OpenStream
  <2>2. task' \in [Requests -> {"idle", "sending", "waiting", "bridging", "refused", "ended"}]
    BY <2>1
  <2>3. handle' \in [Requests -> Handle]
    BY <2>1 DEF Handle
  <2>4. DOMAIN streams' = DOMAIN streams \cup {opened}
        /\ streams' \in [DOMAIN streams' -> Stream]
    BY <2>1 DEF Stream
  <2>5. credit' \in 0 .. PeerCredit
    BY <1>9 DEF OpenStream
  <2>6. /\ DOMAIN streams' \subseteq Nat
        /\ unsent' \subseteq Nat /\ opened' \in Nat
    BY <1>9, <2>4 DEF OpenStream
  <2>7. /\ mgr' = "select" /\ pending' = {}
        /\ UNCHANGED <<open_rx, arrived, conn, settings, epoch, inflight, egress>>
    BY <1>9 DEF OpenStream, Wait
  <2> QED BY <2>2, <2>3, <2>4, <2>5, <2>6, <2>7
<1>10. CASE UdpAck
  BY <1>10 DEF UdpAck, Selected
<1>11. CASE UdpSettings
  BY <1>11 DEF UdpSettings, Selected
<1>12. CASE UdpCredit
  <2>2. Cardinality(DOMAIN streams) \in Nat
    BY StreamsFinite
  <2>3. credit' \in 0 .. PeerCredit
    BY <1>12, <2>2 DEF UdpCredit
  <2> QED BY <1>12, <2>3 DEF UdpCredit, Selected
<1>13. CASE UdpStreamOver
  <2>1. DOMAIN streams' \subseteq Nat /\ streams' \in [DOMAIN streams' -> Stream]
    BY <1>13 DEF UdpStreamOver
  <2> QED BY <1>13, <2>1 DEF UdpStreamOver, Selected
<1>14. CASE UdpClose
  BY <1>14 DEF UdpClose, Selected
<1>15. CASE Timer
  BY <1>15 DEF Timer, Selected
<1>16. CASE SelectOpen
  <2>1. Head(open_rx) \in Requests /\ Tail(open_rx) \in Seq(Requests)
        /\ Len(Tail(open_rx)) <= OPEN_CHANNEL_CAP
    BY <1>16, TailOf DEF SelectOpen
  <2> QED BY <1>16, <2>1 DEF SelectOpen, Selected
<1>17. CASE SelectEgress
  <2>1. DOMAIN streams' = DOMAIN streams
        /\ streams' \in [DOMAIN streams' -> Stream]
    BY <1>17 DEF SelectEgress, Stream
  <2>2. egress' \in Seq(Message) /\ Len(egress') <= EGRESS_CHANNEL_CAP
    BY <1>17, TailOf DEF SelectEgress
  <2> QED BY <1>17, <2>1, <2>2 DEF SelectEgress, Selected
<1>18. CASE Turn
  <2>1. DOMAIN streams' \subseteq Nat /\ streams' \in [DOMAIN streams' -> Stream]
    BY <1>18 DEF Turn
  <2> QED BY <1>18, <2>1 DEF Turn
<1>19. ASSUME NEW r \in Requests, Accept(r) PROVE TypeOK'
  BY <1>19 DEF Accept
<1>20. ASSUME NEW r \in Requests, SendReq(r) PROVE TypeOK'
  <2>1. /\ open_rx' \in Seq(Requests) /\ Len(open_rx') <= OPEN_CHANNEL_CAP
        /\ arrived' \in Seq(Requests)
    BY <1>20, AppendOf DEF SendReq
  <2> QED BY <1>20, <2>1 DEF SendReq
<1>21. ASSUME NEW r \in Requests, BridgeSends(r) PROVE TypeOK'
  <2>1. egress' \in Seq(Message) /\ Len(egress') <= EGRESS_CHANNEL_CAP
    BY <1>21, SendType DEF BridgeSends
  <2> QED BY <1>21, <2>1 DEF BridgeSends
<1>22. ASSUME NEW r \in Requests, BridgeEnds(r) PROVE TypeOK'
  <2>1. egress' \in Seq(Message) /\ Len(egress') <= EGRESS_CHANNEL_CAP
    BY <1>22, SendType DEF BridgeEnds
  <2> QED BY <1>22, <2>1 DEF BridgeEnds
<1>23. CASE UNCHANGED vars
  BY <1>23 DEF vars
<1> QED BY <1>1, <1>2, <1>3, <1>4, <1>5, <1>6, <1>7, <1>8, <1>9, <1>10, <1>11, <1>12, <1>13, <1>14, <1>15, <1>16, <1>17, <1>18, <1>19, <1>20, <1>21, <1>22, <1>23 DEF Next, Loop, Top

\* What the types say of the elements of the variables.
LEMMA Elements ==
  ASSUME TypeOK
  PROVE  /\ Len(arrived) \in Nat /\ Len(open_rx) \in Nat /\ Len(egress) \in Nat
         /\ \A i \in 1 .. Len(arrived) : arrived[i] \in Requests
         /\ \A i \in 1 .. Len(egress) : egress[i].from \in Requests
         /\ \A sid \in DOMAIN streams : streams[sid].owner \in Requests /\ sid \in Nat
         /\ \A r \in Requests : handle[r].epoch \in Nat /\ handle[r].sid \in Nat
         /\ pending \subseteq Requests
<1>1. Len(arrived) \in Nat /\ \A i \in 1 .. Len(arrived) : arrived[i] \in Requests
  BY DEF TypeOK
<1>2. Len(open_rx) \in Nat
  BY DEF TypeOK
<1>3. Len(egress) \in Nat /\ \A i \in 1 .. Len(egress) : egress[i] \in Message
  BY DEF TypeOK
<1>4. \A i \in 1 .. Len(egress) : egress[i].from \in Requests
  BY <1>3 DEF Message
<1>5. \A sid \in DOMAIN streams : streams[sid] \in Stream /\ sid \in Nat
  BY DEF TypeOK
<1>6. \A sid \in DOMAIN streams : streams[sid].owner \in Requests /\ sid \in Nat
  BY <1>5 DEF Stream
<1>7. \A r \in Requests : handle[r] \in Handle
  BY DEF TypeOK
<1>8. \A r \in Requests : handle[r].epoch \in Nat /\ handle[r].sid \in Nat
  BY <1>7 DEF Handle
<1>9. pending \subseteq Requests
  BY DEF TypeOK
<1> QED BY <1>1, <1>2, <1>3, <1>4, <1>6, <1>8, <1>9

\* The request that is parked waits, and it is the last that was taken.
LEMMA PendingWaits ==
  ASSUME TypeOK, QueueInv
  PROVE  /\ \A r \in pending : r \in Requests /\ task[r] = "waiting"
         /\ \A i \in 1 .. Len(arrived) : i > Taken => arrived[i] \notin pending
         /\ Taken \in Nat /\ Taken <= Len(arrived)
<1>1. Len(arrived) \in Nat /\ Len(open_rx) \in Nat
  BY Elements
<1>2. Taken \in Nat /\ Taken <= Len(arrived)
  BY <1>1 DEF QueueInv, Taken
<1>3. ASSUME NEW r \in pending PROVE r = arrived[Taken] /\ Taken \in 1 .. Len(arrived)
  BY <1>2, <1>3 DEF QueueInv
<1>4. \A r \in pending : r \in Requests /\ task[r] = "waiting"
  BY <1>3, Elements DEF QueueInv
<1>5. ASSUME NEW i \in 1 .. Len(arrived), i > Taken PROVE arrived[i] \notin pending
  <2> SUFFICES ASSUME arrived[i] \in pending PROVE FALSE
    OBVIOUS
  <2>1. arrived[i] = arrived[Taken] /\ Taken \in 1 .. Len(arrived)
    BY <1>3
  <2>2. i = Taken
    BY <2>1 DEF QueueInv
  <2> QED BY <1>2, <1>5, <2>2
<1> QED BY <1>2, <1>4, <1>5

-----------------------------------------------------------------------------
(* The order of the requests.                                              *)

\* A step that touches neither the queue nor an accept task that has asked.
LEMMA QueueFrame ==
  ASSUME TypeOK, QueueInv, UNCHANGED <<open_rx, arrived, pending>>,
         \A r \in Requests :
           task[r] \in {"waiting", "bridging", "refused", "ended"} =>
             \/ task'[r] = task[r]
             \/ task[r] # "waiting" /\ task'[r] \in {"bridging", "refused", "ended"}
  PROVE  QueueInv'
<1>1. Taken' = Taken
  BY DEF Taken
<1>2. ASSUME NEW i \in 1 .. Len(arrived)
      PROVE  IF i > Taken \/ arrived[i] \in pending
               THEN task'[arrived[i]] = "waiting"
               ELSE task'[arrived[i]] \in {"bridging", "refused", "ended"}
  <2>1. arrived[i] \in Requests
    BY Elements
  <2> QED BY <2>1 DEF QueueInv, Answered
<1> QED BY <1>1, <1>2 DEF QueueInv, Answered

\* The request that is held is answered, one way or the other.
LEMMA QueueAnswer ==
  ASSUME TypeOK, QueueInv, UNCHANGED <<open_rx, arrived>>, pending' = {},
         \A r \in Requests : IF r \in pending
           THEN task'[r] \in {"bridging", "refused", "ended"}
           ELSE task'[r] = task[r]
  PROVE  QueueInv'
<1>1. Taken' = Taken
  BY DEF Taken
<1>2. ASSUME NEW i \in 1 .. Len(arrived)
      PROVE  IF i > Taken
               THEN task'[arrived[i]] = "waiting"
               ELSE task'[arrived[i]] \in {"bridging", "refused", "ended"}
  <2>1. arrived[i] \in Requests
    BY Elements
  <2>2. i > Taken => arrived[i] \notin pending
    BY PendingWaits
  <2> QED BY <2>1, <2>2 DEF QueueInv, Answered
<1> QED BY <1>1, <1>2 DEF QueueInv, Answered

\* The next request is taken from the channel, while none is held.
LEMMA QueueTake ==
  ASSUME TypeOK, QueueInv, UNCHANGED <<task, arrived>>,
         pending = {}, open_rx # <<>>,
         pending' = {Head(open_rx)}, open_rx' = Tail(open_rx)
  PROVE  QueueInv'
<1>1. open_rx \in Seq(Requests)
  BY DEF TypeOK
<1>2. /\ Len(open_rx) > 0 /\ Head(open_rx) = open_rx[1]
      /\ Len(open_rx') = Len(open_rx) - 1
      /\ \A i \in 1 .. Len(open_rx) - 1 : open_rx'[i] = open_rx[i + 1]
  BY <1>1, TailOf
<1>3. Len(arrived) \in Nat /\ Len(open_rx) \in Nat /\ Len(arrived') = Len(arrived)
  BY Elements
<1>4. /\ Taken' = Taken + 1 /\ Taken \in Nat /\ Taken' \in 1 .. Len(arrived)
      /\ Len(open_rx') <= Len(arrived')
  BY <1>2, <1>3 DEF QueueInv, Taken
<1>5. pending' = {arrived[Taken']}
  BY <1>2, <1>3, <1>4 DEF QueueInv
<1>6. ASSUME NEW i \in 1 .. Len(open_rx') PROVE open_rx'[i] = arrived'[Taken' + i]
  <2>1. i + 1 \in 1 .. Len(open_rx) /\ open_rx'[i] = open_rx[i + 1]
    BY <1>2, <1>3
  <2>2. open_rx[i + 1] = arrived[Taken + (i + 1)]
    BY <2>1 DEF QueueInv
  <2>3. Taken + (i + 1) = Taken' + i
    BY <1>4
  <2> QED BY <2>1, <2>2, <2>3
<1>7. ASSUME NEW i \in 1 .. Len(arrived)
      PROVE  IF i > Taken' \/ arrived[i] \in pending'
               THEN task[arrived[i]] = "waiting"
               ELSE task[arrived[i]] \in {"bridging", "refused", "ended"}
  <2>1. arrived[i] \in pending' <=> i = Taken'
    BY <1>4, <1>5 DEF QueueInv
  <2>2. i > Taken' \/ i = Taken' <=> i > Taken
    BY <1>3, <1>4
  <2> QED BY <2>1, <2>2 DEF QueueInv, Answered
<1> QED BY <1>4, <1>5, <1>6, <1>7 DEF QueueInv, Answered

\* A request enters the channel.
LEMMA QueueSend ==
  ASSUME TypeOK, QueueInv, NEW r \in Requests, SendReq(r)
  PROVE  QueueInv'
<1>1. /\ open_rx' = Append(open_rx, r) /\ arrived' = Append(arrived, r)
      /\ task' = [task EXCEPT ![r] = "waiting"] /\ pending' = pending
      /\ task[r] = "sending"
  BY DEF SendReq
<1>2. open_rx \in Seq(Requests) /\ arrived \in Seq(Requests)
  BY DEF TypeOK
<1>3. /\ Len(open_rx') = Len(open_rx) + 1 /\ Len(arrived') = Len(arrived) + 1
      /\ \A i \in 1 .. Len(open_rx) : open_rx'[i] = open_rx[i]
      /\ \A i \in 1 .. Len(arrived) : arrived'[i] = arrived[i]
      /\ open_rx'[Len(open_rx) + 1] = r /\ arrived'[Len(arrived) + 1] = r
  BY <1>1, <1>2, AppendOf
<1>4. Len(arrived) \in Nat /\ Len(open_rx) \in Nat
  BY Elements
<1>5. /\ Taken' = Taken /\ Taken \in Nat /\ Taken <= Len(arrived)
      /\ Len(open_rx') <= Len(arrived')
  BY <1>3, <1>4 DEF QueueInv, Taken
<1>6. \A i \in 1 .. Len(arrived) :
        arrived[i] \in Requests /\ arrived[i] # r /\ task'[arrived[i]] = task[arrived[i]]
  <2> SUFFICES ASSUME NEW i \in 1 .. Len(arrived)
               PROVE  arrived[i] \in Requests /\ arrived[i] # r
                      /\ task'[arrived[i]] = task[arrived[i]]
    OBVIOUS
  <2>1. arrived[i] \in Requests
    BY Elements
  <2>2. task[arrived[i]] # "sending"
    BY DEF QueueInv, Answered
  <2>3. arrived[i] # r
    BY <1>1, <2>2
  <2> QED BY <1>1, <2>1, <2>3 DEF TypeOK
<1>7. r \notin pending /\ task'[r] = "waiting"
  BY <1>1, PendingWaits DEF TypeOK
<1>8. ASSUME NEW i \in 1 .. Len(open_rx') PROVE open_rx'[i] = arrived'[Taken' + i]
  <2>1. CASE i \in 1 .. Len(open_rx)
    <3>1. Taken + i \in 1 .. Len(arrived)
      BY <1>4, <1>5, <2>1 DEF Taken
    <3> QED BY <1>3, <1>5, <2>1, <3>1 DEF QueueInv
  <2>2. CASE i = Len(open_rx) + 1
    <3>1. Taken + i = Len(arrived) + 1
      BY <1>4, <2>2 DEF Taken
    <3> QED BY <1>3, <1>5, <2>2, <3>1
  <2> QED BY <1>3, <1>4, <2>1, <2>2
<1>9. ASSUME NEW i \in 1 .. Len(arrived')
      PROVE  IF i > Taken \/ arrived'[i] \in pending
               THEN task'[arrived'[i]] = "waiting"
               ELSE task'[arrived'[i]] \in {"bridging", "refused", "ended"}
  <2>1. CASE i \in 1 .. Len(arrived)
    <3>1. arrived'[i] = arrived[i] /\ task'[arrived[i]] = task[arrived[i]]
      BY <1>3, <1>6, <2>1
    <3> QED BY <2>1, <3>1 DEF QueueInv, Answered
  <2>2. CASE i = Len(arrived) + 1
    BY <1>3, <1>4, <1>5, <1>7, <2>2
  <2> QED BY <1>3, <1>4, <2>1, <2>2
<1>10. ASSUME NEW i \in 1 .. Len(arrived'), NEW j \in 1 .. Len(arrived'),
              arrived'[i] = arrived'[j]
       PROVE  i = j
  <2>1. CASE i \in 1 .. Len(arrived) /\ j \in 1 .. Len(arrived)
    BY <1>3, <1>10, <2>1 DEF QueueInv
  <2>2. CASE i = Len(arrived) + 1 \/ j = Len(arrived) + 1
    BY <1>3, <1>4, <1>6, <1>10, <2>2
  <2> QED BY <1>3, <1>4, <2>1, <2>2
<1>11. pending' # {} => Taken' > 0 /\ pending' = {arrived'[Taken']}
  <2>1. pending # {} => Taken > 0 /\ pending = {arrived[Taken]}
    BY DEF QueueInv
  <2>2. Taken > 0 => Taken \in 1 .. Len(arrived)
    BY <1>4, <1>5
  <2> QED BY <1>1, <1>3, <1>5, <2>1, <2>2
<1> QED BY <1>1, <1>5, <1>8, <1>9, <1>10, <1>11 DEF QueueInv, Answered

\* Every action keeps the order of the requests.
LEMMA QueueStep == Inv /\ [Next]_vars => QueueInv'
<1> SUFFICES ASSUME Inv, [Next]_vars PROVE QueueInv'
  OBVIOUS
<1> USE DEF requestVars, connVars, streamVars, bridgeVars
<1>0. TypeOK /\ QueueInv
  BY DEF Inv
<1>1. CASE EndSession \/ OpenFails
  BY <1>0, <1>1, QueueAnswer DEF EndSession, OpenFails, Refuse
<1>2. CASE SetupFails \/ HandshakeFails \/ TurnClosed \/ UdpError
  BY <1>1, <1>2 DEF SetupFails, HandshakeFails, TurnClosed, UdpError
<1>3. CASE OpenStream
  <2>1. PICK r \in pending : task' = [task EXCEPT ![r] = "bridging"]
    BY <1>3 DEF OpenStream
  <2>2. pending = {r} /\ r \in Requests
    BY <1>0, <2>1 DEF TypeOK
  <2>3. \A q \in Requests : task'[q] = IF q \in pending THEN "bridging" ELSE task[q]
    BY <1>0, <2>1, <2>2 DEF TypeOK
  <2> QED BY <1>0, <1>3, <2>3, QueueAnswer DEF OpenStream
<1>4. CASE ManagerRecv
  <2>1. pending = {}
    BY <1>4 DEF Inv, IdleHolds, ManagerRecv
  <2> QED BY <1>0, <1>4, <2>1, QueueTake DEF ManagerRecv
<1>5. CASE SelectOpen
  BY <1>0, <1>5, QueueTake DEF SelectOpen
<1>6. ASSUME NEW r \in Requests, SendReq(r) PROVE QueueInv'
  BY <1>0, <1>6, QueueSend
<1>7. CASE UNCHANGED requestVars
  BY <1>0, <1>7, QueueFrame
<1>8. CASE \/ Setup \/ HandshakeDone \/ Park \/ Defer
           \/ UdpAck \/ UdpSettings \/ UdpCredit \/ UdpStreamOver \/ UdpClose
           \/ Timer \/ SelectEgress \/ Turn \/ UNCHANGED vars
           \/ \E r \in Requests : BridgeSends(r)
  BY <1>7, <1>8 DEF Setup, HandshakeDone, Park, Defer, UdpAck, UdpSettings,
     UdpCredit, UdpStreamOver, UdpClose, Timer, SelectEgress, Turn, vars, BridgeSends
<1>9. ASSUME NEW r \in Requests, Accept(r) PROVE QueueInv'
  <2>1. \A q \in Requests : task'[q] = task[q] \/ task[q] = "idle"
    BY <1>0, <1>9 DEF Accept, TypeOK
  <2> QED BY <1>0, <1>9, <2>1, QueueFrame DEF Accept
<1>10. ASSUME NEW r \in Requests, BridgeEnds(r) PROVE QueueInv'
  <2>0. task' = [task EXCEPT ![r] = "ended"] /\ task[r] = "bridging"
    BY <1>10 DEF BridgeEnds
  <2>1. \A q \in Requests :
          task'[q] = task[q] \/ (task[q] = "bridging" /\ task'[q] = "ended")
    BY <1>0, <2>0 DEF TypeOK
  <2> QED BY <1>0, <1>10, <2>1, QueueFrame DEF BridgeEnds
<1> QED BY <1>1, <1>2, <1>3, <1>4, <1>5, <1>6, <1>8, <1>9, <1>10 DEF Next, Loop, Top

\* Between two sessions manager() holds no request.
LEMMA IdleStep == Inv /\ [Next]_vars => IdleHolds'
<1> SUFFICES ASSUME Inv, [Next]_vars PROVE IdleHolds'
  OBVIOUS
<1>1. IdleHolds
  BY DEF Inv
<1>2. CASE EndSession
  BY <1>2 DEF EndSession, IdleHolds
<1>3. CASE SetupFails \/ HandshakeFails \/ TurnClosed \/ UdpError
  BY <1>2, <1>3 DEF SetupFails, HandshakeFails, TurnClosed, UdpError
<1>4. CASE ManagerRecv \/ Setup \/ HandshakeDone \/ Park \/ Defer \/ OpenFails
           \/ OpenStream \/ Turn
  BY <1>4 DEF ManagerRecv, Setup, HandshakeDone, Park, Defer, OpenFails,
     OpenStream, Turn, Wait, IdleHolds
<1>5. CASE \/ UdpAck \/ UdpSettings \/ UdpCredit \/ UdpStreamOver \/ UdpClose
           \/ Timer \/ SelectOpen \/ SelectEgress
  BY <1>5 DEF UdpAck, UdpSettings, UdpCredit, UdpStreamOver, UdpClose, Timer,
     SelectOpen, SelectEgress, Selected, IdleHolds
<1>6. CASE UNCHANGED vars \/ \E r \in Requests :
             Accept(r) \/ SendReq(r) \/ BridgeSends(r) \/ BridgeEnds(r)
  BY <1>1, <1>6 DEF Accept, SendReq, BridgeSends, BridgeEnds, vars, requestVars,
     IdleHolds
<1> QED BY <1>2, <1>3, <1>4, <1>5, <1>6 DEF Next, Loop, Top

-----------------------------------------------------------------------------
(* The names of the streams.                                               *)

\* A step that opens no stream and no session: names only go.
LEMMA NameFrame ==
  ASSUME TypeOK, NameInv, UNCHANGED <<handle, epoch, opened>>,
         \A r \in Requests : Started(r)' <=> Started(r),
         DOMAIN streams' \subseteq DOMAIN streams,
         \A sid \in DOMAIN streams' : streams'[sid].owner = streams[sid].owner,
         \A i \in 1 .. Len(egress') : \E j \in 1 .. Len(egress) : egress'[i] = egress[j],
         ~Serving' => DOMAIN streams' = {} /\ egress' = <<>>
  PROVE  NameInv'
<1>1. \A sid \in DOMAIN streams' :
        /\ sid < opened
        /\ streams'[sid].owner \in Requests /\ task'[streams'[sid].owner] \in {"bridging", "ended"}
        /\ handle[streams'[sid].owner] = [epoch |-> epoch, sid |-> sid]
  <2> SUFFICES ASSUME NEW sid \in DOMAIN streams'
               PROVE  /\ sid < opened
                      /\ streams'[sid].owner \in Requests
                      /\ task'[streams'[sid].owner] \in {"bridging", "ended"}
                      /\ handle[streams'[sid].owner] = [epoch |-> epoch, sid |-> sid]
    OBVIOUS
  <2>1. sid \in DOMAIN streams /\ streams'[sid].owner = streams[sid].owner
    OBVIOUS
  <2>2. /\ sid < opened
        /\ streams[sid].owner \in Requests /\ Started(streams[sid].owner)
        /\ handle[streams[sid].owner] = [epoch |-> epoch, sid |-> sid]
    BY <2>1, Elements DEF NameInv
  <2> QED BY <2>1, <2>2 DEF Started
<1>2. \A i \in 1 .. Len(egress') :
        /\ task'[egress'[i].from] \in {"bridging", "ended"}
        /\ handle[egress'[i].from] = [epoch |-> epoch, sid |-> egress'[i].sid]
  <2> SUFFICES ASSUME NEW i \in 1 .. Len(egress')
               PROVE  /\ task'[egress'[i].from] \in {"bridging", "ended"}
                      /\ handle[egress'[i].from] = [epoch |-> epoch, sid |-> egress'[i].sid]
    OBVIOUS
  <2>1. PICK j \in 1 .. Len(egress) : egress'[i] = egress[j]
    OBVIOUS
  <2>2. /\ egress[j].from \in Requests /\ Started(egress[j].from)
        /\ handle[egress[j].from] = [epoch |-> epoch, sid |-> egress[j].sid]
    BY Elements DEF NameInv
  <2> QED BY <2>1, <2>2 DEF Started
<1>3. \A r \in Requests : Started(r)' =>
        /\ handle[r].epoch <= epoch
        /\ handle[r].epoch = epoch => handle[r].sid < opened
  BY DEF NameInv
<1>4. \A r, q \in Requests :
        Started(r)' /\ Started(q)' /\ handle[r] = handle[q] => r = q
  BY DEF NameInv
<1> QED BY <1>1, <1>2, <1>3, <1>4 DEF NameInv, Started

\* The same, of a step that leaves `streams` and the egress channel alone.
LEMMA NameStutter ==
  ASSUME TypeOK, NameInv, UNCHANGED <<handle, epoch, opened, streams, egress>>,
         \A r \in Requests : Started(r)' <=> Started(r),
         ~Serving' => ~Serving
  PROVE  NameInv'
<1>1. ~Serving' => DOMAIN streams' = {} /\ egress' = <<>>
  BY DEF NameInv
<1> QED BY <1>1, NameFrame

\* The next stream of this session gets a name that nothing bears yet.
LEMMA NameOpen == ASSUME Inv, OpenStream PROVE NameInv'
<1>0. TypeOK /\ QueueInv /\ NameInv
  BY DEF Inv
<1>1. PICK r \in pending :
        /\ task' = [task EXCEPT ![r] = "bridging"]
        /\ handle' = [handle EXCEPT ![r] = [epoch |-> epoch, sid |-> opened]]
        /\ streams' = [sid \in DOMAIN streams \cup {opened} |->
                         IF sid = opened THEN [owner |-> r, closed |-> FALSE]
                                         ELSE streams[sid]]
  BY DEF OpenStream
<1>2. /\ epoch' = epoch /\ opened' = opened + 1 /\ egress' = egress
      /\ Serving /\ Serving'
  BY DEF OpenStream, Wait, bridgeVars, Serving
<1>3. r \in Requests /\ ~Started(r)
  BY <1>0, <1>1, PendingWaits DEF Started
<1>4. Started(r)' /\ handle'[r] = [epoch |-> epoch, sid |-> opened]
  BY <1>0, <1>1, <1>3 DEF TypeOK, Started
<1>5. \A q \in Requests : q # r => handle'[q] = handle[q] /\ (Started(q)' <=> Started(q))
  BY <1>0, <1>1, <1>3 DEF TypeOK, Started
<1>6. epoch \in Nat /\ opened \in Nat
  BY <1>0 DEF TypeOK
<1>7. ASSUME NEW sid \in DOMAIN streams'
      PROVE  /\ sid < opened'
             /\ task'[streams'[sid].owner] \in {"bridging", "ended"}
             /\ handle'[streams'[sid].owner] = [epoch |-> epoch, sid |-> sid]
  <2>1. CASE sid = opened
    <3>1. streams'[sid].owner = r
      BY <1>1, <2>1
    <3> QED BY <1>2, <1>4, <1>6, <2>1, <3>1 DEF Started
  <2>2. CASE sid # opened
    <3>1. sid \in DOMAIN streams /\ streams'[sid] = streams[sid]
      BY <1>1, <2>2
    <3>2. /\ sid \in Nat /\ streams[sid].owner \in Requests /\ Started(streams[sid].owner)
          /\ sid < opened /\ handle[streams[sid].owner] = [epoch |-> epoch, sid |-> sid]
      BY <1>0, <3>1, Elements DEF NameInv
    <3>3. streams[sid].owner # r
      BY <1>3, <3>2
    <3>4. sid < opened'
      BY <1>2, <1>6, <3>2
    <3> QED BY <1>5, <3>1, <3>2, <3>3, <3>4 DEF Started
  <2> QED BY <2>1, <2>2
<1>8. ASSUME NEW q \in Requests, Started(q)'
      PROVE  /\ handle'[q].epoch <= epoch
             /\ handle'[q].epoch = epoch => handle'[q].sid < opened + 1
  <2>1. CASE q = r
    BY <1>4, <1>6, <2>1
  <2>2. CASE q # r
    <3>1. /\ handle'[q] = handle[q] /\ handle[q].sid \in Nat
          /\ handle[q].epoch <= epoch
          /\ handle[q].epoch = epoch => handle[q].sid < opened
      BY <1>0, <1>5, <1>8, <2>2, Elements DEF NameInv
    <3> QED BY <1>6, <3>1
  <2> QED BY <2>1, <2>2
<1>9. ASSUME NEW q \in Requests, Started(q), q # r PROVE handle'[q] # handle'[r]
  <2>1. /\ handle'[q] = handle[q]
        /\ handle[q].epoch = epoch => handle[q].sid < opened
        /\ handle[q].sid \in Nat
    BY <1>0, <1>5, <1>9, Elements DEF NameInv
  <2>2. handle'[r].epoch = epoch /\ handle'[r].sid = opened
    BY <1>4
  <2> QED BY <1>6, <2>1, <2>2
<1>10. ASSUME NEW p \in Requests, NEW q \in Requests,
              Started(p)', Started(q)', handle'[p] = handle'[q]
       PROVE  p = q
  <2>1. CASE p = r \/ q = r
    BY <1>5, <1>9, <1>10, <2>1
  <2>2. CASE p # r /\ q # r
    BY <1>0, <1>5, <1>10, <2>2 DEF NameInv
  <2> QED BY <2>1, <2>2
<1>11. ASSUME NEW i \in 1 .. Len(egress)
       PROVE  /\ task'[egress[i].from] \in {"bridging", "ended"}
              /\ handle'[egress[i].from] = [epoch |-> epoch, sid |-> egress[i].sid]
  <2>1. /\ egress[i].from \in Requests /\ Started(egress[i].from)
        /\ handle[egress[i].from] = [epoch |-> epoch, sid |-> egress[i].sid]
    BY <1>0, Elements DEF NameInv
  <2>2. egress[i].from # r
    BY <1>3, <2>1
  <2> QED BY <1>5, <2>1, <2>2 DEF Started
<1>12. \A sid \in DOMAIN streams' :
         /\ sid < opened'
         /\ Started(streams[sid].owner)'
         /\ (handle[streams[sid].owner] = [epoch |-> epoch, sid |-> sid])'
  BY <1>2, <1>7 DEF Started
<1>13. (\A i \in 1 .. Len(egress) :
         /\ Started(egress[i].from)
         /\ handle[egress[i].from] = [epoch |-> epoch, sid |-> egress[i].sid])'
  BY <1>2, <1>11 DEF Started
<1>14. (\A q \in Requests : Started(q) =>
         /\ handle[q].epoch <= epoch
         /\ handle[q].epoch = epoch => handle[q].sid < opened)'
  BY <1>2, <1>8
<1> QED BY <1>2, <1>10, <1>12, <1>13, <1>14 DEF NameInv

\* What a bridge sends bears the name of its own stream.
LEMMA NameSend ==
  ASSUME TypeOK, NameInv, NEW r \in Requests, NEW out \in {"Data", "Closed"},
         Started(r), Send(r, out),
         UNCHANGED <<mgr, handle, epoch, opened, streams>>,
         \A q \in Requests : Started(q)' <=> Started(q)
  PROVE  NameInv'
<1>1. Serving /\ Serving' /\ handle[r].epoch = epoch
  BY DEF Send, EgressOpen, Serving
<1>2. /\ Len(egress') = Len(egress) + 1 /\ Len(egress) \in Nat
      /\ \A i \in 1 .. Len(egress) : egress'[i] = egress[i]
      /\ egress'[Len(egress) + 1] = ToLoop(r, out)
  BY SendType, Elements
<1>3. handle[r] = [epoch |-> epoch, sid |-> handle[r].sid]
  <2>1. handle[r] \in Handle
    BY DEF TypeOK
  <2> QED BY <1>1, <2>1 DEF Handle
<1>4. /\ ToLoop(r, out).from = r
      /\ handle[r] = [epoch |-> epoch, sid |-> ToLoop(r, out).sid]
  BY <1>3 DEF ToLoop
<1>5. ASSUME NEW i \in 1 .. Len(egress')
      PROVE  /\ task'[egress'[i].from] \in {"bridging", "ended"}
             /\ handle[egress'[i].from] = [epoch |-> epoch, sid |-> egress'[i].sid]
  <2>1. CASE i \in 1 .. Len(egress)
    <3>1. egress'[i] = egress[i] /\ egress[i].from \in Requests
      BY <1>2, <2>1, Elements
    <3>2. /\ Started(egress[i].from)
          /\ handle[egress[i].from] = [epoch |-> epoch, sid |-> egress[i].sid]
      BY <2>1 DEF NameInv
    <3> QED BY <3>1, <3>2 DEF Started
  <2>2. CASE i = Len(egress) + 1
    <3>1. egress'[i] = ToLoop(r, out)
      BY <1>2, <2>2
    <3> QED BY <1>4, <3>1 DEF Started
  <2> QED BY <1>2, <2>1, <2>2
<1>6. \A sid \in DOMAIN streams :
        /\ sid < opened
        /\ streams[sid].owner \in Requests /\ Started(streams[sid].owner)
        /\ handle[streams[sid].owner] = [epoch |-> epoch, sid |-> sid]
  BY Elements DEF NameInv
<1>7. (\A sid \in DOMAIN streams :
        /\ sid < opened
        /\ Started(streams[sid].owner)
        /\ handle[streams[sid].owner] = [epoch |-> epoch, sid |-> sid])'
  BY <1>6 DEF Started
<1>8. (\A i \in 1 .. Len(egress) :
        /\ Started(egress[i].from)
        /\ handle[egress[i].from] = [epoch |-> epoch, sid |-> egress[i].sid])'
  BY <1>5 DEF Started
<1>9. (\A q \in Requests : Started(q) =>
        /\ handle[q].epoch <= epoch
        /\ handle[q].epoch = epoch => handle[q].sid < opened)'
  BY DEF NameInv
<1>10. (\A p, q \in Requests :
        Started(p) /\ Started(q) /\ handle[p] = handle[q] => p = q)'
  BY DEF NameInv
<1> QED BY <1>1, <1>7, <1>8, <1>9, <1>10 DEF NameInv

\* Every action keeps the names of the streams apart.
LEMMA NameStep == Inv /\ [Next]_vars => NameInv'
<1> SUFFICES ASSUME Inv, [Next]_vars PROVE NameInv'
  OBVIOUS
<1> USE DEF requestVars, connVars, streamVars, bridgeVars
<1>0. TypeOK /\ QueueInv /\ NameInv
  BY DEF Inv
<1>1. Refuse(pending) => \A r \in Requests : Started(r)' <=> Started(r)
  BY <1>0, PendingWaits DEF Refuse, Started
<1>2. task' = task => \A r \in Requests : Started(r)' <=> Started(r)
  BY DEF Started
<1>3. CASE EndSession
  <2>1. DOMAIN streams' = {} /\ egress' = <<>> /\ Len(egress') = 0
        /\ UNCHANGED <<handle, epoch, opened>> /\ Refuse(pending)
    BY <1>3 DEF EndSession, NoStreams
  <2> QED BY <1>0, <1>1, <2>1, NameFrame
<1>4. CASE SetupFails \/ HandshakeFails \/ TurnClosed \/ UdpError
  BY <1>3, <1>4 DEF SetupFails, HandshakeFails, TurnClosed, UdpError
<1>5. CASE OpenFails
  BY <1>0, <1>1, <1>5, NameStutter DEF OpenFails, Wait, Serving
<1>6. CASE OpenStream
  BY <1>6, NameOpen
<1>7. CASE Setup
  <2>1. /\ UNCHANGED <<task, streams, egress, handle>> /\ epoch' = epoch + 1
        /\ ~Serving
    BY <1>7 DEF Setup, Serving
  <2>2. DOMAIN streams = {} /\ egress = <<>> /\ Len(egress) = 0
    BY <1>0, <2>1 DEF NameInv
  <2>3. ASSUME NEW r \in Requests, Started(r)
        PROVE  handle[r].epoch <= epoch' /\ handle[r].epoch # epoch'
    <3>1. handle[r].epoch <= epoch /\ handle[r].epoch \in Nat /\ epoch \in Nat
      BY <1>0, <2>3, Elements DEF NameInv, TypeOK
    <3> QED BY <2>1, <3>1
  <2>4. \A r, q \in Requests :
          Started(r) /\ Started(q) /\ handle[r] = handle[q] => r = q
    BY <1>0 DEF NameInv
  <2> QED BY <1>2, <2>1, <2>2, <2>3, <2>4 DEF NameInv
<1>8. CASE \/ ManagerRecv \/ HandshakeDone \/ Park \/ Defer \/ SelectOpen
           \/ UdpAck \/ UdpSettings \/ UdpCredit \/ UdpClose \/ Timer
           \/ UNCHANGED vars \/ \E r \in Requests : SendReq(r) \/ Accept(r)
  <2>1. UNCHANGED <<handle, epoch, opened, streams, egress>> /\ (~Serving' => ~Serving)
    BY <1>8 DEF ManagerRecv, HandshakeDone, Park, Defer, SelectOpen, UdpAck,
       UdpSettings, UdpCredit, UdpClose, Timer, SendReq, Accept, Wait, Selected,
       Serving, vars
  <2>2. \A r \in Requests : Started(r)' <=> Started(r)
    BY <1>0, <1>8 DEF ManagerRecv, HandshakeDone, Park, Defer, SelectOpen, UdpAck,
       UdpSettings, UdpCredit, UdpClose, Timer, SendReq, Accept, Started, vars, TypeOK
  <2> QED BY <1>0, <2>1, <2>2, NameStutter
<1>9. CASE UdpStreamOver \/ Turn
  <2>1. /\ UNCHANGED <<handle, epoch, opened, egress, task>> /\ Serving'
        /\ DOMAIN streams' \subseteq DOMAIN streams
        /\ \A sid \in DOMAIN streams' : streams'[sid].owner = streams[sid].owner
    BY <1>9 DEF UdpStreamOver, Turn, Selected, Serving
  <2>2. \A i \in 1 .. Len(egress') : \E j \in 1 .. Len(egress) : egress'[i] = egress[j]
    BY <2>1
  <2> QED BY <1>0, <1>2, <2>1, <2>2, NameFrame
<1>10. CASE SelectEgress
  <2>1. /\ UNCHANGED <<handle, epoch, opened, task>> /\ Serving'
        /\ egress # <<>> /\ egress' = Tail(egress)
    BY <1>10 DEF SelectEgress, Selected, Serving
  <2>2. egress \in Seq(Message) /\ \A sid \in DOMAIN streams : streams[sid] \in Stream
    BY <1>0 DEF TypeOK
  <2>3. /\ Len(egress') = Len(egress) - 1 /\ Len(egress) \in Nat
        /\ \A i \in 1 .. Len(egress) - 1 : egress'[i] = egress[i + 1]
    BY <1>0, <2>1, <2>2, TailOf, Elements
  <2>4. ASSUME NEW i \in 1 .. Len(egress')
        PROVE  \E j \in 1 .. Len(egress) : egress'[i] = egress[j]
    <3>1. i + 1 \in 1 .. Len(egress) /\ egress'[i] = egress[i + 1]
      BY <2>3
    <3> QED BY <3>1
  <2>5. /\ DOMAIN streams' = DOMAIN streams
        /\ \A sid \in DOMAIN streams : streams'[sid].owner = streams[sid].owner
    BY <1>10, <2>2 DEF SelectEgress, Stream
  <2> QED BY <1>0, <1>2, <2>1, <2>4, <2>5, NameFrame
<1>11. ASSUME NEW r \in Requests, BridgeSends(r) PROVE NameInv'
  <2>1. /\ UNCHANGED <<mgr, handle, epoch, opened, streams, task>>
        /\ Started(r) /\ Send(r, "Data")
    BY <1>11 DEF BridgeSends, Started
  <2> QED BY <1>0, <1>2, <2>1, NameSend
<1>12. ASSUME NEW r \in Requests, BridgeEnds(r) PROVE NameInv'
  <2>1. /\ UNCHANGED <<mgr, handle, epoch, opened, streams>> /\ Started(r)
        /\ Send(r, "Closed") \/ UNCHANGED egress
    BY <1>12 DEF BridgeEnds, Started
  <2>2. \A q \in Requests : Started(q)' <=> Started(q)
    BY <1>0, <1>12 DEF BridgeEnds, Started, TypeOK
  <2>3. ~Serving' => ~Serving
    BY <2>1 DEF Serving
  <2>4. CASE UNCHANGED egress
    BY <1>0, <2>1, <2>2, <2>3, <2>4, NameStutter
  <2> QED BY <1>0, <2>1, <2>2, <2>4, NameSend
<1> QED BY <1>3, <1>4, <1>5, <1>6, <1>7, <1>8, <1>9, <1>10, <1>11, <1>12
        DEF Next, Loop, Top

-----------------------------------------------------------------------------
\* The invariant holds in every reachable state.
LEMMA Invariance == Spec => []Inv
<1>1. Inv /\ [Next]_vars => Inv'
  BY TypeStep, QueueStep, IdleStep, NameStep DEF Inv
<1> QED BY InvInit, <1>1, PTL DEF Spec

\* Every variable keeps its type: neither channel exceeds its capacity, and
\* session() never holds two requests.
THEOREM TypeCorrect == Spec => []TypeOK
<1>1. Inv => TypeOK
  BY DEF Inv
<1> QED BY Invariance, <1>1, PTL

\* The comment of the select! in session(): requests are served strictly in
\* arrival order, whatever was parked and whichever sessions failed.
THEOREM OrderCorrect == Spec => []ServedInOrder
<1>1. Inv => ServedInOrder
  <2> SUFFICES ASSUME Inv, NEW i \in DOMAIN arrived, NEW j \in DOMAIN arrived,
                      i < j, Answered(arrived[j])
               PROVE  Answered(arrived[i])
    BY DEF ServedInOrder
  <2>0. TypeOK /\ QueueInv
    BY DEF Inv
  <2>1. i \in 1 .. Len(arrived) /\ j \in 1 .. Len(arrived) /\ Len(arrived) \in Nat
    BY <2>0 DEF TypeOK
  <2>2. task[arrived[j]] # "waiting"
    BY DEF Answered
  <2>3. ~(j > Taken) /\ Taken \in Nat
    BY <2>0, <2>1, <2>2, PendingWaits DEF QueueInv
  <2>4. arrived[i] \notin pending
    <3> SUFFICES ASSUME arrived[i] \in pending PROVE FALSE
      OBVIOUS
    <3>1. Taken > 0 /\ arrived[i] = arrived[Taken]
      BY <2>0 DEF QueueInv
    <3>2. Taken \in 1 .. Len(arrived)
      BY <2>0, <2>1, <2>3, <3>1, PendingWaits
    <3>3. i = Taken
      BY <2>0, <2>1, <3>1, <3>2 DEF QueueInv
    <3> QED BY <2>1, <2>3, <3>3
  <2>5. ~(i > Taken)
    BY <2>1, <2>3
  <2> QED BY <2>0, <2>1, <2>4, <2>5 DEF QueueInv
<1> QED BY Invariance, <1>1, PTL

\* The egress channel of h3_client.rs is made anew by every session(): what an
\* old bridge sends never reaches a stream that has its id again.
THEOREM NoCrossTalkCorrect == Spec => []NoCrossTalk
<1>1. Inv => NoCrossTalk
  <2> SUFFICES ASSUME Inv, NEW i \in DOMAIN egress,
                      egress[i].sid \in DOMAIN streams
               PROVE  streams[egress[i].sid].owner = egress[i].from
    BY DEF NoCrossTalk
  <2>0. TypeOK /\ NameInv
    BY DEF Inv
  <2>1. i \in 1 .. Len(egress)
    BY <2>0 DEF TypeOK
  <2>2. /\ streams[egress[i].sid].owner \in Requests
        /\ egress[i].from \in Requests
    BY <2>0, <2>1, Elements
  <2>3. /\ Started(egress[i].from) /\ Started(streams[egress[i].sid].owner)
        /\ handle[egress[i].from] = [epoch |-> epoch, sid |-> egress[i].sid]
        /\ handle[streams[egress[i].sid].owner] = [epoch |-> epoch, sid |-> egress[i].sid]
    BY <2>0, <2>1 DEF NameInv
  <2> QED BY <2>0, <2>2, <2>3 DEF NameInv
<1> QED BY Invariance, <1>1, PTL

-----------------------------------------------------------------------------
(* Who refuses.                                                            *)

\* What may answer a request with a refusal.
RefusedByFailure(r) ==
  task[r] = "waiting" /\ task'[r] = "refused" =>
    r \in pending /\ (mgr' = "idle" \/ (mgr = "open" /\ credit > 0 /\ settings))

\* Only the end of a session and a send_request that failed refuse, and each
\* only what is parked; every other step leaves a waiting request waiting or
\* opens its stream.
LEMMA RefusedStep ==
  ASSUME TypeOK, [Next]_vars, NEW r \in Requests
  PROVE  RefusedByFailure(r)
<1>0. task \in [Requests -> {"idle", "sending", "waiting", "bridging", "refused", "ended"}]
  BY DEF TypeOK
<1>1. CASE EndSession
  BY <1>1 DEF EndSession, Refuse, RefusedByFailure
<1>2. CASE OpenFails
  BY <1>2 DEF OpenFails, Refuse, RefusedByFailure
<1>3. CASE OpenStream
  <2>1. \E q \in pending : task' = [task EXCEPT ![q] = "bridging"]
    BY <1>3 DEF OpenStream
  <2> QED BY <1>0, <2>1 DEF RefusedByFailure
<1>4. ASSUME NEW q \in Requests, Accept(q) \/ SendReq(q) \/ BridgeEnds(q)
      PROVE  RefusedByFailure(r)
  BY <1>0, <1>4 DEF Accept, SendReq, BridgeEnds, RefusedByFailure
<1>5. CASE task' = task
  BY <1>5 DEF RefusedByFailure
<1>6. \/ task' = task \/ EndSession \/ OpenFails \/ OpenStream
      \/ \E q \in Requests : Accept(q) \/ SendReq(q) \/ BridgeEnds(q)
  BY DEF Next, Loop, Top, vars, requestVars, ManagerRecv, SetupFails, Setup, HandshakeDone,
     HandshakeFails, Park, Defer, UdpAck, UdpSettings, UdpCredit, UdpStreamOver,
     UdpClose, Timer, SelectOpen, SelectEgress, Turn, TurnClosed, UdpError, BridgeSends
<1> QED BY <1>1, <1>2, <1>3, <1>4, <1>5, <1>6

\* A request that waits is refused only with the session that holds it, or by
\* send_request itself: a peer that is out of streams, or late with its
\* SETTINGS, never costs a connection of sslocal its tunnel.
THEOREM RefusalCorrect == Spec => RefusedOnlyByFailure
<1>1. TypeOK /\ [Next]_vars =>
        [\A r \in Requests :
           task[r] = "waiting" /\ task'[r] = "refused" =>
             r \in pending /\ (mgr' = "idle" \/ (mgr = "open" /\ credit > 0 /\ settings))]_vars
  BY RefusedStep DEF RefusedByFailure
<1> QED BY <1>1, TypeCorrect, PTL DEF Spec, RefusedOnlyByFailure
=============================================================================
