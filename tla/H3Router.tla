------------------------------- MODULE H3Router -------------------------------
(***************************************************************************)
(* The UDP listener of h3_server.rs: one loop that feeds datagrams to the  *)
(* connections of its map, services them and drops those that are closed.  *)
(*                                                                         *)
(*   - route_packet finds the connection by the Destination Connection ID, *)
(*     or makes one for an Initial whose id is not in the map;             *)
(*   - service checks ECH once the handshake is over, takes the request,   *)
(*     and moves data into the bounded channels of the bridges;            *)
(*   - one egress channel and one Notify serve the bridges of every        *)
(*     connection.                                                         *)
(*                                                                         *)
(* A turn of the loop is one step: it shares with the bridges only the two *)
(* channels and the Notify.  A connection carries one tunnel here, without *)
(* its bytes: they are in QuicTunnel, and the certificate is in            *)
(* AcmeRenewal.  The QUIC clients, quiche and the network are external:    *)
(* datagrams are lost, duplicated and reordered.                           *)
(***************************************************************************)
EXTENDS Naturals, Sequences, FiniteSets

CONSTANTS
  Clients,              \* QUIC clients, of one connection each
  EchClients,           \* those whose ECH the server accepts
  reject_non_ech,       \* cfg.ech is there and reject_non_ech is set
  HelloParts,           \* Initials a ClientHello takes
  INBOUND_CHANNEL_CAP,  \* chunks the inbound channel of a bridge holds
  EGRESS_CHANNEL_CAP,   \* messages the egress channel holds
  MaxConns,             \* bound: connections the listener ever makes
  MaxUnread,            \* bound: chunks that wait in quiche
  NetCap,               \* bound: datagrams on the way to the listener
  MaxFaults,            \* bound: datagrams lost or delivered again
  Failures              \* which of {"config", "client", "idle"} happen

ASSUME H3RouterAssumption ==
  /\ EchClients \subseteq Clients
  /\ reject_non_ech \in BOOLEAN
  /\ HelloParts \in Nat \ {0}
  /\ INBOUND_CHANNEL_CAP \in Nat \ {0}
  /\ EGRESS_CHANNEL_CAP \in Nat \ {0}
  /\ MaxConns \in Nat /\ MaxUnread \in Nat /\ NetCap \in Nat /\ MaxFaults \in Nat
  /\ Failures \subseteq {"config", "client", "idle"}

VARIABLES
  conns,        \* the map, by the connection's own id
  made,         \* connections made so far; random_scid repeats none
  rx,           \* chunks in the inbound channel of each connection's bridge
  bridges,      \* connections whose bridge task runs
  egress,       \* the egress channel: the connection and the message
  read_credit,  \* the Notify's permit
  client,       \* the QUIC clients
  wire,         \* datagrams to the listener
  replies,      \* datagrams to the clients
  faults        \* losses and repetitions so far

connVars == <<conns, made>>
bridgeVars == <<rx, bridges, egress, read_credit>>
netVars == <<client, wire, replies, faults>>
vars == <<connVars, bridgeVars, netVars>>

Keys == 1 .. MaxConns
NoKey == 0    \* an id no connection has: the one a client starts with
Data == 0     \* 1-RTT: the end of the handshake and the request, then body

Conn ==
  [client : Clients, heard : SUBSET (1 .. HelloParts),
   phase : {"handshake", "established", "h3", "closing"},
   tunnel : {"none", "open", "over"}, unread : 0 .. MaxUnread]
Datagram == [from : Clients, dcid : 0 .. MaxConns, what : 0 .. HelloParts]
Reply == [to : Clients, scid : Keys, what : {"ack", "hello", "close"}]
Message == [key : Keys, out : {"Data", "Closed"}]

\* Every variable keeps its type, and no channel outgrows its capacity, whichever
\* branch of the select! services a connection; service leaves no handshake that
\* is over without a decision.
TypeOK ==
  /\ DOMAIN conns \subseteq 1 .. made
  /\ \A k \in DOMAIN conns : conns[k] \in Conn /\ conns[k].phase # "established"
  /\ made \in 0 .. MaxConns
  /\ rx \in [Keys -> 0 .. INBOUND_CHANNEL_CAP]
  /\ bridges \subseteq 1 .. made
  /\ egress \in Seq(Message) /\ Len(egress) <= EGRESS_CHANNEL_CAP
  /\ read_credit \in BOOLEAN
  /\ client \in [Clients -> [phase : {"hello", "up", "over"}, peer : 0 .. MaxConns]]
  /\ wire \subseteq Datagram
  /\ replies \subseteq Reply
  /\ faults \in 0 .. MaxFaults

Init ==
  /\ conns = [k \in {} |-> k] /\ made = 0
  /\ rx = [k \in Keys |-> 0]
  /\ bridges = {} /\ egress = <<>> /\ read_credit = FALSE
  /\ client = [c \in Clients |-> [phase |-> "hello", peer |-> NoKey]]
  /\ wire = {} /\ replies = {} /\ faults = 0

-----------------------------------------------------------------------------
(* service().                                                              *)

Least(a, b) == IF a < b THEN a ELSE b

\* Mutant: ECH is asked for although it need not be.
EchOkAlways(c) == c.client \in EchClients

EchOk(c) == reject_non_ech => c.client \in EchClients

\* Mutant: a client without ECH is closed, but the function goes on.
StartGoesOn(c) ==
  IF c.phase = "established" THEN [c EXCEPT !.phase = "h3"] ELSE c

\* The handshake is over: HTTP/3, or close.
Start(c) ==
  IF c.phase = "established"
    THEN [c EXCEPT !.phase = IF EchOk(c) THEN "h3" ELSE "closing"]
    ELSE c

\* poll_h3: the request opens the tunnel.
Poll(c) ==
  IF c.phase = "h3" /\ c.tunnel = "none" THEN [c EXCEPT !.tunnel = "open"] ELSE c

\* pump_inbound: as much as the channel has room for.
Pumped(c, room) == Least(c.unread, room)

\* flush_packets: what quiche has to say.
Answer(k, c) ==
  [to |-> c.client, scid |-> k,
   what |-> IF c.phase = "closing" THEN "close"
            ELSE IF c.heard = 1 .. HelloParts THEN "hello" ELSE "ack"]

\* The connections `now`, of which those in `due` are serviced and those in
\* `closed` are dropped by conns.retain, with the senders of their bridges.
Service(now, due, closed) ==
  LET polled == [k \in DOMAIN now |-> IF k \in due THEN Poll(Start(now[k])) ELSE now[k]]
      opened == {k \in due : now[k].tunnel = "none" /\ polled[k].tunnel = "open"}
      reading == {k \in due : polled[k].phase = "h3"} \cap (bridges \cup opened)
      moved == [k \in Keys |-> IF k \in reading
                  THEN Pumped(polled[k], INBOUND_CHANNEL_CAP - rx[k]) ELSE 0]
  IN /\ conns' = [k \in DOMAIN now \ closed |->
                    [polled[k] EXCEPT !.unread =
                       IF k \in due \ reading THEN 0 ELSE @ - moved[k]]]
     /\ rx' = [k \in Keys |-> rx[k] + moved[k]]
     /\ bridges' = bridges \cup opened
     /\ replies' = replies \cup {Answer(k, polled[k]) : k \in due}

-----------------------------------------------------------------------------
(* The select! of run().                                                   *)

\* quiche takes a datagram in; what it cannot use it ignores.
Feed(c, d) ==
  IF c.phase = "closing" THEN c
  ELSE IF d.what # Data THEN [c EXCEPT !.heard = @ \cup {d.what}]
  ELSE IF c.heard # 1 .. HelloParts THEN c
  ELSE IF c.phase = "handshake" THEN [c EXCEPT !.phase = "established"]
  ELSE [c EXCEPT !.unread =
                   IF c.tunnel = "open" THEN Least(@ + 1, MaxUnread) ELSE @]

NewConn(c) ==
  [client |-> c, heard |-> {}, phase |-> "handshake", tunnel |-> "none",
   unread |-> 0]

\* Mutant: an id that is free is taken again.
KeyReused(d) ==
  IF d.dcid \in DOMAIN conns \/ DOMAIN conns = Keys THEN d.dcid
  ELSE CHOOSE k \in Keys \ DOMAIN conns : \A l \in Keys \ DOMAIN conns : k <= l

\* Subsequent packets carry our SCID as their DCID.
Key(d) == IF d.dcid \in DOMAIN conns THEN d.dcid ELSE made + 1

Fault == faults < MaxFaults /\ faults' = faults + 1

\* The network may deliver a datagram again.
Delivered(d) ==
  \/ wire' = wire \ {d} /\ UNCHANGED faults
  \/ wire' = wire /\ Fault

\* A datagram of a connection in the map.
RecvKnown(d) ==
  /\ d \in wire /\ Delivered(d)
  /\ Key(d) \in DOMAIN conns
  /\ Service([conns EXCEPT ![Key(d)] = Feed(@, d)], {Key(d)}, {})
  /\ UNCHANGED <<made, egress, read_credit, client>>

\* An Initial for no connection: a new one, under an id of its own.
RecvInitial(d) ==
  /\ d \in wire /\ Delivered(d)
  /\ Key(d) \notin DOMAIN conns
  /\ d.what # Data
  /\ made < MaxConns
  /\ LET key == Key(d)
         fed == [k \in DOMAIN conns \cup {key} |->
                   IF k = key THEN Feed(NewConn(d.from), d) ELSE conns[k]]
     IN Service(fed, {key}, {})
  /\ made' = made + 1
  /\ UNCHANGED <<egress, read_credit, client>>

\* Not an Initial, or ensure_config or quiche::accept failed: dropped.
RecvDropped(d) ==
  /\ d \in wire /\ Delivered(d)
  /\ Key(d) \notin DOMAIN conns
  /\ d.what = Data \/ "config" \in Failures
  /\ UNCHANGED <<connVars, bridgeVars, client, replies>>

\* One message of a bridge; its connection may be gone.  After the close notice
\* nothing is owed to the stream, and it is reaped.
Egress ==
  /\ egress # <<>>
  /\ egress' = Tail(egress)
  /\ LET msg == Head(egress) IN
       IF msg.key \in DOMAIN conns
         THEN Service(
                [conns EXCEPT ![msg.key] =
                   IF msg.out = "Closed" THEN [@ EXCEPT !.tunnel = "over", !.unread = 0]
                                         ELSE @],
                {msg.key}, {})
         ELSE UNCHANGED <<conns, rx, bridges, replies>>
  /\ UNCHANGED <<made, read_credit, client, wire, faults>>

\* Mutant: one connection is retried.
CreditOfOne ==
  /\ read_credit
  /\ read_credit' = FALSE
  /\ \E k \in DOMAIN conns : Service(conns, {k}, {})
  /\ UNCHANGED <<made, egress, client, wire, faults>>

\* "We don't know which connection freed a slot, so retry every one."
Credit ==
  /\ read_credit
  /\ read_credit' = FALSE
  /\ Service(conns, DOMAIN conns, {})
  /\ UNCHANGED <<made, egress, client, wire, faults>>

\* The connections whose draining or idle timer may run out: nothing comes
\* from the peer, or nothing that this connection can use.
MayExpire(k) ==
  LET c == client[conns[k].client] IN
  \/ conns[k].phase = "closing"
  \/ c.phase = "over"
  \/ c.peer \notin {NoKey, k}
  \/ "idle" \in Failures

\* Mutant: closed connections stay in the map.
TimerKeeps ==
  /\ conns # [k \in {} |-> k]
  /\ Service(conns, DOMAIN conns, {})
  /\ UNCHANGED <<made, egress, read_credit, client, wire, faults>>

\* on_timeout for every connection: some close, the others may resend.
Timer ==
  /\ conns # [k \in {} |-> k]
  /\ \E closed \in SUBSET {k \in DOMAIN conns : MayExpire(k)} :
       Service(conns, DOMAIN conns, closed)
  /\ UNCHANGED <<made, egress, read_credit, client, wire, faults>>

Loop ==
  \/ \E d \in wire : RecvKnown(d) \/ RecvInitial(d) \/ RecvDropped(d)
  \/ Egress \/ Credit \/ Timer

-----------------------------------------------------------------------------
(* The bridge tasks.                                                       *)

\* poll_read frees a slot and says so.
BridgeReads(k) ==
  /\ k \in bridges
  /\ rx[k] > 0
  /\ rx' = [rx EXCEPT ![k] = @ - 1]
  /\ read_credit' = TRUE
  /\ UNCHANGED <<connVars, bridges, egress, netVars>>

Send(k, out) ==
  /\ Len(egress) < EGRESS_CHANNEL_CAP
  /\ egress' = Append(egress, [key |-> k, out |-> out])

BridgeWrites(k) ==
  /\ k \in bridges
  /\ Send(k, "Data")
  /\ UNCHANGED <<connVars, rx, bridges, read_credit, netVars>>

\* The dial failed, or both directions are over, or one broke; the receiver
\* goes with the task.
BridgeEnds(k) ==
  /\ k \in bridges
  /\ Send(k, "Closed")
  /\ bridges' = bridges \ {k}
  /\ rx' = [rx EXCEPT ![k] = 0]
  /\ UNCHANGED <<connVars, read_credit, netVars>>

-----------------------------------------------------------------------------
(* QUIC clients and the network (external).                                *)

Post(d) == wire' = wire \cup {d} /\ Cardinality(wire') <= NetCap

\* Until it has an answer a client addresses its Initials to an id of its own
\* making; it sends them again for as long as it takes.
SendHello(c, part) ==
  /\ client[c].phase = "hello"
  /\ Post([from |-> c, dcid |-> client[c].peer, what |-> part])
  /\ UNCHANGED <<connVars, bridgeVars, client, replies, faults>>

SendData(c) ==
  /\ client[c].phase = "up"
  /\ Post([from |-> c, dcid |-> client[c].peer, what |-> Data])
  /\ UNCHANGED <<connVars, bridgeVars, client, replies, faults>>

\* The first answer tells the client the id to use; it ignores any other's.
ClientRecv(r) ==
  /\ r \in replies
  /\ \/ replies' = replies \ {r} /\ UNCHANGED faults
     \/ replies' = replies /\ Fault
  /\ LET c == client[r.to] IN
       client' = [client EXCEPT ![r.to] =
         IF c.peer \notin {NoKey, r.scid} \/ c.phase = "over" THEN c
         ELSE [peer |-> r.scid,
               phase |-> CASE r.what = "close" -> "over"
                           [] r.what = "hello" -> "up"
                           [] OTHER -> c.phase]]
  /\ UNCHANGED <<connVars, bridgeVars, wire>>

\* The client goes away, or gives a dead connection up.
ClientLeaves(c) ==
  /\ client[c].phase # "over"
  /\ "client" \in Failures \/ client[c].peer \notin {NoKey} \cup DOMAIN conns
  /\ client' = [client EXCEPT ![c].phase = "over"]
  /\ UNCHANGED <<connVars, bridgeVars, wire, replies, faults>>

Lose ==
  /\ \/ \E d \in wire : wire' = wire \ {d} /\ UNCHANGED replies
     \/ \E r \in replies : replies' = replies \ {r} /\ UNCHANGED wire
  /\ Fault
  /\ UNCHANGED <<connVars, bridgeVars, client>>

Environment ==
  \/ \E c \in Clients :
       \/ \E part \in 1 .. HelloParts : SendHello(c, part)
       \/ SendData(c) \/ ClientLeaves(c)
  \/ \E r \in replies : ClientRecv(r)
  \/ Lose

Next ==
  \/ Loop
  \/ \E k \in Keys : BridgeReads(k) \/ BridgeWrites(k) \/ BridgeEnds(k)
  \/ Environment

Spec == Init /\ [][Next]_vars

TimerCloses(k) == Timer /\ k \in DOMAIN conns \ DOMAIN conns'

\* The loop goes on; datagrams that are not lost arrive; a client goes on until
\* it has its answer; timers run out.
LoopFairness ==
  /\ \A d \in Datagram : WF_vars(RecvKnown(d)) /\ WF_vars(RecvInitial(d))
  /\ WF_vars(Egress) /\ WF_vars(Credit)
  /\ \A k \in Keys : WF_vars(TimerCloses(k))

ClientFairness ==
  /\ \A c \in Clients :
       /\ \A part \in 1 .. HelloParts : WF_vars(SendHello(c, part))
       /\ WF_vars(SendData(c))
  /\ \A r \in Reply : WF_vars(ClientRecv(r))

\* tokio goes on with a bridge; an upstream whose input has ended ends too.
BridgeFairness == \A k \in Keys :
  /\ WF_vars(BridgeReads(k))
  /\ SF_vars(BridgeEnds(k) /\ k \notin DOMAIN conns /\ rx[k] = 0)

FairSpec == Spec /\ LoopFairness /\ ClientFairness /\ BridgeFairness

-----------------------------------------------------------------------------
(* Safety.                                                                 *)

\* "Silent drop": whoever did not use ECH is not tunnelled, and this although
\* the check runs after the handshake.
OnlyEchIsTunnelled == \A k \in DOMAIN conns :
  reject_non_ech /\ k \in bridges => conns[k].client \in EchClients

\* No connection is forgotten: one that has data for a channel with room is
\* retried, by a permit that is still there.
NoLostWakeup == \A k \in DOMAIN conns :
  conns[k].tunnel = "open" /\ conns[k].unread > 0 /\ k \in bridges =>
    rx[k] = INBOUND_CHANNEL_CAP \/ read_credit

\* A bridge outlives its connection, and so do its messages, but neither meets
\* another connection: the tunnel of a bridge is the one it was made for.
BridgesOfConns == \A k \in DOMAIN conns :
  k \in bridges \/ (\E i \in DOMAIN egress : egress[i].key = k) =>
    conns[k].tunnel = "open"

-----------------------------------------------------------------------------
(* Liveness.                                                               *)

\* Whatever is lost or repeated, and however many connections its Initials
\* make, a client that stays gets its tunnel from one of them.
TunnelOpens == \A c \in Clients :
  client[c].phase = "hello" ~> client[c].phase = "over" \/
    \E k \in DOMAIN conns : conns[k].client = c /\ conns[k].tunnel # "none"

\* What a client that is gone leaves behind, connections and bridges, goes too.
NothingStays == \A c \in Clients : client[c].phase = "over" ~>
  /\ \A k \in DOMAIN conns : conns[k].client # c
  /\ bridges \subseteq DOMAIN conns

=============================================================================
