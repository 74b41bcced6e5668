----------------------------- MODULE TcpTunnel -----------------------------
(***************************************************************************)
(* A connection of the TCP transport from its first byte to its end: the   *)
(* accept loop of server.rs with the peek of the ClientHello, the TLS      *)
(* handshake with the ALPN callback, the HTTP request, the dial, and at    *)
(* the other side client.rs or a foreign program; then WsBridge.           *)
(*                                                                         *)
(* Connections share nothing but the acceptor, whose swaps are             *)
(* AcmeRenewal's, so the module has one.                                   *)
(***************************************************************************)
EXTENDS WsBridge, ClientHello, SequencesExt

CONSTANTS
  Hellos,         \* the ClientHellos clients send (records, see IsHello)
  ech,            \* cfg.ech.is_some()
  reject_non_ech, \* cfg.reject_non_ech
  PEEK_CAP        \* bytes the server peeks at

SetupFailures == {"dial", "client"}

ASSUME TunnelAssumption ==
  /\ {ech, reject_non_ech} \subseteq BOOLEAN
  /\ PEEK_CAP \in Nat \ {0}
  /\ Failures \subseteq BridgeFailures \cup SetupFailures

VARIABLES
  hello,    \* the ClientHello of this client
  arrived,  \* bytes of it in the server's socket
  last_n,   \* is_ech_or_acme_handshake: bytes seen by its last peek, 0 outside it
  late,     \* its deadline has passed
  cert,     \* the certificate the server presented
  proto,    \* the protocol ALPN selected
  answer    \* the last answer of handle_request

setupVars == <<hello, arrived, last_n, late, cert, proto, answer>>
vars == <<bridgeVars, setupVars>>

-----------------------------------------------------------------------------
(* ClientHellos (external: BoringSSL in client.rs, any program elsewhere). *)
(* ours: sent by client.rs; challenge: the challenge store has a context   *)
(* for its SNI; form: see Form; exts: the extensions in order; alpn: the   *)
(* protocols; bytes: what the client sends.                                *)

\* "split" over two records, "bare" without extensions, "short" with a last
\* extension longer than its list, "http" for no TLS at all.
Form == {"whole", "split", "bare", "short", "http"}
ExtensionName == {"ech", "sni", "alpn"}
Byte == 0 .. 255
NameLength == 1 .. 255

U16(n) == <<n \div 256, n % 256>>
Zeros(n) == [i \in 1 .. n |-> 0]

ExtensionBytes(h, x) ==
  CASE x = "ech" -> U16(EXT_ECH) \o U16(1) \o <<0>>
    [] x = "sni" -> U16(0) \o U16(2) \o Zeros(2)
    [] x = "alpn" -> LET list == AlpnWire(h.alpn) IN
         U16(EXT_ALPN) \o U16(Len(list) + 2) \o U16(Len(list)) \o list

Extensions(h) == FlattenSeq([i \in 1 .. Len(h.exts) |-> ExtensionBytes(h, h.exts[i])])
ExtensionList(h) == IF h.form = "short" THEN Front(Extensions(h)) ELSE Extensions(h)
ExtensionField(h) ==
  IF h.form = "bare" THEN <<>> ELSE U16(Len(ExtensionList(h))) \o ExtensionList(h)

\* Version and random, session id, cipher suites, compression methods, extensions.
FixedFields == Zeros(RANDOM_END) \o <<0>> \o U16(2) \o Zeros(2) \o <<1, 0>>
Body(h) == FixedFields \o ExtensionField(h)
Message(h) == <<1, 0>> \o U16(Len(Body(h))) \o Body(h)

Record(payload) == <<22, 3, 1>> \o U16(Len(payload)) \o payload

\* The bytes that carry a ClientHello.
BytesOf(h) ==
  LET m == Message(h) IN
  CASE h.form = "http" -> <<71, 69, 84, 32>>
    [] h.form = "split" -> Record(SubSeq(m, 1, 41)) \o Record(SubSeq(m, 42, Len(m)))
    [] OTHER -> Record(m)

\* Names have 1 to 255 bytes, and what is one record fits its length.
IsHello(h) ==
  /\ {h.ours, h.challenge} \subseteq BOOLEAN
  /\ h.form \in Form /\ h.exts \in Seq(ExtensionName)
  /\ h.form = "bare" => h.exts = <<>>
  /\ h.form = "short" => h.exts # <<>>
  /\ h.alpn \in Seq(Seq(Byte)) /\ \A i \in DOMAIN h.alpn : Len(h.alpn[i]) \in NameLength
  /\ Len(Message(h)) < 65536
  /\ h.bytes = BytesOf(h)

ASSUME HellosAssumption == \A h \in Hellos : IsHello(h)

\* What the hello says, whatever bytes carry it.
OffersAcme(h) == "alpn" \in Range(h.exts) /\ ACME_ALPN \in Range(h.alpn)
Signals(h) == h.form # "http" /\ ("ech" \in Range(h.exts) \/ OffersAcme(h))

\* Where the network cuts the bytes: inside and behind each header.
Cuts(h) == {1, 4, 5, 6, 44, PEEK_CAP, Len(h.bytes) - 1, Len(h.bytes)}
           \cap 1 .. Len(h.bytes)

-----------------------------------------------------------------------------

Init ==
  /\ BridgeInit
  /\ pc = [client |-> "dial", server |-> "listen"]
  /\ hello \in Hellos
  /\ arrived = 0 /\ last_n = 0 /\ late = FALSE
  /\ cert = "none" /\ proto = "none" /\ answer = "none"

Goto(e, where) == pc' = [pc EXCEPT ![e] = where]
Peeked == IF arrived < PEEK_CAP THEN arrived ELSE PEEK_CAP
Verdict == Classify(hello.bytes, Peeked)
ClientWaits == pc["client"] \in {"tls", "upgrade"}

\* net::connect at the client and accept at the server.  The server peeks
\* first when clients without ECH are to be rejected.
Dial ==
  /\ pc["client"] = "dial"
  /\ pc' = [client |-> "tls",
            server |-> IF ech /\ reject_non_ech THEN "peek" ELSE "tls"]
  /\ UNCHANGED <<up, down, read, wrote, out, ws, read_buf, held, net, fault>>
  /\ UNCHANGED setupVars

\* More of the ClientHello arrives.
Arrive ==
  /\ pc["client"] = "tls"
  /\ \E n \in Cuts(hello) : n > arrived /\ arrived' = n
  /\ UNCHANGED <<bridgeVars, hello, last_n, late, cert, proto, answer>>

\* A peek that leaves the question open: it is tried again, after a pause when
\* it saw nothing new.
PeekMore ==
  /\ pc["server"] = "peek"
  /\ Peeked > 0 /\ Verdict = "Incomplete"
  /\ Peeked # PEEK_CAP /\ ~late
  /\ last_n' = Peeked
  /\ UNCHANGED <<bridgeVars, hello, arrived, late, cert, proto, answer>>

\* Mutant: what is still incomplete at the deadline is let through.
PeekPassesLate ==
  /\ pc["server"] = "peek"
  /\ Peeked > 0 /\ (Verdict = "EchOrAcmeAlpn" \/ (Verdict = "Incomplete" /\ late))
  /\ Goto("server", "tls")
  /\ UNCHANGED <<up, down, read, wrote, out, ws, read_buf, held, net, fault>>
  /\ last_n' = 0
  /\ UNCHANGED <<hello, arrived, late, cert, proto, answer>>

PeekPasses ==
  /\ pc["server"] = "peek"
  /\ Peeked > 0 /\ Verdict = "EchOrAcmeAlpn"
  /\ Goto("server", "tls")
  /\ UNCHANGED <<up, down, read, wrote, out, ws, read_buf, held, net, fault>>
  /\ last_n' = 0
  /\ UNCHANGED <<hello, arrived, late, cert, proto, answer>>

\* Mutant: the loop has no deadline of its own.
PeekRejectsNoDeadline ==
  /\ pc["server"] = "peek"
  /\ \/ Peeked > 0 /\ Verdict \in {"NotTls", "Other"}
     \/ Peeked = PEEK_CAP /\ Verdict = "Incomplete"
     \/ Peeked = 0 /\ (late \/ pc["client"] = "failed")
  /\ Goto("server", "dropped")
  /\ UNCHANGED <<up, down, read, wrote, out, ws, read_buf, held, net, fault>>
  /\ last_n' = 0
  /\ UNCHANGED <<hello, arrived, late, cert, proto, answer>>

\* The peek answers false and rst_drop resets the connection: the wrong bytes,
\* a full buffer, the deadline, or the end of a client that sent nothing.
PeekRejects ==
  /\ pc["server"] = "peek"
  /\ \/ Peeked > 0 /\ Verdict \in {"NotTls", "Other"}
     \/ Peeked > 0 /\ Verdict = "Incomplete" /\ (Peeked = PEEK_CAP \/ late)
     \/ Peeked = 0 /\ (late \/ pc["client"] = "failed")
  /\ Goto("server", "dropped")
  /\ UNCHANGED <<up, down, read, wrote, out, ws, read_buf, held, net, fault>>
  /\ last_n' = 0
  /\ UNCHANGED <<hello, arrived, late, cert, proto, answer>>

\* The five seconds are over.
Deadline ==
  /\ pc["server"] = "peek" /\ ~late
  /\ late' = TRUE
  /\ UNCHANGED <<bridgeVars, hello, arrived, last_n, cert, proto, answer>>

\* tls.accept and the client's handshake, once the whole ClientHello is there.
\* A validator gets the challenge certificate or an alert.
Accept ==
  LET offered == IF "alpn" \in Range(hello.exts)
                 THEN AlpnProtocols(AlpnWire(hello.alpn)) ELSE {}
      selected == SelectAlpn(offered, hello.challenge)
  IN
  /\ pc["server"] = "tls"
  /\ pc["client"] = "tls"
  /\ arrived = Len(hello.bytes)
  /\ hello.form \notin {"http", "short"}
  /\ selected # "alert"
  /\ proto' = selected
  /\ cert' = IF selected = "acme-tls/1" THEN "challenge" ELSE "served"
  /\ pc' = [client |-> "upgrade", server |-> "http"]
  /\ UNCHANGED <<up, down, read, wrote, out, ws, read_buf, held, net, fault>>
  /\ UNCHANGED <<hello, arrived, last_n, late, answer>>

\* The handshake fails: bytes that are no handshake, the callback's alert, or a
\* client that went away.  The task drops the connection.
AcceptFails ==
  /\ pc["server"] = "tls"
  /\ \/ /\ arrived = Len(hello.bytes)
        /\ \/ hello.form \in {"http", "short"}
           \/ OffersAcme(hello) /\ ~hello.challenge
     \/ pc["client"] = "failed"
  /\ Drop("server", "failed")
  /\ UNCHANGED <<up, down, read, wrote, out, ws, read_buf, held, fault>>
  /\ UNCHANGED setupVars

\* A request as handle_request judges it: the 101 needs all four.
Request == [get : BOOLEAN, ws_path : BOOLEAN, is_ws_upgrade : BOOLEAN, key : BOOLEAN]
IsUpgrade(req) == req.get /\ req.ws_path /\ req.is_ws_upgrade /\ req.key

\* The requests of a client: client_async sends the one upgrade.
Requests == {req \in Request : hello.ours => IsUpgrade(req)}

\* handle_request answers with the 101, and hyper hands the connection to the
\* task that will dial, or with the 404, and the connection stays.  A foreign
\* client that negotiated h2 sends no HTTP/1.1 request.
HandleRequest ==
  /\ pc["client"] = "upgrade" /\ pc["server"] = "http"
  /\ hello.ours \/ proto \notin {"h2", "acme-tls/1"}
  /\ \E req \in Requests :
       IF IsUpgrade(req)
       THEN answer' = "101" /\ pc' = [client |-> "copy", server |-> "dial"]
       ELSE answer' = "404" /\ UNCHANGED pc
  /\ UNCHANGED <<up, down, read, wrote, out, ws, read_buf, held, net, fault>>
  /\ UNCHANGED <<hello, arrived, last_n, late, cert, proto>>

\* The end of a connection that is no tunnel: a foreign client that has seen
\* its 404s, or that speaks the h2 it negotiated, which serve_connection does
\* not, or a validator that has seen the certificate.
HttpEnds ==
  /\ pc["server"] = "http"
  /\ ~hello.ours \/ pc["client"] = "failed"
  /\ pc' = [client |-> "failed", server |-> "failed"]
  /\ net' = [net EXCEPT !["server"] = Append(@, Fin)]
  /\ UNCHANGED <<up, down, read, wrote, out, ws, read_buf, held, fault>>
  /\ UNCHANGED setupVars

\* The dial of ssserver, after the 101.
ServerDials ==
  /\ pc["server"] = "dial"
  /\ Goto("server", "copy")
  /\ UNCHANGED <<up, down, read, wrote, out, ws, read_buf, held, net, fault>>
  /\ UNCHANGED setupVars

ServerDialFails ==
  /\ "dial" \in Failures
  /\ pc["server"] = "dial"
  /\ Drop("server", "failed")
  /\ fault' = TRUE
  /\ UNCHANGED <<up, down, read, wrote, out, ws, read_buf, held>>
  /\ UNCHANGED setupVars

\* The client gives up before the tunnel is there: its dial or handshake fails
\* or it goes away.
ClientFails ==
  /\ Failures \cap SetupFailures # {}
  /\ pc["client"] \in {"dial", "tls", "upgrade"}
  /\ Drop("client", "failed")
  /\ fault' = TRUE
  /\ UNCHANGED <<up, down, read, wrote, out, ws, read_buf, held>>
  /\ UNCHANGED setupVars

\* The client learns that the server reset or dropped the connection.
ClientIsDropped ==
  /\ ClientWaits
  /\ pc["server"] \in {"dropped", "failed"}
  /\ Drop("client", "failed")
  /\ UNCHANGED <<up, down, read, wrote, out, ws, read_buf, held, fault>>
  /\ UNCHANGED setupVars

Setup ==
  \/ Dial \/ Arrive \/ PeekMore \/ PeekPasses \/ PeekRejects \/ Deadline
  \/ Accept \/ AcceptFails \/ HandleRequest \/ HttpEnds \/ ServerDials
  \/ ServerDialFails \/ ClientFails \/ ClientIsDropped

Next == Setup \/ \E e \in End : Copy(e) /\ UNCHANGED setupVars

Spec == Init /\ [][Next]_vars

\* tokio polls a woken task again, the network delivers, the deadline comes, and
\* a client uses the connection it asked for.  A program that was told the end
\* of its peer ends its own side in time; nothing else is asked of the programs,
\* and nothing fails for certain.
SetupSteps == Dial \/ Arrive \/ PeekMore \/ PeekPasses \/ PeekRejects \/ Accept
  \/ AcceptFails \/ (hello.ours /\ HandleRequest) \/ ServerDials \/ ClientIsDropped
CopySteps(e) ==
  /\ pc[e] = "copy"
  /\ \/ FlushOut(e) \/ ShutdownWs(e) \/ ShutdownTcp(e) \/ CopyDone(e)
     \/ SendFails(e)
     \/ (down[e] = "done" /\ ReadEof(e))
  /\ UNCHANGED setupVars

FairSpec ==
  /\ Spec
  /\ WF_vars(SetupSteps) /\ WF_vars(Deadline)
  /\ \A e \in End :
       /\ WF_vars(CopySteps(e))
       /\ WF_vars(pc[e] = "copy" /\ PollRead(e) /\ UNCHANGED setupVars)
       /\ WF_vars(pc[e] = "copy" /\ WriteTcp(e) /\ UNCHANGED setupVars)

-----------------------------------------------------------------------------
(* Safety.                                                                 *)

Setting == {"dial", "listen", "peek", "tls", "http", "upgrade", "dropped"}
TypeOK ==
  /\ pc \in [End -> Setting \cup {"copy"} \cup Over]
  /\ up \in [End -> {"copy", "eof", "done"}]
  /\ down \in [End -> {"copy", "eof", "done"}]
  /\ read \in [End -> Nat] /\ wrote \in [End -> Nat]
  /\ out \in [End -> Seq(1 .. COPY_BUF)]
  /\ ws \in [End -> {"Active", "ClosedByUs", "ClosedByPeer", "Closed", "CloseAcknowledged"}]
  /\ read_buf \in [End -> 0 .. COPY_BUF] /\ held \in [End -> 0 .. COPY_BUF]
  /\ net \in [End -> Seq(Frame)]
  /\ fault \in BOOLEAN
  /\ hello \in Hellos
  /\ arrived \in Nat /\ last_n \in 0 .. PEEK_CAP /\ late \in BOOLEAN
  /\ cert \in {"none", "served", "challenge"}
  /\ proto \in {"none", "h2", "http/1.1", "noack", "acme-tls/1"}
  /\ answer \in {"none", "101", "404"}

\* A verdict on what has arrived is the verdict on the whole: bytes still on
\* their way never turn a rejected client into an accepted one or back.
VerdictStands ==
  Peeked > 0 /\ Verdict # "Incomplete" =>
    Verdict = Classify(hello.bytes, Len(hello.bytes))

\* What reject_non_ech promises (README.md:157): the production certificate is
\* shown to nobody whose ClientHello carries no ECH extension, and the challenge
\* to nobody but a validator.
OnlySignalledAreServed ==
  /\ ech /\ reject_non_ech /\ cert # "none" => Signals(hello)
  /\ cert = "challenge" => OffersAcme(hello)
  /\ cert = "served" => ~OffersAcme(hello)

\* The other half: a client that signals is reset only when its ClientHello did
\* not come whole, in one record and within the peek, before the deadline.
DropsHaveCause ==
  pc["server"] = "dropped" /\ Signals(hello) =>
    \/ late
    \/ pc["client"] = "failed"
    \/ hello.form \in {"split", "short"}
    \/ Len(hello.bytes) > PEEK_CAP

\* Without a failure from outside, a tunnel is cut only when one program has
\* ended its side and the other has not: the price of the missing half-close.
CutOnlyByHalfClose ==
  answer = "101" /\ ~fault /\ (\E e \in End : pc[e] = "failed") =>
    \E e \in End : up[e] = "copy" /\ up[Other(e)] = "done"

\* Each direction is a lossless pipe that ends after its last byte, unless the
\* tunnel failed or the receiver's Close frame came before the sender's.
Tunnel == INSTANCE StreamPipe WITH
  Streams <- End,
  sent <- read,
  received <- [e \in End |-> wrote[Other(e)]],
  ended <- [e \in End |-> up[e] # "copy"],
  eof <- [e \in End |-> down[Other(e)] = "done" \/ pc[Other(e)] = "failed"],
  broken <- [e \in End |-> \/ "failed" \in {pc["client"], pc["server"]}
                          \/ ws[e] \in {"ClosedByPeer", "Closed"}]
TunnelIsPipe == Tunnel!Spec

-----------------------------------------------------------------------------
(* Liveness.                                                               *)

\* The peek ends, and a client of ours gets its tunnel although its ClientHello
\* comes in pieces, unless the deadline comes first.
ClientIsServed ==
  /\ pc["server"] = "peek" ~> pc["server"] # "peek"
  /\ hello.ours ~> late \/ fault \/ pc["server"] \in {"copy"} \cup Over

\* No half-dead tunnel: when the task of one end is over, the other ends too.
\* And until then what one program sends reaches the other.
NothingIsStuck == \A e \in End :
  /\ answer = "101" /\ pc[e] \in Over ~> pc[Other(e)] \in Over
  /\ \A n \in 1 .. MaxBytes[e] :
       read[e] >= n ~> wrote[Other(e)] >= n \/ "failed" \in {pc["client"], pc["server"]}

=============================================================================
