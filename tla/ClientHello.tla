---------------------------- MODULE ClientHello ----------------------------
(***************************************************************************)
(* clienthello.rs: what the first bytes of a connection are, and the ALPN  *)
(* choice of tls_server.rs.  A buffer is a sequence of bytes; a position   *)
(* counts the bytes before it, as Reader::pos does.                        *)
(***************************************************************************)
EXTENDS Naturals, SequencesExt

EXT_ECH == 65037   \* 0xfe0d
EXT_ALPN == 16     \* 0x0010
ACME_ALPN == <<97, 99, 109, 101, 45, 116, 108, 115, 47, 49>>   \* "acme-tls/1"
H2 == <<104, 50>>
HTTP11 == <<104, 116, 116, 112, 47, 49, 46, 49>>

ClientHelloKind == {"Incomplete", "NotTls", "EchOrAcmeAlpn", "Other"}

-----------------------------------------------------------------------------
(* Reader: a slice of buf is known by the position of its end, e.          *)

\* n more bytes can be read at p.
Has(p, n, e) == p + n <= e

\* The big-endian number of w bytes at p.
Num(b, p, w) ==
  LET num[i \in 0 .. w] == IF i = 0 THEN 0 ELSE 256 * num[i - 1] + b[p + i]
  IN num[w]

\* A length of w bytes at p and that many bytes after it.
VectorEnd(b, p, w) == p + w + Num(b, p, w)
HasVector(b, p, w, e) == Has(p, w, e) /\ VectorEnd(b, p, w) <= e

-----------------------------------------------------------------------------

\* Mutant: only the first name of the list is looked at.
AlpnHasAcmeFirst(b, p, e) ==
  /\ HasVector(b, p, 2, e)
  /\ HasVector(b, p + 2, 1, e)
  /\ SubSeq(b, p + 4, VectorEnd(b, p + 2, 1)) = ACME_ALPN

\* alpn_has_acme: a list that is cut short holds what stands before the cut.
AlpnHasAcme(b, p, e) ==
  /\ HasVector(b, p, 2, e)
  /\ LET end == VectorEnd(b, p, 2)
         from[q \in Nat] ==
           /\ HasVector(b, q, 1, end)
           /\ \/ SubSeq(b, q + 2, VectorEnd(b, q, 1)) = ACME_ALPN
              \/ from[VectorEnd(b, q, 1)]
     IN from[p + 2]

\* The loop over the extensions.
ExtensionsKind(b, p, e) ==
  LET from[q \in Nat] ==
        IF ~ (Has(q, 2, e) /\ HasVector(b, q + 2, 2, e)) THEN "Other"
        ELSE IF \/ Num(b, q, 2) = EXT_ECH
                \/ /\ Num(b, q, 2) = EXT_ALPN
                   /\ AlpnHasAcme(b, q + 4, VectorEnd(b, q + 2, 2))
             THEN "EchOrAcmeAlpn"
        ELSE from[VectorEnd(b, q + 2, 2)]
  IN from[p]

\* The body of a ClientHello: version and random, then session id, cipher suites
\* and compression methods, then the extensions.
RANDOM_END == 2 + 32
BodyKind(b, p, e) ==
  LET suites == VectorEnd(b, p + RANDOM_END, 1)
      methods == VectorEnd(b, suites, 2)
      exts == VectorEnd(b, methods, 1)
  IN IF ~ (/\ HasVector(b, p + RANDOM_END, 1, e)
           /\ HasVector(b, suites, 2, e)
           /\ HasVector(b, methods, 1, e)) THEN "Incomplete"
     ELSE IF ~Has(exts, 2, e) THEN "Other"
     ELSE IF ~HasVector(b, exts, 2, e) THEN "Incomplete"
     ELSE ExtensionsKind(b, exts + 2, VectorEnd(b, exts, 2))

\* The handshake message at the start of a record.
RecordKind(b, p, e) ==
  IF ~Has(p, 1, e) THEN "Incomplete"
  ELSE IF b[p + 1] # 1 THEN "Other"
  ELSE IF ~HasVector(b, p + 1, 3, e) THEN "Incomplete"
  ELSE BodyKind(b, p + 4, VectorEnd(b, p + 1, 3))

\* Mutant: a record that is not there yet is taken for something else.
ClassifyShort(b, n) ==
  IF n = 0 THEN "Incomplete"
  ELSE IF b[1] # 22 THEN "NotTls"
  ELSE IF ~Has(0, 5, n) THEN "Incomplete"
  ELSE IF ~HasVector(b, 3, 2, n) THEN "Other"
  ELSE RecordKind(b, 5, VectorEnd(b, 3, 2))

\* classify(&b[..n]): only the first record is looked at.
Classify(b, n) ==
  IF n = 0 THEN "Incomplete"
  ELSE IF b[1] # 22 THEN "NotTls"
  ELSE IF ~ (Has(0, 3, n) /\ HasVector(b, 3, 2, n)) THEN "Incomplete"
  ELSE RecordKind(b, 5, VectorEnd(b, 3, 2))

-----------------------------------------------------------------------------
(* The ALPN callback of the acceptor.                                      *)

\* AlpnIter: stops at a zero length or where the list is cut.
AlpnProtocols(wire) ==
  LET from[p \in 0 .. Len(wire)] ==
        IF HasVector(wire, p, 1, Len(wire)) /\ wire[p + 1] # 0
        THEN {SubSeq(wire, p + 2, VectorEnd(wire, p, 1))} \cup from[VectorEnd(wire, p, 1)]
        ELSE {}
  IN from[0]

\* The protocol the callback answers; challenge says whether the store holds
\* a context for the client's SNI.
SelectAlpn(offered, challenge) ==
  IF ACME_ALPN \in offered THEN (IF challenge THEN "acme-tls/1" ELSE "alert")
  ELSE IF H2 \in offered THEN "h2"
  ELSE IF HTTP11 \in offered THEN "http/1.1"
  ELSE "noack"

\* alpn_wire: each name after its length.
Named(name) == <<Len(name)>> \o name
AlpnWire(protos) == FlattenSeq([i \in 1 .. Len(protos) |-> Named(protos[i])])

=============================================================================
