---------------------------- MODULE MCTcpTunnel ----------------------------
(***************************************************************************)
(* TcpTunnel on small instances: the ClientHellos and the bytes of the two *)
(* programs.                                                               *)
(***************************************************************************)
EXTENDS TcpTunnel

Hello(form, exts, alpn) ==
  LET h == [ours |-> FALSE, challenge |-> FALSE, form |-> form, exts |-> exts, alpn |-> alpn]
  IN h @@ [bytes |-> BytesOf(h)]

Both == <<H2, HTTP11>>
Validator == Hello("whole", <<"sni", "alpn">>, <<HTTP11, ACME_ALPN>>)
AllHellos == {
  [Hello("whole", <<"sni", "alpn", "ech">>, Both) EXCEPT !.ours = TRUE],
  Hello("whole", <<"ech", "alpn">>, <<HTTP11>>),
  Validator, [Validator EXCEPT !.challenge = TRUE],
  Hello("whole", <<"sni", "alpn">>, Both),
  Hello("whole", <<"sni">>, <<>>),
  Hello("split", <<"sni", "ech">>, <<>>),
  Hello("bare", <<>>, <<>>),
  Hello("short", <<"sni", "ech">>, <<>>),
  Hello("whole", <<"alpn", "alpn", "alpn", "ech">>, Both),
  Hello("http", <<>>, <<>>) }

Bytes == [e \in End |-> IF e = "client" THEN 3 ELSE 2]

=============================================================================
