------------------------------- MODULE Plugin -------------------------------
(***************************************************************************)
(* A deployment: ech-gen-keys (main.rs, ech.rs) writes a key pair, an      *)
(* operator pastes what it printed into the options of a server and a      *)
(* client, both start, and the client connects.  Keys may be generated     *)
(* again at any time, also while both run, and the command may be stopped  *)
(* between its writes.                                                     *)
(*                                                                         *)
(* A generated key carries its number; 0 is no key.  The acceptor reads    *)
(* the key file when it is built, that is at the start and at every swap,  *)
(* the HTTP/3 listener at the first connection of a generation, a TCP      *)
(* client reads its list at the start and an HTTP/3 client in each session.*)
(***************************************************************************)
EXTENDS Settings

CONSTANTS
  WORDS,        \* what texts are made of
  SYMBOLS,      \* what an operator tries option texts from
  MaxText,      \* bound: length of such a text
  ServerSetups, \* options of a server without those of ECH, as assignments
  ClientSetups, \* the same of a client
  Names,        \* public names keys are generated for
  KEY_PATH,     \* <out>/ech.key, as its path is printed
  ServerEnv, ClientEnv,  \* the SS_* addresses of the two processes
  MaxGens,      \* bound: runs of ech-gen-keys
  MaxSwaps      \* bound: certificates installed by one server

ASSUME PluginAssumption == MaxText \in Nat /\ MaxGens \in Nat /\ MaxSwaps \in Nat
ASSUME WordsAssumption == SYMBOLS \cup SPECIAL \cup
  {"ech_public_name", "ech_key", "ech_config", "ech_config_file", "list", "A", "k"} \subseteq WORDS

\* An option set that is accepted as it is and leaves the ECH keys to be pasted.
SetUp(s, mode, pasted) ==
  /\ s \in Seq((WORDS \ SPECIAL) \X Seq(WORDS))
  /\ IsAccepted(Assigned(s)) /\ Mode(Assigned(s)) = mode
  /\ \A key \in pasted : ~Has(Assigned(s), key)

\* The operator gives both sides the same path.
ASSUME SetupAssumption ==
  /\ \A s \in ServerSetups : SetUp(s, "server", {"ech_public_name", "ech_key"})
  /\ \A s \in ClientSetups : SetUp(s, "client", {"ech_config", "ech_config_file"})
  /\ \A s \in ServerSetups, c \in ClientSetups :
       Get(Assigned(s), "path") = Get(Assigned(c), "path")

\* What ech-gen-keys prints is not escaped: BoringSSL takes only host names for
\* a public name, and the operator picks a directory that needs no escape.
IsPlain(t) == t \in Seq(WORDS) /\ \A i \in DOMAIN t : t[i] \notin {BACKSLASH, SEPARATOR}
ASSUME PrintedAssumption == \A t \in Names \cup {KEY_PATH} : IsPlain(t)

\* create_listener binds a literal address, never a name.
CanListen(host) == host.ip # "name"

\* ssserver and sslocal are given literal addresses to listen on, and the same
\* SS_REMOTE address.
ASSUME AddressAssumption ==
  /\ CanListen(ServerEnv.remote_host) /\ CanListen(ClientEnv.local_host)
  /\ ServerEnv.remote_host = ClientEnv.remote_host
  /\ ServerEnv.remote_port = ClientEnv.remote_port

VARIABLES
  text,      \* an option text an operator tries
  gens,      \* runs of ech-gen-keys so far
  gen,       \* the run in progress
  key_file,  \* ech.key
  list_file, \* ech.config_list
  copy,      \* the client host's copy of it
  printed,   \* what the last complete run printed
  server,    \* the server process
  client,    \* the client process
  outcome    \* how the last start or connection ended, if nothing
             \* that matters to it has changed since

files == <<key_file, list_file, copy, printed>>
vars == <<text, gens, gen, files, server, client, outcome>>

File == [is : {"missing", "torn", "whole"}, key : 0 .. MaxGens]
Missing == [is |-> "missing", key |-> 0]
Torn == [is |-> "torn", key |-> 0]
Whole(k) == [is |-> "whole", key |-> k]

\* A base64 ECHConfigList ends in padding; how many symbols stand before it
\* names the key.
B64(k) == [i \in 1 .. k + 2 |-> IF i <= k THEN "A" ELSE "="]
Decodes(b64) == \E k \in 1 .. MaxGens : b64 = B64(k)
Decoded(b64) == CHOOSE k \in 1 .. MaxGens : b64 = B64(k)

NoCfg == [none |-> TRUE]
Down == [up |-> FALSE, cfg |-> NoCfg, list |-> Missing, key |-> 0, cert |-> "none",
         generation |-> 0, h3 |-> [built |-> FALSE, generation |-> 0, key |-> 0],
         read |-> 0]

Init ==
  /\ text = <<>>
  /\ gens = 0 /\ gen = [at |-> "idle", name |-> None]
  /\ key_file = Missing /\ list_file = Missing /\ copy = Missing
  /\ printed = [key |-> 0, name |-> None]
  /\ server = Down /\ client = Down
  /\ outcome = "none"

\* An operator writes one more symbol of a text, before anything is set up.
Type ==
  /\ gens = 0 /\ ~server.up /\ ~client.up
  /\ Len(text) < MaxText
  /\ \E c \in SYMBOLS : text' = Append(text, c)
  /\ UNCHANGED <<gens, gen, files, server, client, outcome>>

-----------------------------------------------------------------------------
(* ech-gen-keys: each fs::write truncates the file before it fills it.     *)

\* generate, and write_to up to the truncation.
GenKey ==
  /\ gen.at = "idle" /\ gens < MaxGens /\ text = <<>>
  /\ gens' = gens + 1
  /\ \E name \in Names : gen' = [at |-> "key", name |-> name]
  /\ key_file' = Torn
  /\ outcome' = "none"
  /\ UNCHANGED <<text, list_file, copy, printed, server, client>>

\* The key is written; marshal_config_list, and its file is truncated.
GenList ==
  /\ gen.at = "key"
  /\ gen' = [gen EXCEPT !.at = "list"]
  /\ key_file' = Whole(gens)
  /\ list_file' = Torn
  /\ outcome' = "none"
  /\ UNCHANGED <<text, gens, copy, printed, server, client>>

GenPrint ==
  /\ gen.at = "list"
  /\ gen' = [gen EXCEPT !.at = "idle"]
  /\ list_file' = Whole(gens)
  /\ printed' = [key |-> gens, name |-> gen.name]
  /\ outcome' = "none"
  /\ UNCHANGED <<text, gens, key_file, copy, server, client>>

GenStopped ==
  /\ gen.at # "idle"
  /\ gen' = [gen EXCEPT !.at = "idle"]
  /\ outcome' = "none"
  /\ UNCHANGED <<text, gens, files, server, client>>

\* The operator copies the list to the client's host.
Distribute ==
  /\ copy # list_file /\ list_file # Missing
  /\ copy' = list_file
  /\ outcome' = "none"
  /\ UNCHANGED <<text, gens, gen, key_file, list_file, printed, server, client>>

-----------------------------------------------------------------------------
(* Option texts: the operator's own, escaped, and the printed part as it   *)
(* was printed.                                                            *)

ServerTexts == {Written(s) : s \in ServerSetups} \cup
  {Written(s) \o Option("ech_public_name", printed.name) \o <<SEPARATOR>> \o
     Option("ech_key", KEY_PATH) : s \in IF printed.key = 0 THEN {} ELSE ServerSetups}

ClientTexts == {Written(s) : s \in ClientSetups} \cup
  UNION {{Written(s) \o Option("ech_config", B64(printed.key)),
          Written(s) \o Option("ech_config_file", <<"list">>)} :
            s \in IF printed.key = 0 THEN {} ELSE ClientSetups}

\* Config::from_options of the parsed text, or NoCfg when it is refused.
Config(t) ==
  LET read == Parse(t) IN
  IF ~ (read.ok /\ IsAccepted(read.map)) THEN NoCfg
  ELSE IF Mode(read.map) = "server" THEN ServerCfg(read.map) ELSE ClientCfg(read.map)

\* EchServerKey::read_from of the configured file: the length of a torn file
\* is wrong.
KeyReadable(cfg) == cfg.ech.on => cfg.ech.key_file = KEY_PATH /\ key_file.is = "whole"
KeyRead(cfg) == IF cfg.ech.on THEN key_file.key ELSE 0

\* load_client_config_list
ListReadable(cfg) == cfg.ech.on =>
  IF cfg.ech.file THEN copy.is # "missing" ELSE Decodes(cfg.ech.inline)
ListRead(cfg) == IF ~cfg.ech.on THEN Missing
  ELSE IF cfg.ech.file THEN copy ELSE Whole(Decoded(cfg.ech.inline))

-----------------------------------------------------------------------------
(* The processes.                                                          *)

\* main and server::run up to the accept loop: options, acceptor, listeners.
StartServer ==
  /\ ~server.up /\ text = <<>>
  /\ \E t \in ServerTexts :
       LET cfg == Config(t) IN
       IF cfg # NoCfg /\ CanListen(ServerEnv.remote_host) /\ KeyReadable(cfg)
       THEN /\ server' = [Down EXCEPT !.up = TRUE, !.cfg = cfg, !.key = KeyRead(cfg),
                            !.cert = IF cfg.acme THEN "bootstrap" ELSE "static",
                            !.read = gens]
            /\ outcome' = "none"
     ELSE outcome' = "exit" /\ UNCHANGED server
  /\ UNCHANGED <<text, gens, gen, files, client>>

\* Mutant: only the TCP acceptor is swapped.
SwapTcpOnly ==
  /\ server.up /\ server.cfg.acme
  /\ server' = IF KeyReadable(server.cfg)
       THEN [server EXCEPT !.key = KeyRead(server.cfg), !.cert = "acme", !.read = gens]
     ELSE server
  /\ outcome' = "none"
  /\ UNCHANGED <<text, gens, gen, files, client>>

\* install_material or the renewal's callback: the acceptor is rebuilt with
\* whatever the key file holds now; if that fails nothing is swapped.
Swap ==
  /\ server.up /\ server.cfg.acme
  /\ server.generation < MaxSwaps
  /\ IF KeyReadable(server.cfg)
     THEN server' = [server EXCEPT !.key = KeyRead(server.cfg), !.cert = "acme",
                       !.generation = @ + 1, !.read = gens]
     ELSE UNCHANGED server
  /\ outcome' = "none"
  /\ UNCHANGED <<text, gens, gen, files, client>>

\* main and client::run, which builds the TlsClient; the HTTP/3 client reads
\* nothing before its first session.
StartClient ==
  /\ ~client.up /\ text = <<>>
  /\ \E t \in ClientTexts :
       LET cfg == Config(t) IN
       IF /\ cfg # NoCfg
          /\ CanListen(ClientEnv.local_host)
          /\ cfg.transport = "Tcp" =>
               /\ cfg.fingerprint # None => Resolves(cfg.fingerprint)
               /\ ListReadable(cfg)
       THEN /\ client' = [Down EXCEPT !.up = TRUE, !.cfg = cfg,
                            !.read = IF cfg.ech.file THEN copy.key ELSE printed.key,
                            !.list = IF cfg.transport = "Tcp" THEN ListRead(cfg) ELSE Missing]
            /\ outcome' = "none"
     ELSE outcome' = "exit" /\ UNCHANGED client
  /\ UNCHANGED <<text, gens, gen, files, server>>

StopServer ==
  /\ server.up /\ server' = Down /\ outcome' = "none"
  /\ UNCHANGED <<text, gens, gen, files, client>>

StopClient ==
  /\ client.up /\ client' = Down /\ outcome' = "none"
  /\ UNCHANGED <<text, gens, gen, files, server>>

-----------------------------------------------------------------------------
(* A connection.  BoringSSL rejects ECH of another key at the server, and  *)
(* at the client fails a handshake whose ECH was rejected.                 *)

\* How the handshake and the request of the client end at a listener with a
\* key: TlsClient::connect or the session's handshake, and the answer.
Handshake(list, key) ==
  LET s == server.cfg  c == client.cfg
      verified == \/ c.trust = "InsecureSkipVerify"
                  \/ /\ server.cert = IF c.trust = "CaFile" THEN "static" ELSE "acme"
                     /\ c.sni \in AcmeDomains(s)
  IN IF c.ech.on /\ list.is # "whole" THEN "no_list"
     ELSE IF s.ech.on /\ s.reject_non_ech /\ ~c.ech.on THEN "reset"
     ELSE IF c.ech.on /\ list.key # key THEN "ech_rejected"
     ELSE IF ~verified THEN "bad_cert"
     ELSE IF s.ws_path # c.ws_path THEN "404"
     ELSE "up"

Listen == Endpoints(ServerEnv, "server").listen
Reached == Endpoints(ClientEnv, "client").upstream = Listen

ConnectTcp ==
  /\ client.up /\ server.up /\ client.cfg.transport = "Tcp"
  /\ outcome' = IF Reached THEN Handshake(client.list, server.key) ELSE "unreachable"
  /\ UNCHANGED <<text, gens, gen, files, server, client>>

\* ensure_config builds the configuration again when the generation is another.
Ensured ==
  IF server.h3.built /\ server.h3.generation = server.generation THEN server.h3
  ELSE [built |-> TRUE, generation |-> server.generation, key |-> KeyRead(server.cfg)]
CanEnsure == Ensured = server.h3 \/ KeyReadable(server.cfg)

\* A session of the HTTP/3 client and the connection it makes at the server.
ConnectH3 ==
  /\ client.up /\ server.up /\ client.cfg.transport = "H3"
  /\ IF ~ListReadable(client.cfg) THEN outcome' = "no_list" /\ UNCHANGED server
     ELSE IF ~ (Reached /\ server.cfg.http3 /\ CanEnsure)
     THEN outcome' = "unreachable" /\ UNCHANGED server
     ELSE /\ server' = [server EXCEPT !.h3 = Ensured]
          /\ outcome' = Handshake(ListRead(client.cfg), Ensured.key)
  /\ UNCHANGED <<text, gens, gen, files, client>>

Next ==
  \/ Type
  \/ GenKey \/ GenList \/ GenPrint \/ GenStopped \/ Distribute
  \/ StartServer \/ Swap \/ StopServer
  \/ StartClient \/ StopClient
  \/ ConnectTcp \/ ConnectH3

Spec == Init /\ [][Next]_vars

-----------------------------------------------------------------------------

\* The text of sip003.rs:120-130: however separators and backslashes stand next
\* to each other, the three scanners together read the options the format
\* means, and any text comes through as a value when it is escaped.
TextIsReadAsMeant ==
  /\ Parse(text).ok = Meaning(text).ok
  /\ Meaning(text).ok => Parse(text).map = Meaning(text).map
  /\ Parse(Written(<<<<"k", text>>>>)).map = [k \in {<<"k">>} |-> text]

\* What the set-up of README.md:91-130 promises: when the keys that ech-gen-keys
\* generated last, and printed, are those both processes were started with, the
\* client is never refused for its ECH.  And no process exits over these options,
\* only over a file that is torn or not there.
UpToDate ==
  /\ gen.at = "idle" /\ printed.key = gens /\ copy = list_file
  /\ server.up /\ server.cfg.ech.on /\ server.read = gens
  /\ client.up /\ client.cfg.ech.on /\ client.read = gens
PastedSetupWorks ==
  /\ UpToDate => outcome \in {"none", "up", "bad_cert"} \cup
       (IF client.cfg.transport = "H3" /\ ~server.cfg.http3 THEN {"unreachable"} ELSE {})
  /\ outcome = "exit" => key_file.is = "torn" \/ copy.is = "missing"

\* The two listeners of a server accept the same ECH key, unless keys were
\* generated after the acceptor read its own: a swap reaches both.
OneEchKey ==
  server.h3.built /\ server.h3.generation = server.generation /\ server.key # server.h3.key =>
    gens > server.read

=============================================================================
