------------------------------ MODULE Settings ------------------------------
(***************************************************************************)
(* config.rs: the configuration a map of plugin options stands for, the    *)
(* names fingerprint.rs knows, and the names an ACME order asks for.       *)
(* An option set has a configuration when it IsAccepted; the value is then *)
(* ServerCfg or ClientCfg.                                                 *)
(***************************************************************************)
EXTENDS PluginOptions, TLC

DEFAULT_ECH_PUBLIC_NAME == <<"cloudflare-ech.com">>
None == <<>>

\* A value, or what stands for an option that is not there.
GetOr(o, key, default) == IF Has(o, key) THEN Get(o, key) ELSE default

\* required: there and not empty.
Required(o, key) == GetOr(o, key, None) # None

WsPathOk(o) == Required(o, "path") /\ Head(Get(o, "path")) = "/"

\* parse_bool
TRUE_WORDS == {<<"true">>, <<"1">>, <<"yes">>, <<"on">>}
FALSE_WORDS == {<<"false">>, <<"0">>, <<"no">>, <<"off">>, <<>>}
BoolOk(o, key) == Has(o, key) => Get(o, key) \in TRUE_WORDS \cup FALSE_WORDS
Bool(o, key, default) == IF Has(o, key) THEN Get(o, key) \in TRUE_WORDS ELSE default

-----------------------------------------------------------------------------

\* build_server_tls
ServerTlsOk(o) ==
  /\ Has(o, "cert") <=> Has(o, "key")
  /\ Has(o, "cert") <=> ~Has(o, "acme_email")
  /\ Has(o, "acme_email") => BoolOk(o, "acme_staging")

\* build_server_ech
ServerEchOk(o) == Has(o, "ech_public_name") => Has(o, "ech_key")
ServerEch(o) == [
  on |-> Has(o, "ech_key"),
  public_name |-> GetOr(o, "ech_public_name", DEFAULT_ECH_PUBLIC_NAME),
  key_file |-> GetOr(o, "ech_key", None)]

ServerAccepted(o) ==
  /\ Required(o, "domain") /\ WsPathOk(o)
  /\ ServerTlsOk(o) /\ ServerEchOk(o)
  /\ \A key \in {"fast_open", "acme_cover_san", "reject_non_ech", "http3"} : BoolOk(o, key)

\* ServerCfg::from_options.  The comparison of the cover name forgives case
\* and trailing dots; names here are in their plain form.
ServerCfg(o) == [
  domain |-> Get(o, "domain"),
  ws_path |-> Get(o, "path"),
  acme |-> Has(o, "acme_email"),
  ech |-> ServerEch(o),
  acme_cover_san |-> Bool(o, "acme_cover_san",
    ~ (ServerEch(o).on /\ ServerEch(o).public_name = DEFAULT_ECH_PUBLIC_NAME)),
  reject_non_ech |-> Bool(o, "reject_non_ech", TRUE),
  http3 |-> Bool(o, "http3", FALSE)]

-----------------------------------------------------------------------------

\* build_client_ech
ClientEchOk(o) == ~ (Has(o, "ech_config") /\ Has(o, "ech_config_file"))
ClientEch(o) == [
  on |-> Has(o, "ech_config") \/ Has(o, "ech_config_file"),
  inline |-> GetOr(o, "ech_config", None),
  file |-> Has(o, "ech_config_file")]

\* build_client_trust
ClientTrustOk(o) == BoolOk(o, "insecure") /\ ~ (Has(o, "ca_file") /\ Bool(o, "insecure", FALSE))
ClientTrust(o) == IF Has(o, "ca_file") THEN "CaFile"
  ELSE IF Bool(o, "insecure", FALSE) THEN "InsecureSkipVerify" ELSE "SystemRoots"

\* fingerprint::resolve, and the spellings build_fingerprint makes one.
FINGERPRINTS == {"chrome", "chrome120", "firefox", "firefox120", "safari", "safari16",
  "ios", "ios14", "android", "android11", "edge", "edge85", "random"}
Resolves(name) == name \in {<<f>> : f \in FINGERPRINTS}
Normalized(v) == IF v \in {<<"Chrome">>, <<" ", "chrome">>} THEN <<"chrome">> ELSE v

\* build_fingerprint
FingerprintOk(o) == Normalized(GetOr(o, "fingerprint", None)) # None =>
  Resolves(Normalized(Get(o, "fingerprint")))

\* Mutant: what was validated is not what is kept.
FingerprintAsWritten(o) == GetOr(o, "fingerprint", None)

Fingerprint(o) == Normalized(GetOr(o, "fingerprint", None))

\* build_transport
TCP_WORDS == {<<>>, <<"tcp">>}
H3_WORDS == {<<"h3">>, <<"http3">>, <<"quic">>}
TransportOk(o) == GetOr(o, "transport", None) \in TCP_WORDS \cup H3_WORDS
Transport(o) == IF GetOr(o, "transport", None) \in H3_WORDS THEN "H3" ELSE "Tcp"

ClientAccepted(o) ==
  /\ Required(o, "sni") /\ WsPathOk(o) /\ BoolOk(o, "fast_open")
  /\ ClientEchOk(o) /\ ClientTrustOk(o) /\ FingerprintOk(o) /\ TransportOk(o)

\* ClientCfg::from_options
ClientCfg(o) == [
  sni |-> Get(o, "sni"),
  ws_path |-> Get(o, "path"),
  ech |-> ClientEch(o),
  trust |-> ClientTrust(o),
  fingerprint |-> Fingerprint(o),
  transport |-> Transport(o)]

\* Config::from_options
IsAccepted(o) == ModeOk(o) /\ IF Mode(o) = "server" THEN ServerAccepted(o) ELSE ClientAccepted(o)

-----------------------------------------------------------------------------

\* compute_acme_domains of server.rs
AcmeDomains(cfg) == {cfg.domain} \cup
  (IF cfg.acme_cover_san /\ cfg.ech.on /\ cfg.ech.public_name # <<>>
   THEN {cfg.ech.public_name} ELSE {})

=============================================================================
