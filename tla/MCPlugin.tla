------------------------------ MODULE MCPlugin ------------------------------
(***************************************************************************)
(* Plugin on small instances: the options of the README, with and without  *)
(* HTTP/3, and two public names.                                           *)
(***************************************************************************)
EXTENDS Plugin

Common == <<<<"path", <<"/", "a", "=", "b", ";", "\\">>>>>>
Acme == <<<<"mode", <<"server">>>>, <<"domain", <<"d">>>>, <<"acme_email", <<"e">>>>>> \o Common
Static == <<<<"mode", <<"server">>>>, <<"domain", <<"d">>>>, <<"cert", <<"c">>>>,
            <<"key", <<"k">>>>, <<"reject_non_ech", <<"no">>>>>> \o Common
Servers == {Acme \o <<<<"http3", <<"true">>>>>>, Static}

Plain == <<<<"mode", <<"client">>>>, <<"sni", <<"d">>>>>> \o Common
Clients == {Plain \o <<<<"fingerprint", <<"Chrome">>>>>>,
            Plain \o <<<<"ca_file", <<"ca">>>>>>,
            Plain \o <<<<"transport", <<"h3">>>>>>}

Words == STRING
Symbols == {"k"} \cup SPECIAL

TwoNames == {DEFAULT_ECH_PUBLIC_NAME, <<"d">>}
KeyPath == <<"/", "ech.key">>
Host6 == [ip |-> "v6", text |-> "::"]
Host4 == [ip |-> "v4", text |-> "127.0.0.1"]
Env == [remote_host |-> Host6, remote_port |-> 443, local_host |-> Host4, local_port |-> 8388]

=============================================================================
