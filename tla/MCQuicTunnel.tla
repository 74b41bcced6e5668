---------------------------- MODULE MCQuicTunnel ----------------------------
(* Model-checking instances of QuicTunnel: the set the .cfg files choose.    *)
EXTENDS QuicTunnel

CONSTANTS s1

OneStream == {s1}

=============================================================================
