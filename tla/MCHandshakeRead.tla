-------------------------- MODULE MCHandshakeRead --------------------------
(* HandshakeRead for TLC: the remote peer sends at most three envelopes,  *)
(* enough for its ConnEstablish and two gossip envelopes behind it.       *)
EXTENDS HandshakeRead

MCMaxEnv == 3
=============================================================================
