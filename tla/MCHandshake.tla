---------------------------- MODULE MCHandshake ----------------------------
(* Local, one honest peer and the attacker. *)
EXTENDS Handshake, TLC

CONSTANTS L, H, M, hL, hH, hM

MCIds     == {L, H, M}
MCTlsHash == (L :> hL) @@ (H :> hH) @@ (M :> hM)
=============================================================================
