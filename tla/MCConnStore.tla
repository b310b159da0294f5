---------------------------- MODULE MCConnStore ----------------------------
(* Small instances of ConnStore for TLC.  d1 dials p1 knowing its PKI-ID,  *)
(* d2 dials p1's endpoint without knowing it, d3 dials p2's endpoint       *)
(* believing it is p1's (scenario 3); i1 and i2 are streams opened by p1,  *)
(* crossing the dials (scenario 2).                                        *)
EXTENDS ConnStore, TLC

CONSTANTS p1, p2, d1, d2, d3, i1, i2

MCPeers    == {p1, p2}
MCDialers  == {d1, d2, d3}
MCInbounds == {i1, i2}
MCEndpoint == (d1 :> p1) @@ (d2 :> p1) @@ (d3 :> p2)
MCExpected == (d1 :> p1) @@ (d2 :> Nil) @@ (d3 :> p1)
MCInboundFrom == (i1 :> p1) @@ (i2 :> p1)
=============================================================================
