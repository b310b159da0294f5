\* Crossed dials and inbound streams for one peer, a mismatched endpoint,
\* disconnects, CloseConn and Stop; every goroutine fair.
CONSTANTS
    p1 = p1  p2 = p2  d1 = d1  d2 = d2  d3 = d3  i1 = i1  i2 = i2
    Nil = Nil  NoConn = NoConn
    Peers <- MCPeers
    Dialers <- MCDialers
    Inbounds <- MCInbounds
    Endpoint <- MCEndpoint
    Expected <- MCExpected
    InboundFrom <- MCInboundFrom
    DeadCap = 1
SPECIFICATION Spec
INVARIANT AtMostOneLiveSession StoreEntriesAreSessions
PROPERTY SessionMapSpec
