\* Local, one honest peer and an attacker that replays captured signatures.
CONSTANTS
    L = L  H = H  M = M  hL = hL  hH = hH  hM = hM
    NoId = NoId  NoHash = NoHash
    Ids <- MCIds
    Local = L
    Attacker = M
    TlsHash <- MCTlsHash
SPECIFICATION Spec
INVARIANT NoImpersonation
