\* One handshake read against every behaviour of the peer and the transport.
CONSTANTS
    MaxEnv <- MCMaxEnv
SPECIFICATION Spec
CHECK_DEADLOCK FALSE
INVARIANT ReplyIsFirstEnvelope
PROPERTY CallerReturns ReaderExits ReplySpec
