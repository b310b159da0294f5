\* Does the reader goroutine outlive a timed-out readWithTimeout?
CONSTANTS
    MaxEnv <- MCMaxEnv
SPECIFICATION Spec
CHECK_DEADLOCK FALSE
INVARIANT ReaderJoinedOnTimeout
