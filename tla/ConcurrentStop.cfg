\* Two goroutines call Stop at once.  A Stop blocked forever is a real
\* stop of the system here, so deadlock is reported through StopTerminates.
CONSTANTS
    s1 = s1  s2 = s2  d1 = d1  d2 = d2  t1 = t1  t2 = t2
    Subscribers <- MCSubscribers
    Senders <- MCNoSenders
    Stoppers <- MCTwoStoppers
    SubCap = 1
    GenericCap = 1
    DeadCap = 1
    MaxMsgs = 1
CHECK_DEADLOCK FALSE
SPECIFICATION Spec
PROPERTY StopTerminates
