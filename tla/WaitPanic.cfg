\* One Stop racing an Accept whose bridge has not yet run stopWG.Add(1).
CONSTANTS
    s1 = s1  s2 = s2  d1 = d1  d2 = d2  t1 = t1  t2 = t2
    Subscribers <- MCSubscribers
    Senders <- MCNoSenders
    Stoppers <- MCOneStopper
    SubCap = 1
    GenericCap = 1
    DeadCap = 1
    MaxMsgs = 1
SPECIFICATION Spec
INVARIANT NoPanic
