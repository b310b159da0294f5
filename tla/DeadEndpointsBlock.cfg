\* Two failing sends, one slot in deadEndpoints, nobody reads PresumedDead.
CONSTANTS
    s1 = s1  s2 = s2  d1 = d1  d2 = d2  t1 = t1  t2 = t2
    Subscribers <- MCSubscribers
    Senders <- MCTwoSenders
    Stoppers <- MCOneStopper
    SubCap = 1
    GenericCap = 1
    DeadCap = 1
    MaxMsgs = 0
SPECIFICATION Spec
PROPERTY DisconnectReturns
