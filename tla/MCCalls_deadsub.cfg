\* Is a subscription told that its connection is gone?
SPECIFICATION Spec
CONSTANTS
    g1 = g1
    s1 = s1
    b1 = b1
    Gets = {g1}
    Streams = {s1}
    Subs = {b1}
    MaxSubscriptions = 1
    ReaderMayFail = FALSE
    SendTimeout = FALSE
    Mixes = {{b1}}
    MaxChunks = 1
    MaxPublish = 1
INVARIANT ClosedOnConnectionLoss
CHECK_DEADLOCK FALSE
