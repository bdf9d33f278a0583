\* A get() beside a subscription, or a get_stream(), with a disconnect(), a
\* stopping host, writes that fail at the send timeout and frames that fail
\* the reader's checks: what do the callbacks see, and does everybody return?
SPECIFICATION FairSpec
CONSTANTS
    g1 = g1
    s1 = s1
    b1 = b1
    Gets = {g1}
    Streams = {s1}
    Subs = {b1}
    MaxSubscriptions = 1
    ReaderMayFail = TRUE
    SendTimeout = TRUE
    Mixes = {{g1, b1}, {s1}}
    MaxChunks = 1
    MaxPublish = 1
INVARIANTS TypeOK LastIsLast AtMostOneLateCallback OnlyTheLastIsLate NoSlotLeaks
PROPERTIES CallsReturn DisconnectReturns HostForgets
CHECK_DEADLOCK FALSE
