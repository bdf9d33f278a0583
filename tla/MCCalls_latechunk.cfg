\* Has the callback had every chunk when get_stream() returns?
SPECIFICATION Spec
CONSTANTS
    g1 = g1
    s1 = s1
    b1 = b1
    Gets = {g1}
    Streams = {s1}
    Subs = {b1}
    MaxSubscriptions = 1
    ReaderMayFail = FALSE
    SendTimeout = FALSE
    Mixes = {{s1}}
    MaxChunks = 1
    MaxPublish = 1
INVARIANT StreamDelivered
CHECK_DEADLOCK FALSE
