\* Can the ack of a REKEY overtake the store of its ephemeral?
SPECIFICATION Spec
CONSTANTS
    s1 = s1
    s2 = s2
    Senders = {s1, s2}
    Version = 2
    MaxEpoch = 2
    BufCap = 12
    WriteTimeout = FALSE
    RateLimits = FALSE
    MaxFrames = 3
    MaxReplies = 1
    MaxPublish = 0
INVARIANT AckIsSolicited
CHECK_DEADLOCK FALSE
