\* Small socket buffers and no send timeout: can the three
\* threads wait for each other?
SPECIFICATION Spec
CONSTANTS
    s1 = s1
    s2 = s2
    Senders = {s1, s2}
    Version = 2
    MaxEpoch = 2
    BufCap = 1
    WriteTimeout = FALSE
    RateLimits = FALSE
    MaxFrames = 4
    MaxReplies = 2
    MaxPublish = 0
INVARIANT NoWaitCycle
CHECK_DEADLOCK FALSE
