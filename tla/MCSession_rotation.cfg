\* Rotation and delivery with two client threads, a send timeout, a rate
\* limiter, disconnects and a stopping host.
SPECIFICATION FairSpec
CONSTANTS
    s1 = s1
    s2 = s2
    Senders = {s1, s2}
    Version = 2
    MaxEpoch = 2
    BufCap = 2
    WriteTimeout = TRUE
    RateLimits = TRUE
    MaxFrames = 3
    MaxReplies = 1
    MaxPublish = 1
INVARIANTS TypeOK NonceUnique HonestFramesAccepted DropsAreJustified KeysAgree ReasonDelivered
PROPERTIES HostToClientSpec ClientToHostSpec RotationSettles
CHECK_DEADLOCK FALSE
