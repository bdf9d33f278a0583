\* Two connections of one peer at a rate limit and at a prompt.
SPECIFICATION Spec
CONSTANTS
    c1 = c1
    c2 = c2
    p1 = p1
    u1 = u1
    Conns = {c1, c2}
    Peers = {p1}
    Endpoints = {"ask", "cert"}
    PeerOf <- SamePeer
    Uids = {u1}
    UidOf <- SameUid
    Tier <- TwoTiers
    HostPolicy = "TrustOnFirstUse"
    AllowedPeers = {}
    Creds <- Expiring
    HasPrompt = TRUE
    Unit = 2
    Rate = 1
    Burst = 1
    HsRate = 1
    HsBurst = 1
    DisconnectAfter = 1
    MaxTime = 4
SYMMETRY ConnSymmetry
INVARIANTS TypeOK RateBound SteadyNeverDelayed AdmissionBound AnswersConfined
CHECK_DEADLOCK FALSE
