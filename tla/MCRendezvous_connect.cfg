\* Two threads connect while instances of the service, one with a new key, are
\* stopped, crash and are replaced.
SPECIFICATION Spec
CONSTANTS
    h1 = h1
    h2 = h2
    k1 = k1
    k2 = k2
    t1 = t1
    t2 = t2
    Hosts = {h1, h2}
    Keys = {k1, k2}
    KeyOf <- SecondIsNew
    Threads = {t1, t2}
    Policy = "TrustOnFirstUse"
    Allowed = {}
    Overlap = FALSE
    MaxConns = 2
SYMMETRY ThreadSymmetry
INVARIANTS TypeOK AuthenticatedPeer PinnedBeforeUse PinHonoured SocketIsOurs
CHECK_DEADLOCK FALSE
