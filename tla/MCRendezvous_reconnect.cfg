\* A connection dies, its service restarts or not, and the Client calls again.
SPECIFICATION Spec
CONSTANTS
    h1 = h1
    h2 = h2
    k1 = k1
    k2 = k2
    t1 = t1
    t2 = t2
    Hosts = {h1, h2}
    Keys = {k1, k2}
    KeyOf <- SecondIsNew
    Threads = {t1}
    Policy = "AllowAll"
    Allowed = {}
    Overlap = FALSE
    MaxConns = 2
INVARIANT ReaderJoined
CHECK_DEADLOCK FALSE
