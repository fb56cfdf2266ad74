CONSTANTS
    c1 = c1
    c2 = c2
    t1 = t1
    t2 = t2
    n0 = n0
    sid0 = sid0
    Clients <- MCClients
    Threads <- MCThreads
    ServerNonce <- n0
    Sid <- sid0
    VersionBits = 2
    UninitVersion = {0, 1, 2, 3}
    MaxRefresh = 2
    MaxMsgs = 3
    IVStart <- MCIVStart
SPECIFICATION Spec
INVARIANT NoNonceReuse
