CONSTANTS
    t1 = t1
    t2 = t2
    kModel = kModel
    kOther = kOther
    Threads <- MCThreads
    Keys <- MCKeys
    ModelKey = kModel
    NumOutputs = 2
    Inputs <- MCInputs
    Files <- MCFiles
    Concurrency = {0, 2}
    AuthKeys = {"ka"}
    TCSCount = 2
    MessageChars <- MCMessageChars
    MaxMessage = 2
SPECIFICATION HostSpec
SYMMETRY ThreadSymmetry
INVARIANT HostTypeOK
INVARIANT ServingRetryPossible
INVARIANT ProvisionOnlyWhenConfigured
INVARIANT EscapeRoundTrip
