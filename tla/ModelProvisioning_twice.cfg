CONSTANTS
    t1 = t1
    t2 = t2
    kModel = kModel
    kOther = kOther
    Threads <- MCThreads
    Keys <- MCKeys
    ModelKey = kModel
    NumOutputs = 2
SPECIFICATION Spec
SYMMETRY ThreadSymmetry
INVARIANT ProvisionedOnce
