CONSTANTS
    r1 = r1
    r2 = r2
    r3 = r3
    sA = sA
    sB = sB
    Replicas <- MCReplicas
    UninitVersion = {0, 1}
    MaxPuts = 4
    Hsm = FALSE
    Signer <- SameSigner
    InitVault <- EmptyVault
    MaxRestarts = 0
SPECIFICATION Spec
SYMMETRY MCSymmetry
INVARIANT PreviousIsLastServed
