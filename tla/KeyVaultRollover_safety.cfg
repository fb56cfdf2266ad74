CONSTANTS
    r1 = r1
    r2 = r2
    r3 = r3
    sA = sA
    sB = sB
    Replicas <- MCReplicas3
    UninitVersion = {0, 1}
    MaxPuts = 3
    Hsm = TRUE
    Signer <- Upgrade3
    InitVault <- EmptyVault
    MaxRestarts = 1
SPECIFICATION Spec
INVARIANT TypeOK
INVARIANT ServedKeysInVault
SYMMETRY OldBuildSymmetry
