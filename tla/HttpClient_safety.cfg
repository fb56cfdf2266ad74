CONSTANTS
    t1 = t1
    t2 = t2
    Threads <- MCThreads
    Challenges <- MCChallenges
    AuthorityURL <- MCAuthority
    Resources <- MCResources
    VaultResource <- MCVaultResource
SPECIFICATION Spec
SYMMETRY ThreadSymmetry
INVARIANT NoSpuriousFailure
