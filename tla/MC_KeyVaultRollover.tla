------------------------- MODULE MC_KeyVaultRollover -------------------------
EXTENDS KeyVaultRollover, TLC

CONSTANTS r1, r2, r3, sA, sB

MCReplicas == {r1, r2}

MCSymmetry == Permutations(MCReplicas)

\* One build of the server: every replica's enclave has the same signer.
SameSigner == [r \in MCReplicas |-> sA]

\* A rolling upgrade to a build signed by another key: r1 still runs the
\* old build, r2 the new one.
TwoSigners == (r1 :> sA) @@ (r2 :> sB)

\* Three replicas during a rolling upgrade: r1 and r2 on the old build,
\* r3 on the new one.
MCReplicas3 == {r1, r2, r3}
Upgrade3 == (r1 :> sA) @@ (r2 :> sA) @@ (r3 :> sB)
\* r1 and r2 are interchangeable: same signer, same initial state.
OldBuildSymmetry == Permutations({r1, r2})

EmptyVault == << >>

\* The key as the old build left it: version 2, released to signer sA.
OldVault == << [key |-> 1, version |-> 2, policy |-> sA] >>
=============================================================================
