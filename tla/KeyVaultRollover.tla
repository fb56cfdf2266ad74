--------------------------- MODULE KeyVaultRollover ---------------------------
(***************************************************************************)
(* Server replicas that share one Azure Key Vault key through the         *)
(* secret-store key providers, on top of the two-slot KeyProvider         *)
(* (confmsg/shared/keyprovider.h): KeyVaultProvider (a vault secret,      *)
(* server/enclave/key_vault_provider.cc) or, when Hsm is TRUE,            *)
(* KeyVaultHsmProvider (an HSM key released only to enclaves whose signer *)
(* its release policy names, server/enclave/key_vault_hsm_provider.cc).   *)
(*                                                                         *)
(* Each replica runs two callers of DoRefreshKey that share its provider  *)
(* without a lock: the refresher (the host's background thread through    *)
(* EnclaveMaybeRefreshKey, which is also the caller of Initialize when    *)
(* the replica starts) and a request thread (Server::HandleRequest, which *)
(* does a sync-only refresh when a client presents a newer key version    *)
(* than the replica's current one).                                        *)
(*                                                                         *)
(* A call is split at its network round trips: FetchKey's GET (or, for    *)
(* the HSM, attestation and export) of the latest version, and            *)
(* UpdateKey's PUT (or create and exact-version export) of a new version, *)
(* whose reply may be lost after the vault stored it.  Key material is a  *)
(* number naming the vault entry that holds it; 0 is the zero-filled key  *)
(* the provider is constructed with.  A fetch that fails throws without   *)
(* changing any state, so it is not a step of its own.                    *)
(***************************************************************************)
EXTENDS Naturals, Sequences, SequencesExt

CONSTANTS
    Replicas,       \* server instances sharing the vault key
    UninitVersion,  \* values the uninitialised uint32 version slots may hold
    MaxPuts,        \* bound on the versions stored in the vault
    Hsm,            \* TRUE: KeyVaultHsmProvider, FALSE: KeyVaultProvider
    Signer,         \* each replica's enclave MRSIGNER
    InitVault,      \* the versions stored before these replicas started
    MaxRestarts     \* bound on replica restarts

VARIABLES
    vault,        \* the key's versions, oldest first: [key, version, policy]
    curK, curV,   \* KeyProvider::current_key / current_key_version
    prevK, prevV, \* KeyProvider::previous_key / previous_key_version
    initialized,  \* KeyProvider::initialized
    wk,           \* per caller: where its DoRefreshKey call is
    served,       \* history: the keys each replica has held as current
    advertised,   \* history: versions some replica has held as current
    restarts      \* replica restarts so far

vars == <<vault, curK, curV, prevK, prevV, initialized, wk, served, advertised, restarts>>

Roles == {"refresher", "request"}
Workers == Replicas \X Roles

\* KeyVaultKey / KeyVaultHsmKey: a fetch result with its status.
Result(status, k, v) == [status |-> status, key |-> k, version |-> v]
NotFound == Result("notfound", 0, 0)
Denied == Result("denied", 0, 0)

Idle == [pc |-> "idle", sync |-> FALSE, init |-> FALSE,
         fetched |-> NotFound, branch |-> "none", newVersion |-> 0, newKey |-> 0]

\* A key slot's content as a (key, version) pair.
Entry(k, v) == [key |-> k, version |-> v]

\* Mutant: the release policy is not enforced on export
ReleasedIgnoringPolicy(r, e) == TRUE

\* HSM export (hsm lines 156-186): the attestation of replica r's enclave
\* meets entry e's release policy only if the policy names r's signer;
\* otherwise the export is refused with 403.  The soft vault has no policy.
Released(r, e) == ~Hsm \/ e.policy = Signer[r]

\* FetchKey() of the latest version: 404 when the vault holds none.
FetchLatest(r) ==
    IF vault = <<>> THEN NotFound
    ELSE IF ~Released(r, Last(vault)) THEN Denied
    ELSE Result("ok", Last(vault).key, Last(vault).version)

\* The entry a PUT (soft) or create (HSM, with a release policy naming the
\* creating enclave's signer, hsm lines 240-264) stores.
NewEntry(w) ==
    [key |-> Len(vault) + 1, version |-> wk[w].newVersion, policy |-> Signer[w[1]]]

Init ==
    /\ vault = InitVault
    /\ curK = [r \in Replicas |-> 0]
    /\ prevK = [r \in Replicas |-> 0]
    /\ curV \in [Replicas -> UninitVersion]
    /\ prevV \in [Replicas -> UninitVersion]
    /\ initialized = [r \in Replicas |-> FALSE]
    /\ wk = [w \in Workers |-> Idle]
    /\ served = [r \in Replicas |-> <<>>]
    /\ advertised = {}
    /\ restarts = 0

\* The key slots of replica r take key k, under version v, as current;
\* from now on its KeyResponses can give clients version v.
Record(r, k, v) ==
    /\ served' = [served EXCEPT ![r] = IF @ # <<>> /\ Last(@) = k THEN @ ELSE Append(@, k)]
    /\ advertised' = advertised \cup {v}

\* Lines 61-64 and 74-77: current moves to previous, the new key is current.
Rotate(r, k, v) ==
    /\ prevV' = [prevV EXCEPT ![r] = curV[r]]
    /\ prevK' = [prevK EXCEPT ![r] = curK[r]]
    /\ curV' = [curV EXCEPT ![r] = v]
    /\ curK' = [curK EXCEPT ![r] = k]
    /\ Record(r, k, v)

\* Lines 52-53: a version-1 key is stored without touching the previous slot.
Install(r, k, v) ==
    /\ curV' = [curV EXCEPT ![r] = v]
    /\ curK' = [curK EXCEPT ![r] = k]
    /\ UNCHANGED <<prevK, prevV>>
    /\ Record(r, k, v)

\* DoRefreshKey returns; when it ran inside Initialize, the provider is
\* marked initialized (keyprovider.h, Initialize).
Finish(w) ==
    /\ wk' = [wk EXCEPT ![w] = Idle]
    /\ initialized' = IF wk[w].init THEN [initialized EXCEPT ![w[1]] = TRUE]
                                    ELSE initialized

\* The call goes on to store a new version.
StartPut(w, branch, v) ==
    /\ wk' = [wk EXCEPT ![w].pc = "putting", ![w].branch = branch, ![w].newVersion = v]
    /\ UNCHANGED <<curK, curV, prevK, prevV, initialized, served, advertised>>

----------------------------------------------------------------------------
(* Steps of one DoRefreshKey call                                          *)

\* A call starts and fetches the latest version.  The refresher's first
\* call is Initialize's RefreshKey(false); later its sync_only is decided
\* by the key's age (modelled in RefreshTimer), so either.  The request
\* thread calls RefreshKey(true) (api.cc:143-145, HandleRequest) when a
\* client's key_version is above the current one: any version some replica
\* has ever served, including one since reset to 1 or lost in a restart,
\* as clients keep the version they learnt.
Fetch(w) ==
    LET r == w[1] IN
    /\ wk[w].pc = "idle"
    /\ \/ /\ w[2] = "refresher"
          /\ \E sync \in IF initialized[r] THEN BOOLEAN ELSE {FALSE} :
                wk' = [wk EXCEPT ![w] = [Idle EXCEPT !.pc = "fetched", !.sync = sync,
                          !.init = ~initialized[r], !.fetched = FetchLatest(r)]]
       \/ /\ w[2] = "request"
          /\ initialized[r]
          /\ \E v \in advertised : v > curV[r]
          /\ wk' = [wk EXCEPT ![w] = [Idle EXCEPT !.pc = "fetched", !.sync = TRUE,
                                                  !.fetched = FetchLatest(r)]]
    /\ UNCHANGED <<vault, curK, curV, prevK, prevV, initialized, served, advertised>>

\* Mutant: the initial version stored for a missing key is 0
DecideNotFoundZero(w) ==
    LET r == w[1]
        f == wk[w].fetched
    IN
    /\ wk[w].pc = "fetched"
    /\ \/ /\ f.status = "notfound"
          /\ StartPut(w, "reset", 0)
       \/ /\ f.status = "ok"
          /\ ~initialized[r] \/ f.version > curV[r]
          /\ Rotate(r, f.key, f.version)
          /\ Finish(w)
       \/ /\ f.status = "ok"
          /\ initialized[r] /\ f.version <= curV[r]
          /\ wk[w].sync
          /\ Finish(w)
          /\ UNCHANGED <<curK, curV, prevK, prevV, served, advertised>>
       \/ /\ f.status = "ok"
          /\ initialized[r] /\ f.version <= curV[r]
          /\ ~wk[w].sync
          /\ StartPut(w, "rollover", curV[r] + 1)
    /\ UNCHANGED vault

\* Lines 49-79 (hsm lines 70-76 and 93-115): what to do with the fetched
\* version, decided on the replica's slots as they are after the fetch.
Decide(w) ==
    LET r == w[1]
        f == wk[w].fetched
    IN
    /\ wk[w].pc = "fetched"
    /\ \/ /\ f.status = "notfound"                          \* lines 49-51
          /\ StartPut(w, "reset", 1)
       \/ /\ f.status = "ok"                                \* lines 60-65
          /\ ~initialized[r] \/ f.version > curV[r]
          /\ Rotate(r, f.key, f.version)
          /\ Finish(w)
       \/ /\ f.status = "ok"                                \* lines 69-70
          /\ initialized[r] /\ f.version <= curV[r]
          /\ wk[w].sync
          /\ Finish(w)
          /\ UNCHANGED <<curK, curV, prevK, prevV, served, advertised>>
       \/ /\ f.status = "ok"                                \* lines 72-73
          /\ initialized[r] /\ f.version <= curV[r]
          /\ ~wk[w].sync
          /\ StartPut(w, "rollover", curV[r] + 1)
    /\ UNCHANGED vault

\* hsm lines 77-91: the export was refused.  A sync-only call throws
\* logic_error and ends with no change; otherwise the provider creates a
\* new version-1 key under its own signer's policy.
DecideDenied(w) ==
    /\ wk[w].pc = "fetched"
    /\ wk[w].fetched.status = "denied"
    /\ \/ /\ wk[w].sync
          /\ wk' = [wk EXCEPT ![w] = Idle]
          /\ UNCHANGED <<curK, curV, prevK, prevV, initialized, served, advertised>>
       \/ /\ ~wk[w].sync
          /\ StartPut(w, "reset", 1)
    /\ UNCHANGED vault

\* Mutant: a PUT that never reached the vault is treated as stored
PutAdoptingOnFailure(w) ==
    /\ wk[w].pc = "putting"
    /\ \/ /\ Len(vault) < MaxPuts
          /\ vault' = Append(vault, NewEntry(w))
          /\ wk' = [wk EXCEPT ![w].pc = "putDone", ![w].newKey = Len(vault) + 1]
       \/ /\ wk' = [wk EXCEPT ![w].pc = "putDone", ![w].newKey = Len(vault) + 1]
          /\ UNCHANGED vault
    /\ UNCHANGED <<curK, curV, prevK, prevV, initialized, served, advertised>>

\* UpdateKey (lines 114-145): a fresh random key is stored as the newest
\* version tagged newVersion.  The vault stores it and the reply returns
\* it, or the vault stores it and the reply (for the HSM, the create's
\* reply or the export of the exact version, hsm 268-295) is lost, or the
\* request fails before the vault sees it.  Either failure is a CurlError,
\* rethrown as KeyRefreshError (lines 80-81): the call ends with no change
\* to the replica.  The reply's tag equals the request's, so the checks at
\* line 139 (hsm 280 and 290) never throw.
Put(w) ==
    /\ wk[w].pc = "putting"
    /\ \/ /\ Len(vault) < MaxPuts
          /\ vault' = Append(vault, NewEntry(w))
          /\ \E replied \in BOOLEAN :
                wk' = [wk EXCEPT ![w] = IF replied
                                        THEN [@ EXCEPT !.pc = "putDone", !.newKey = Len(vault) + 1]
                                        ELSE Idle]
       \/ /\ wk' = [wk EXCEPT ![w] = Idle]
          /\ UNCHANGED vault
    /\ UNCHANGED <<curK, curV, prevK, prevV, initialized, served, advertised>>

\* Lines 52-54 and 74-78: the stored key becomes current.  The slots are
\* read now, after the PUT, not when newVersion was computed.
AdoptPut(w) ==
    LET r == w[1] IN
    /\ wk[w].pc = "putDone"
    /\ IF wk[w].branch = "reset"
       THEN Install(r, wk[w].newKey, wk[w].newVersion)
       ELSE Rotate(r, wk[w].newKey, wk[w].newVersion)
    /\ Finish(w)
    /\ UNCHANGED vault

\* A replica's server process stops and is started again (enclave.cc,
\* _EnclaveInitialize, lines 148-162): the enclave's memory is lost, the
\* new provider has the zero-filled keys and uninitialised versions of a
\* fresh KeyProvider, and both callers start over.  A call that was
\* waiting for a PUT's reply never adopts it, whether or not the vault
\* stored the version.  The vault keeps everything stored.
Restart(r) ==
    /\ restarts < MaxRestarts
    /\ restarts' = restarts + 1
    /\ curK' = [curK EXCEPT ![r] = 0]
    /\ prevK' = [prevK EXCEPT ![r] = 0]
    /\ \E v1, v2 \in UninitVersion :
          /\ curV' = [curV EXCEPT ![r] = v1]
          /\ prevV' = [prevV EXCEPT ![r] = v2]
    /\ initialized' = [initialized EXCEPT ![r] = FALSE]
    /\ wk' = [w \in Workers |-> IF w[1] = r THEN Idle ELSE wk[w]]
    /\ served' = [served EXCEPT ![r] = <<>>]
    /\ UNCHANGED <<vault, advertised>>

Next ==
    \/ /\ \E w \in Workers :
             Fetch(w) \/ Decide(w) \/ DecideDenied(w) \/ Put(w) \/ AdoptPut(w)
       /\ UNCHANGED restarts
    \/ \E r \in Replicas : Restart(r)

Spec == Init /\ [][Next]_vars

----------------------------------------------------------------------------
(* Properties                                                             *)

TypeOK ==
    /\ vault \in Seq([key : 1 .. MaxPuts, version : 1 .. MaxPuts,
                      policy : {Signer[r] : r \in Replicas}])
    /\ Len(vault) <= MaxPuts
    /\ curK \in [Replicas -> 0 .. MaxPuts] /\ prevK \in [Replicas -> 0 .. MaxPuts]
    /\ curV \in [Replicas -> UninitVersion \cup 1 .. MaxPuts]
    /\ prevV \in [Replicas -> UninitVersion \cup 1 .. MaxPuts]
    /\ initialized \in [Replicas -> BOOLEAN]
    /\ restarts \in 0 .. MaxRestarts
    /\ \A w \in Workers : wk[w].pc \in {"idle", "fetched", "putting", "putDone"}

\* A replica only ever serves a key that the vault holds under the version
\* the replica gives it and, for the HSM, under a release policy for the
\* replica's own enclave, whatever fetches and PUTs fail or lose their
\* replies: otherwise a client sent to another replica that syncs from the
\* vault could never be answered.
ServedKeysInVault ==
    \A r \in Replicas :
        initialized[r] =>
            \E i \in DOMAIN vault :
                /\ Entry(vault[i].key, vault[i].version) = Entry(curK[r], curV[r])
                /\ Hsm => vault[i].policy = Signer[r]

\* Spec section 5: replicas sharing a vault agree on the key of every
\* version, so that a client may send a request under a version it learnt
\* from one replica to any other.  Two replicas whose slots hold keys
\* under the same version hold the same key.
VersionDeterminesKey ==
    \A r1, r2 \in Replicas :
        \A s1 \in {Entry(curK[r1], curV[r1]), Entry(prevK[r1], prevV[r1])},
           s2 \in {Entry(curK[r2], curV[r2]), Entry(prevK[r2], prevV[r2])} :
            (s1.key # 0 /\ s2.key # 0 /\ s1.version = s2.version) => s1.key = s2.key

\* Spec section 4.2: after a rollover the previous key stays available for
\* one interval, so clients still on it get key_outdated rather than an
\* error.  The previous slot holds the key that was current just before
\* the current one.
PreviousIsLastServed ==
    \A r \in Replicas :
        Len(served[r]) >= 2 => prevK[r] = served[r][Len(served[r]) - 1]

=============================================================================
