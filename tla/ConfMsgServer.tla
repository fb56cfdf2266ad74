---------------------------- MODULE ConfMsgServer ----------------------------
(***************************************************************************)
(* The confmsg secure channel inside the enclave: one confmsg::Server     *)
(* (server/api.cc) with its RandomEd25519KeyProvider (keyprovider.h),     *)
(* the key-refresh path EnclaveMaybeRefreshKey (enclave/enclave.cc)        *)
(* running on the host's refresher thread, request threads running        *)
(* EnclaveHandleRequest -> RespondToMessage concurrently, and             *)
(* confmsg::Client instances (client/api.cc).                             *)
(*                                                                         *)
(* The code takes no lock: the provider's slots, the server's public keys *)
(* and its evidence are written by the refresher while request threads    *)
(* read them.  Each handler is therefore split at the points where it     *)
(* reads shared state, and each refresh at the points where it writes it. *)
(*                                                                         *)
(* Cryptography is abstracted to what the protocol relies on: a public    *)
(* key names its secret, X25519 of (a, pub b) is the unordered pair {a,b},*)
(* HKDF labels select a direction, AES-GCM opens only under the key, IV   *)
(* and additional data it was sealed with, and Ed25519 verifies only the  *)
(* message signed under the secret of the given public key.               *)
(***************************************************************************)
EXTENDS Naturals, FiniteSets

CONSTANTS
    Clients,        \* confmsg::Client instances; each one's secret is itself
    Threads,        \* enclave threads serving EnclaveHandleRequest
    ServerNonce,    \* Server::nonce, random at construction
    Sid,            \* Server::service_identifier
    VersionBits,    \* width of the uint32 key versions
    UninitVersion,  \* values the uninitialised current_key_version may hold
    MaxRefresh,     \* bound on non-sync refreshes
    MaxMsgs,        \* bound on messages each client sends
    IVStart         \* each client's random initial dynamic_iv

VARIABLES
    current_key, current_key_version,     \* KeyProvider slots; a server key
    previous_key, previous_key_version,   \* is a Nat, 0 the zero-filled one
    public_key, public_signing_key,       \* Server::MakePublicKeys output
    evidence,                             \* Server::evidence (the quote)
    keyGen,                               \* number of Randomize calls so far
    refreshPc,                            \* refresher's next statement
    refreshes,                            \* non-sync refreshes started
    thr,                                  \* per request thread
    cl,                                   \* per client
    inbox,                                \* client -> server, per client
    outbox,                               \* server -> client, per client
    versionOf,                            \* ghost: version each key was made for
    krSent,                               \* ghost: KeyResponses emitted
    accepted,                             \* ghost: KeyResponses clients accepted
    sealed,                               \* ghost: every AEAD sealing sent
    rejected                              \* ghost: requests answered CryptoError

providerVars == <<current_key, current_key_version, previous_key, previous_key_version>>
serverVars == <<public_key, public_signing_key, evidence, keyGen, refreshPc, refreshes>>
ghostVars == <<versionOf, krSent, accepted, sealed, rejected>>
vars == <<providerVars, serverVars, thr, cl, inbox, outbox, ghostVars>>

VMod == 2 ^ VersionBits
ServerKeys == 0 .. MaxRefresh + 1

----------------------------------------------------------------------------
(* Crypto primitives (shared/crypto.cc), by what they guarantee.          *)

X25519Pub(k) == [curve |-> "x25519", of |-> k]
Ed25519Pub(k) == [curve |-> "ed25519", of |-> k]
\* ComputeSharedSecretCurve25519(ours, theirs): symmetric in the two secrets
ComputeSharedSecret(ours, theirPub) == {ours, theirPub.of}
\* DeriveSymmetricKey(shared, server, key, iv): HKDF with role labels
SymmetricKey(shared, server) == [secret |-> shared, label |-> IF server THEN "server key" ELSE "client key"]
StaticIV(shared, server) == [secret |-> shared, label |-> IF server THEN "server iv" ELSE "client iv"]
\* static_iv XOR dynamic_iv: injective in the dynamic part
XorIV(siv, div) == <<siv, div>>

\* IV_SIZE (crypto.h): the dynamic IV is a 12-byte array.
IVSize == 12
ZeroIV == [i \in 1 .. IVSize |-> 0]

\* Mutant: the last byte is incremented without carrying into the others
IncrementIVNoCarry(iv) == [iv EXCEPT ![IVSize] = (@ + 1) % 256]

\* The loop of IncrementIV from byte i down: increment the uint8 byte and
\* stop unless it wrapped to zero.
RECURSIVE IncrementFrom(_, _)
IncrementFrom(iv, i) ==
    IF i = 0 THEN iv
    ELSE LET next == [iv EXCEPT ![i] = (@ + 1) % 256]
         IN IF next[i] # 0 THEN next ELSE IncrementFrom(next, i - 1)

\* IncrementIV: the dynamic IV as a big-endian counter, plus one.
IncrementIV(iv) == IncrementFrom(iv, IVSize)
Encrypt(key, iv, ad, plain) == [key |-> key, iv |-> iv, ad |-> ad, plain |-> plain]
Decrypts(key, iv, ad, ct) == ct.key = key /\ ct.iv = iv /\ ct.ad = ad
SignCurve25519(msg, k) == [signer |-> k, msg |-> msg]
VerifyCurve25519(msg, pub, sig) == pub = Ed25519Pub(sig.signer) /\ sig.msg = msg
\* GenerateQuote: report_data = SHA256(public_key || service_identifier)
GenerateQuote(pub) == [reportData |-> <<pub, Sid>>]

ClientNonce(c) == <<"nonce", c>>
\* request_callback: the application reply to a plaintext
Callback(plain) == <<"reply", plain>>

NoMsg == [type |-> "none"]
ErrorMsg == [type |-> "error"]

----------------------------------------------------------------------------
(* Server constructed: KeyProvider::Initialize ran one RefreshKey(false)  *)
(* over uninitialised version fields (no initialiser in keyprovider.h),    *)
(* so the first version is garbage + 1; then MakePublicKeys and           *)
(* UpdateEvidence.                                                         *)
\* Server::Server: after the provider's Initialize, MakePublicKeys and
\* UpdateEvidence publish the first key's share, signing key and quote.
ServerInit ==
    /\ public_key = X25519Pub(1)
    /\ public_signing_key = Ed25519Pub(1)
    /\ evidence = GenerateQuote(X25519Pub(1))

Init ==
    /\ previous_key_version \in UninitVersion
    /\ current_key_version = (previous_key_version + 1) % VMod
    /\ previous_key = 0
    /\ current_key = 1
    /\ keyGen = 1
    /\ ServerInit
    /\ refreshPc = "idle"
    /\ refreshes = 0
    /\ thr = [t \in Threads |-> [pc |-> "free"]]
    /\ cl = [c \in Clients |-> [st |-> "idle", keyed |-> FALSE, sent |-> 0, dyn |-> IVStart[c],
                                in_key |-> "none", out_key |-> "none", static_iv |-> "none",
                                server_nonce |-> "none", key_version |-> VMod - 1,
                                result |-> "none"]]
    /\ inbox = [c \in Clients |-> NoMsg]
    /\ outbox = [c \in Clients |-> NoMsg]
    /\ versionOf = [k \in {1} |-> current_key_version]
    /\ krSent = {}
    /\ accepted = {}
    /\ sealed = {}
    /\ rejected = {}

----------------------------------------------------------------------------
(* Refresher: EnclaveMaybeRefreshKey with sync_only false (with sync_only *)
(* true RandomEd25519KeyProvider::DoRefreshKey returns false and nothing   *)
(* changes) -> Server::RefreshKey -> DoRefreshKey, MakePublicKeys,        *)
(* UpdateEvidence.                                                         *)

\* Mutant: the refresh forgets to keep the old key in the previous slot
RefreshRotateVersionOnly ==
    /\ refreshPc = "idle"
    /\ refreshes < MaxRefresh
    /\ previous_key_version' = current_key_version
    /\ refreshPc' = "incVersion"
    /\ refreshes' = refreshes + 1
    /\ UNCHANGED <<current_key, current_key_version, previous_key, public_key,
                   public_signing_key, evidence, keyGen, thr, cl, inbox, outbox, ghostVars>>

RefreshRotateSlots ==
    /\ refreshPc = "idle"
    /\ refreshes < MaxRefresh
    /\ previous_key_version' = current_key_version
    /\ previous_key' = current_key
    /\ refreshPc' = "incVersion"
    /\ refreshes' = refreshes + 1
    /\ UNCHANGED <<current_key, current_key_version, public_key, public_signing_key,
                   evidence, keyGen, thr, cl, inbox, outbox, ghostVars>>

\* Mutant: the version counter is widened past the uint32 of the wire format
RefreshIncVersionUnbounded ==
    /\ refreshPc = "incVersion"
    /\ current_key_version' = current_key_version + 1
    /\ refreshPc' = "randomize"
    /\ UNCHANGED <<current_key, previous_key, previous_key_version, public_key,
                   public_signing_key, evidence, keyGen, refreshes, thr, cl,
                   inbox, outbox, ghostVars>>

RefreshIncVersion ==
    /\ refreshPc = "incVersion"
    /\ current_key_version' = (current_key_version + 1) % VMod
    /\ refreshPc' = "randomize"
    /\ UNCHANGED <<current_key, previous_key, previous_key_version, public_key,
                   public_signing_key, evidence, keyGen, refreshes, thr, cl,
                   inbox, outbox, ghostVars>>

\* Randomize(current_key) and the RFC 8032 clamping: fresh key material
RefreshRandomize ==
    /\ refreshPc = "randomize"
    /\ keyGen' = keyGen + 1
    /\ current_key' = keyGen + 1
    /\ versionOf' = [k \in DOMAIN versionOf \cup {keyGen + 1} |->
                        IF k = keyGen + 1 THEN current_key_version ELSE versionOf[k]]
    /\ refreshPc' = "makePublicKeys"
    /\ UNCHANGED <<current_key_version, previous_key, previous_key_version, public_key,
                   public_signing_key, evidence, refreshes, thr, cl, inbox, outbox,
                   krSent, accepted, sealed, rejected>>

MakePublicKeys ==
    /\ refreshPc = "makePublicKeys"
    /\ public_key' = X25519Pub(current_key)
    /\ public_signing_key' = Ed25519Pub(current_key)
    /\ refreshPc' = "updateEvidence"
    /\ UNCHANGED <<providerVars, evidence, keyGen, refreshes, thr, cl, inbox, outbox, ghostVars>>

UpdateEvidence ==
    /\ refreshPc = "updateEvidence"
    /\ evidence' = GenerateQuote(public_key)
    /\ refreshPc' = "idle"
    /\ UNCHANGED <<providerVars, public_key, public_signing_key, keyGen, refreshes,
                   thr, cl, inbox, outbox, ghostVars>>

----------------------------------------------------------------------------
(* Request threads: RespondToMessage dispatching on the body type.        *)

\* HandleKeyRequest up to SignCurve25519(msg, GetCurrentKey())
HandleKeyRequestSign(t, c) ==
    /\ thr[t].pc = "free"
    /\ inbox[c].type = "KeyRequest"
    /\ thr' = [thr EXCEPT ![t] = [pc |-> "signed", client |-> c,
                  sig |-> SignCurve25519(<<Sid, inbox[c].nonce>>, current_key)]]
    /\ inbox' = [inbox EXCEPT ![c] = NoMsg]
    /\ UNCHANGED <<providerVars, serverVars, cl, outbox, ghostVars>>

\* rest of HandleKeyRequest: reads public keys, version and evidence
HandleKeyRequestEmit(t) ==
    LET c == thr[t].client
        kr == [type |-> "KeyResponse", nonce |-> ServerNonce, sid |-> Sid,
               server_share |-> public_key, server_signature_share |-> public_signing_key,
               signature |-> thr[t].sig, lifetime_hint |-> 0,
               key_version |-> current_key_version, authenticator |-> evidence]
    IN /\ thr[t].pc = "signed"
       /\ outbox' = [outbox EXCEPT ![c] = kr]
       /\ krSent' = krSent \cup {kr}
       /\ thr' = [thr EXCEPT ![t] = [pc |-> "free"]]
       /\ UNCHANGED <<providerVars, serverVars, cl, inbox, versionOf, accepted, sealed, rejected>>

\* The key a client sealed its request for (the server half of its secret)
IntendedKey(m) == CHOOSE k \in m.ciphertext.key.secret : k \notin Clients

\* Whether a provider slot still holds key k under version v
KeyHeld(v, k) ==
    \/ v = current_key_version /\ k = current_key
    \/ v = previous_key_version /\ k = previous_key

Reject(t, c, m, stage) ==
    /\ outbox' = [outbox EXCEPT ![c] = ErrorMsg]
    /\ rejected' = rejected \cup {[client |-> c, key_version |-> m.key_version, stage |-> stage,
                                    held |-> KeyHeld(m.key_version, IntendedKey(m))]}
    /\ thr' = [thr EXCEPT ![t] = [pc |-> "free"]]

\* HandleRequest up to GetKey(key_version): the version check with its
\* sync-only refresh (a no-op for this provider) and the slot lookup.
\* GetKey returns a reference to the slot; its bytes are read later.
HandleRequestGetKey(t, c) ==
    LET m == inbox[c]
        v == m.key_version
    IN /\ thr[t].pc = "free"
       /\ m.type = "Request"
       /\ inbox' = [inbox EXCEPT ![c] = NoMsg]
       /\ IF v > current_key_version \/ v \notin {current_key_version, previous_key_version}
          THEN Reject(t, c, m, "version")
          ELSE /\ thr' = [thr EXCEPT ![t] = [pc |-> "gotKey", client |-> c, msg |-> m,
                             slot |-> IF v = current_key_version THEN "current" ELSE "previous"]]
               /\ UNCHANGED <<outbox, rejected>>
       /\ UNCHANGED <<providerVars, serverVars, cl, versionOf, krSent, accepted, sealed>>

\* ComputeSharedSecret over the slot's bytes, Decrypt, request_callback
HandleRequestDecrypt(t) ==
    LET c == thr[t].client
        m == thr[t].msg
        bytes == IF thr[t].slot = "current" THEN current_key ELSE previous_key
        shared == ComputeSharedSecret(bytes, m.client_share)
        xor_iv == XorIV(StaticIV(shared, FALSE), m.iv)
    IN /\ thr[t].pc = "gotKey"
       /\ IF Decrypts(SymmetricKey(shared, FALSE), xor_iv, m.additional_data, m.ciphertext)
          THEN /\ thr' = [thr EXCEPT ![t] = [pc |-> "replied", client |-> c, msg |-> m,
                             shared |-> shared, plain |-> Callback(m.ciphertext.plain)]]
               /\ UNCHANGED <<outbox, rejected>>
          ELSE Reject(t, c, m, "decrypt")
       /\ UNCHANGED <<providerVars, serverVars, cl, inbox, versionOf, krSent, accepted, sealed>>

\* KeyProvider::IsKeyOutdated: false for the current version, true for the
\* previous one, CryptoError for any other.
KeyVersionKnown(v) == v \in {current_key_version, previous_key_version}
IsKeyOutdated(v) == v # current_key_version

\* Mutant: the reply is sealed with the client-direction key and IV
HandleRequestEncryptClientLabel(t) ==
    LET c == thr[t].client
        m == thr[t].msg
        v == m.key_version
        siv == XorIV(StaticIV(thr[t].shared, FALSE), ZeroIV)
        ct == Encrypt(SymmetricKey(thr[t].shared, FALSE), siv, ServerNonce, thr[t].plain)
    IN /\ thr[t].pc = "replied"
       /\ IF KeyVersionKnown(v)
          THEN /\ outbox' = [outbox EXCEPT ![c] =
                     [type |-> "Response", key_outdated |-> IsKeyOutdated(v),
                      iv |-> siv, additional_data |-> ServerNonce, ciphertext |-> ct]]
               /\ sealed' = sealed \cup {ct}
               /\ thr' = [thr EXCEPT ![t] = [pc |-> "free"]]
               /\ UNCHANGED rejected
          ELSE /\ Reject(t, c, m, "outdated")
               /\ UNCHANGED sealed
       /\ UNCHANGED <<providerVars, serverVars, cl, inbox, versionOf, krSent, accepted>>

\* Encrypt the reply under the server-direction key and its static IV (as
\* bytes, static_iv XOR the all-zero dynamic IV), then
\* IsKeyOutdated(key_version), which throws when the version is gone.
HandleRequestEncrypt(t) ==
    LET c == thr[t].client
        m == thr[t].msg
        v == m.key_version
        siv == XorIV(StaticIV(thr[t].shared, TRUE), ZeroIV)
        ct == Encrypt(SymmetricKey(thr[t].shared, TRUE), siv, ServerNonce, thr[t].plain)
    IN /\ thr[t].pc = "replied"
       /\ IF KeyVersionKnown(v)
          THEN /\ outbox' = [outbox EXCEPT ![c] =
                     [type |-> "Response", key_outdated |-> IsKeyOutdated(v),
                      iv |-> siv, additional_data |-> ServerNonce, ciphertext |-> ct]]
               /\ sealed' = sealed \cup {ct}
               /\ thr' = [thr EXCEPT ![t] = [pc |-> "free"]]
               /\ UNCHANGED rejected
          ELSE /\ Reject(t, c, m, "outdated")
               /\ UNCHANGED sealed
       /\ UNCHANGED <<providerVars, serverVars, cl, inbox, versionOf, krSent, accepted>>

----------------------------------------------------------------------------
(* Clients (client/api.cc).  A client is used by one caller at a time:    *)
(* it sends a message and waits for the transport's answer.               *)

MakeKeyRequest(c) ==
    /\ cl[c].st = "idle"
    /\ cl[c].sent < MaxMsgs
    /\ inbox' = [inbox EXCEPT ![c] = [type |-> "KeyRequest", nonce |-> ClientNonce(c)]]
    /\ cl' = [cl EXCEPT ![c].st = "waitKR", ![c].sent = @ + 1]
    /\ UNCHANGED <<providerVars, serverVars, thr, outbox, ghostVars>>

\* MakeRequest: seal under out key with static_iv XOR dynamic_iv, then
\* IncrementIV(dynamic_iv).  The plaintext names the client and the count.
MakeRequest(c) ==
    LET k == cl[c]
        ct == Encrypt(k.out_key, XorIV(k.static_iv, k.dyn), k.server_nonce, <<c, k.sent>>)
    IN /\ k.st = "idle"
       /\ k.keyed
       /\ k.sent < MaxMsgs
       /\ inbox' = [inbox EXCEPT ![c] = [type |-> "Request", key_version |-> k.key_version,
                        iv |-> k.dyn, client_share |-> X25519Pub(c),
                        additional_data |-> k.server_nonce, ciphertext |-> ct]]
       /\ sealed' = sealed \cup {ct}
       /\ cl' = [cl EXCEPT ![c].st = "waitResp", ![c].sent = @ + 1, ![c].dyn = IncrementIV(@)]
       /\ UNCHANGED <<providerVars, serverVars, thr, outbox, versionOf, krSent, accepted, rejected>>

\* Client::VerifyQuote: the platform and identity checks (quote
\* authenticity, enclave hash and signer, product id, security version)
\* pass for the genuine enclave's quotes and are taken as passing; what
\* decides is that report_data hashes the advertised share together with
\* the service identifier.
VerifyQuote(quote, spub, sid) == quote.reportData = <<spub, sid>>

\* HandleKeyResponse: signature over service_identifier || own nonce, quote
\* bound to the advertised share, then key derivation.  The message is the
\* transport's answer or, substituted on the way, any KeyResponse the
\* server ever sent.
HandleKeyResponse(c) ==
    /\ cl[c].st = "waitKR"
    /\ outbox[c] # NoMsg
    /\ outbox' = [outbox EXCEPT ![c] = NoMsg]
    /\ \E m \in ({outbox[c]} \cup krSent) \ {ErrorMsg} :
          IF /\ VerifyCurve25519(<<m.sid, ClientNonce(c)>>, m.server_signature_share, m.signature)
             /\ VerifyQuote(m.authenticator, m.server_share, m.sid)
          THEN LET shared == ComputeSharedSecret(c, m.server_share)
               IN /\ cl' = [cl EXCEPT ![c] = [@ EXCEPT !.st = "idle", !.keyed = TRUE,
                              !.server_nonce = m.nonce,
                              !.in_key = SymmetricKey(shared, TRUE),
                              !.out_key = SymmetricKey(shared, FALSE),
                              !.static_iv = StaticIV(shared, FALSE),
                              !.key_version = m.key_version]]
                  /\ accepted' = accepted \cup {[client |-> c, kr |-> m]}
          ELSE /\ cl' = [cl EXCEPT ![c].st = "idle"]
               /\ UNCHANGED accepted
    /\ UNCHANGED <<providerVars, serverVars, thr, inbox, versionOf, krSent, sealed, rejected>>

\* An error status from EnclaveHandleRequest ends the call; keys are kept.
HandleError(c) ==
    /\ cl[c].st \in {"waitKR", "waitResp"}
    /\ outbox[c] = ErrorMsg
    /\ outbox' = [outbox EXCEPT ![c] = NoMsg]
    /\ cl' = [cl EXCEPT ![c].st = "idle"]
    /\ UNCHANGED <<providerVars, serverVars, thr, inbox, ghostVars>>

HandleResponse(c) ==
    LET m == outbox[c]
    IN /\ cl[c].st = "waitResp"
       /\ m.type = "Response"
       /\ outbox' = [outbox EXCEPT ![c] = NoMsg]
       /\ cl' = [cl EXCEPT ![c].st = "idle",
                   ![c].result = IF Decrypts(cl[c].in_key, m.iv, m.additional_data, m.ciphertext)
                                 THEN [plain |-> m.ciphertext.plain, key_outdated |-> m.key_outdated]
                                 ELSE "error"]
       /\ UNCHANGED <<providerVars, serverVars, thr, inbox, ghostVars>>

----------------------------------------------------------------------------
\* Every client has used its messages and every thread is idle.
Finished ==
    /\ \A c \in Clients : cl[c].st = "idle" /\ cl[c].sent = MaxMsgs
    /\ \A t \in Threads : thr[t].pc = "free"
    /\ refreshPc = "idle"
    /\ UNCHANGED vars

\* Client::HandleMessage: dispatch an answer by its body type.
ClientHandleMessage(c) == HandleKeyResponse(c) \/ HandleResponse(c)

Next ==
    \/ RefreshRotateSlots \/ RefreshIncVersion \/ RefreshRandomize
    \/ MakePublicKeys \/ UpdateEvidence
    \/ \E t \in Threads :
          \/ HandleKeyRequestEmit(t) \/ HandleRequestDecrypt(t) \/ HandleRequestEncrypt(t)
          \/ \E c \in Clients : HandleKeyRequestSign(t, c) \/ HandleRequestGetKey(t, c)
    \/ \E c \in Clients :
          \/ MakeKeyRequest(c) \/ MakeRequest(c) \/ ClientHandleMessage(c)
          \/ HandleError(c)
    \/ Finished

Spec == Init /\ [][Next]_vars

----------------------------------------------------------------------------
(* Properties                                                             *)

TypeOK ==
    /\ {current_key, previous_key} \subseteq ServerKeys
    /\ {current_key_version, previous_key_version} \subseteq 0 .. VMod - 1
    /\ public_key \in {X25519Pub(k) : k \in ServerKeys}
    /\ public_signing_key \in {Ed25519Pub(k) : k \in ServerKeys}
    /\ refreshPc \in {"idle", "incVersion", "randomize", "makePublicKeys", "updateEvidence"}
    /\ keyGen \in ServerKeys /\ refreshes \in 0 .. MaxRefresh
    /\ \A t \in Threads : thr[t].pc \in {"free", "signed", "gotKey", "replied"}
    /\ \A c \in Clients : /\ cl[c].st \in {"idle", "waitKR", "waitResp"}
                          /\ cl[c].sent \in 0 .. MaxMsgs
                          /\ cl[c].dyn \in [1 .. IVSize -> 0 .. 255]
                          /\ cl[c].key_version \in 0 .. VMod - 1
    /\ \A c \in Clients : inbox[c].type \in {"none", "KeyRequest", "Request"}
    /\ \A c \in Clients : outbox[c].type \in {"none", "error", "KeyResponse", "Response"}

\* Reply path: a Response waiting for a client opens under the in key that
\* client derived, and carries the callback's answer to the request the
\* client sent last, although the server's slots may have been rotated
\* between decrypting the request and sealing the reply.
ResponseOpensAtClient ==
    \A c \in Clients :
        (outbox[c].type = "Response" /\ cl[c].st = "waitResp") =>
            /\ Decrypts(cl[c].in_key, outbox[c].iv, outbox[c].additional_data, outbox[c].ciphertext)
            /\ outbox[c].ciphertext.plain = Callback(<<c, cl[c].sent - 1>>)

\* Spec section 3 and property 9: what a KeyResponse advertises is
\* consistent with one key: the X25519 share the client derives its keys
\* from belongs to the key that signed it, and key_version is that key's
\* version.  A client accepting anything else holds a session whose
\* requests the server cannot open.
HandshakeConsistent ==
    \A a \in accepted :
        /\ a.kr.server_share = X25519Pub(a.kr.signature.signer)
        /\ versionOf[a.kr.signature.signer] = a.kr.key_version

\* Reference for the counter: the big-endian successor of byte array s is
\* s with its last byte below 255 raised by one and every byte after it
\* zero; the successor of all 255s is all zeros.
NextBigEndian(s) ==
    LET below == {j \in DOMAIN s : s[j] < 255}
        j0 == CHOOSE j \in below : \A k \in below : k <= j
    IN IF below = {} THEN [j \in DOMAIN s |-> 0]
       ELSE [j \in DOMAIN s |-> IF j < j0 THEN s[j] ELSE IF j = j0 THEN s[j] + 1 ELSE 0]

RECURSIVE AdvancedBy(_, _)
AdvancedBy(s, n) == IF n = 0 THEN s ELSE AdvancedBy(NextBigEndian(s), n - 1)

\* The requests client c has sealed (under its client-direction key).
RequestsSealedBy(c) ==
    {x \in sealed : x.key.label = "client key" /\ x.plain[1] = c}

\* Client::MakeRequest (client/api.cc:233-252) seals each request under
\* static_iv XOR dynamic_iv and then runs IncrementIV on dynamic_iv, which
\* starts random (line 42): a client's dynamic IV is its start advanced by
\* one big-endian step per request sealed, carries across bytes included,
\* so no two of its requests under one key share an IV until 2^96 of them.
DynamicIVCountsRequests ==
    \A c \in Clients :
        cl[c].dyn = AdvancedBy(IVStart[c], Cardinality(RequestsSealedBy(c)))

\* AES-GCM needs a fresh IV per key (spec section 9): no two sealings sent
\* on the wire, by clients or by the server, share a key and an IV.
NoNonceReuse ==
    \A x, y \in sealed : (x.key = y.key /\ x.iv = y.iv) => x = y

\* Spec S2 and section 5: the server answers CryptoError to a request only
\* when neither slot holds, under the request's key_version, the key the
\* client sealed for; a request made before one rollover still opens.
RejectOnlyStaleKeys ==
    \A r \in rejected : ~r.held

----------------------------------------------------------------------------
(* The provider, seen at the points where a refresh is committed, is the  *)
(* abstract two-slot rotation.  During a refresh the new key and version  *)
(* are those the remaining statements will install.                       *)
AbsCurrentKey == IF refreshPc \in {"incVersion", "randomize"} THEN keyGen + 1 ELSE current_key
AbsCurrentVersion == IF refreshPc = "incVersion" THEN (current_key_version + 1) % VMod
                     ELSE current_key_version

Rotation == INSTANCE KeyRotation WITH
    current_key <- AbsCurrentKey, current_key_version <- AbsCurrentVersion,
    KeyMaterial <- ServerKeys

\* The four statements of DoRefreshKey together implement one rotation.
RotationRefined == Rotation!Spec

=============================================================================
