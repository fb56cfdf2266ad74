# TLA+ models of the confidential ONNX inference server

These modules model the concurrency and protocol logic of
`src/external/confmsg` (the confmsg secure-messaging library) and of
`src/confonnx/server` (the enclave host and enclave around it). They are
checked with TLC.

## 1. The system: parts, state and interactions

| Part | Source | State | Operations (state changes) |
|---|---|---|---|
| Crypto primitives (C1) | `confmsg/shared/crypto.cc` | none | X25519/Ed25519 public keys, ECDH, HKDF key/IV derivation with role labels, AES-GCM seal/open, Ed25519 sign/verify, IncrementIV |
| Key provider (C2) | `confmsg/shared/keyprovider.h` | `current_key`, `previous_key`, `current_key_version`, `previous_key_version` (uint32, **no initialiser**), `initialized`, `last_refreshed` | `Initialize`, `RefreshKey(sync_only)` → `DoRefreshKey` per variant, `GetKey(v)` (returns a *reference* to a slot), `IsKeyOutdated(v)`, `DeleteKey` |
| Server core (C5) | `confmsg/server/api.cc` | `nonce`, `public_key`, `public_signing_key`, `evidence`, the provider | constructor, `RefreshKey` (provider refresh, then `MakePublicKeys`, then `UpdateEvidence`), `HandleKeyRequest`, `HandleRequest`, `RespondToMessage` |
| Client (C6) | `confmsg/client/api.cc` | `nonce` (fixed per instance), `dynamic_iv`, `static_iv`, in/out keys, `server_nonce`, `key_version` (initially `-1`) | `MakeKeyRequest`, `HandleKeyResponse`, `MakeRequest`, `HandleResponse` |
| Attestation (C3) | `server/api.cc` `GenerateQuote`, client `VerifyQuote` | the evidence list | the quote binds `SHA256(public_key ‖ service_identifier)` |
| Enclave entry points | `confonnx/server/enclave/enclave.cc` | globals `confmsg_server`, `env` | `EnclaveInitialize` (creates `env`, then the key provider, then `confmsg_server`, then loads or keeps the model, and can fail after each), `EnclaveHandleRequest` (maps exceptions to status codes), `EnclaveMaybeRefreshKey` (`sync_only = now - last_refreshed < rollover`), `EnclaveDestroy` |
| Secret-store providers (C7) | `enclave/key_vault_provider.cc`, `key_vault_hsm_provider.cc` | the two slots; the shared vault | `DoRefreshKey`: fetch, then NotFound → v1, Denied → v1 or throw, newer → adopt, else rollover with `UpdateKey(v+1)` |
| HTTP client | `shared/curl_helper.cc`, `shared/http_challenge.cc`, `shared/util.cc` | cached OAuth `token_` | `Request`: on a 401 with a Bearer challenge, parse the challenge, `FetchOAuthToken`, store `token_`, retry once |
| Host refresher | `host/enclave.cc`, `host/cancellable_timer.h` | `cancelled_`, the refresher thread | loop `wait_for` / `EnclaveMaybeRefreshKey`, `~Enclave` cancels and joins |
| Host process | `host/main.cc`, `host/server_configuration.h`, `host/request_handler.cc`, `host/json_handling.cc`, `host/enclave_error.cc`, `enclave/props.cc` | the parsed configuration; per HTTP thread, the request in progress | `ParseInput` (environment, then command line, then `ValidateOptions`), enclave creation and `Initialize`, `Bind`/`Run`, `HandleRequest` (auth key, ecall, reply), `escape_string` |
| Model provisioning | `enclave/core/environment.cc` | `model_output_names_`, `encrypted_model_`, `model_key_provider_` | `InitializeModel` through the request callback |

How the parts interact:

* **Request threads.** The host's HTTP server runs `EnclaveHandleRequest` on several threads at once. Each call runs `RespondToMessage` → `HandleKeyRequest` / `HandleRequest` and reads the provider and the server's public state.
* **Refresher thread.** A single host thread calls `EnclaveMaybeRefreshKey` every sync interval (1 h by default, 5 min after an error). That call writes the same provider and public state.
* **No locks.** No lock protects any of this shared state.
* **Synchronising refresh on requests.** `HandleRequest` itself runs a synchronising refresh when a client presents a version newer than the server's. With the vault providers, this means request threads also run `DoRefreshKey`.
* **Shared HTTP client.** The vault providers' `HTTPClient` is therefore used by the refresher and by request threads at once. Its cached token is read and assigned without a lock.
* **Configuration.** `ServerConfiguration::ParseInput` stores the `CONFONNX_*` environment before the command line, and Boost keeps the first value stored, so the environment wins. The enclave decides whether to use the vault from the vault URL alone; `--use-akv` is only validated.
* **Enclave threads.** Every HTTP request is one ecall. The enclave is signed with 8 TCSs (props.cc), and an ecall the SDK refuses becomes HTTP 500.
* **Start-up.** The host's main thread creates the enclave and calls `EnclaveInitialize`. Only on success does it start the refresher and serve; on failure the exception unwinds through `~Enclave`.

The hard behaviours in this code are:

* interleavings of the refresher with request threads;
* a slot referenced before a rotation and read after it;
* uint32 wrap of an uninitialised counter;
* the replay or substitution of KeyResponses on the wire;
* replicas racing on a shared vault;
* lost replies from the vault;
* cancellation racing the refresher loop at shutdown;
* an initialisation that fails halfway;
* concurrent provisioning requests on the unlocked environment;
* a token read while another thread assigns it.

The correctness properties these behaviours threaten are listed below:

1. What a KeyResponse advertises is one consistent key: its share, signature, version and evidence (spec §5, §9).
2. A Response opens under the client's in key and answers its request.
3. A request sealed for a key that a slot still holds is never refused (spec §5).
4. The server never reuses an AES-GCM (key, IV) pair (spec §9).
5. The refresher's writes to the provider's slots implement an atomic two-slot rotation (spec §4.2). This is checked on the writer's side only: what a reader sees between the writes is the subject of property 3 (`RejectOnlyStaleKeys`).
6. A version tag names one key across replicas (spec §5, "linearizable").
7. The refresher exits promptly on cancel, and the process never aborts at shutdown.
8. The model key is provisioned once; later attempts get ModelAlreadyInitializedError (spec §7), and a failed attempt can be retried.
9. The refresher only runs against a fully initialised enclave, however initialisation failed.
10. A vault request fails only when the vault or the authority reports an error, or when its retry reads the token while another thread assigns it; never because the token just fetched was lost or the challenge was mis-parsed.
11. The server only ever answers with a reply `request_handler.cc` defines, and a provisioning request succeeds only on a server started with `--use-model-key-provisioning`.
12. An error message, whatever characters it holds, is sent as a JSON string that decodes back to it.

## 2. Modules

### `KeyRotation` — the abstract key provider

`KeyRotation` is what `keyprovider.h` promises. It has the two slots and the two uint32 versions, taken modulo `2^VersionBits`. `Rotate(k)` does all of the following in one atomic step:

* moves the current slot into the previous one;
* installs fresh material `k`;
* increments the version.

### `ConfMsgServer` — server, provider, refresher, request threads, clients

Its state corresponds to the code as follows:

* **Provider slots.** `current_key`, `previous_key` and their versions. A key is a number, and `0` is the zero-filled vector that `KeyProvider`'s constructor leaves in `previous_key`.
* **Server state.** `public_key`, `public_signing_key` and `evidence` are the server's fields. `keyGen` counts the keys generated.
* **Refresher.** `refreshPc` is the refresher's next statement. `refreshes` counts the non-sync refreshes, bounded by `MaxRefresh`.
* **Request threads.** `thr[t]` is a request thread's progress through a handler, together with the values it has read so far.
* **Clients.** `cl[c]` is a client object.
* **Channels.** `inbox[c]` and `outbox[c]` are the transport's request and reply for client `c`. The client waits for the answer to each message, so one slot per direction is enough.
* **Ghost variables.** These record history for the properties:
  * `versionOf`: the version each key was made for;
  * `krSent`: every KeyResponse emitted;
  * `accepted`: every KeyResponse a client accepted;
  * `sealed`: every AEAD sealing sent;
  * `rejected`: every request answered with an error, with the stage that refused it and whether a slot still held its key.

Actions split each handler where the code reads or writes shared state. These are the only points where another thread's step can make a difference:

| Action | Code |
|---|---|
| `RefreshRotateSlots`, `RefreshIncVersion`, `RefreshRandomize` | `RandomEd25519KeyProvider::DoRefreshKey` (sync_only is a no-op returning false) |
| `MakePublicKeys`, `UpdateEvidence` | the rest of `Server::RefreshKey` |
| `HandleKeyRequestSign` / `HandleKeyRequestEmit` | `HandleKeyRequest` up to `SignCurve25519(…GetCurrentKey())` / the reads of public keys, version, evidence |
| `HandleRequestGetKey` | version check, sync refresh (no-op), `GetKey` (remembers *which slot*, not its bytes) |
| `HandleRequestDecrypt` | `ComputeSharedSecret` over the slot's bytes *now*, `Decrypt`, `request_callback` |
| `HandleRequestEncrypt` | reply sealing with `static_iv`, `IsKeyOutdated`, emit |
| `Reject` | a `CryptoError` caught by `EnclaveHandleRequest` and returned as a JSON error by the host |
| `MakeKeyRequest`, `HandleKeyResponse`, `MakeRequest`, `HandleResponse`, `HandleError` | client operations |

Three points about the actions:

* **Substitution and replay.** `HandleKeyResponse` takes either the transport's answer or any KeyResponse the server ever sent, which models substitution and replay on the wire.
* **Init.** `Init` is the state after the constructors. The uninitialised `previous_key_version` takes any value in `UninitVersion`, and the first version is that value plus one.
* **Crypto abstraction.** Crypto is abstracted to what the protocol relies on:
  * a public key names its secret;
  * DH gives the unordered pair of the two secrets;
  * the HKDF label selects a direction;
  * AES-GCM opens only under the key, IV and AD it was sealed with;
  * a signature names its signer and its message;
  * a quote carries `<<public_key, service_identifier>>`. `VerifyQuote` compares that binding; the platform and identity checks of `Client::VerifyQuote` are taken to pass for the genuine enclave;
  * the dynamic IV is kept as the code keeps it: a 12-byte array. `IncrementIV` is its loop (crypto.cc:89-94), written as the RECURSIVE `IncrementFrom`, which increments a byte and carries into the one before it when the byte wraps to zero. Each client's dynamic IV starts at the random value `Client`'s constructor draws (client/api.cc:42); the constant `IVStart` fixes one such value per client. The server seals with its static IV, which is the static IV XOR `ZeroIV`.

Refinement: the module instantiates `KeyRotation` with a mapping that completes an in-progress refresh:

* while `refreshPc` is `incVersion` or `randomize`, the abstract current key is the one about to be generated (`keyGen + 1`);
* while `refreshPc` is `incVersion`, the abstract version is the next one.

`RotationRefined` checks `Rotation!Spec`.

### `RefreshTimer`: host refresher thread, timer and shutdown

`RefreshTimer` models three parts of the code:

* **The refresher thread** (`Enclave::StartPeriodicKeyRefreshBackgroundThread`). Its position is `rpc`. `site` records which `wait_for` call the thread is in:
  * `init`: line 116, before the loop and outside any `try`;
  * `try`: line 122;
  * `catch`: the handlers at lines 129-138.
* **The timer** (`CancellableTimer`). Its flag is `cancelled`.
* **The main thread** (`dpc`). It starts in `init`, after the `Enclave` constructor. `Enclave::Initialize` leads to `serving`, or to `failed` when `EnclaveInitialize` returned an error status and `EnclaveCallError::Check` threw. Either way `~Enclave` follows: `joining` after `cancel()`, then `destroyed` after the join (skipped when no thread was started), `EnclaveDestroy` and `oe_terminate_enclave`.
* **The enclave's globals** (`enclave`): `empty` when `env` and `confmsg_server` are null, `env` when only `env` is set, `ready` when both are.

Each action corresponds to a piece of the code:

* `Initialize` is `Enclave::Initialize`. `InitResults` lists what `_EnclaveInitialize` and its wrapper can return, with the globals each leaves:
  * `SUCCESS`, with both globals set;
  * `UNKNOWN_ERROR` from creating the model key provider, before `env` exists;
  * `UNKNOWN_ERROR` from the `confmsg::Server` constructor, which generates the first quote, with `env` already set;
  * `KEY_REFRESH_ERROR` from creating the service key provider, with `env` already set;
  * `MODEL_LOADING_ERROR`, or `UNKNOWN_ERROR` for a non-ORT exception, from `InitializeModel`, with `confmsg_server` already set.

  Only on `SUCCESS` is the refresher started, its key just created (`age = 0`).
* `WaitCheck` is the unlocked `cancelled_` test at the top of `wait_for`. A throw there is routed as the code routes it:
  * at `try`, into the `catch (std::exception&)` handler, which calls `wait_for` again;
  * anywhere else, out of the thread function, which ends in `std::terminate`.
* `WaitLock` takes the mutex and evaluates the predicate.
* `Timeout` is the end of the wait interval. The code's age grows without limit; the model merges every age above `MaxAge` (rollover plus sync interval) into `MaxAge`, since no guard or property compares beyond it. This is a bound on the model's clock, not a behaviour of the code.
* `LoopCheck` is line 117.
* `MaybeRefreshKey` is the `EnclaveMaybeRefreshKey` ecall. Its `sync_only` is computed from `age`, the time since `last_refreshed` in ticks of the retry interval. Its outcome is one of `RefreshKey`'s:
  * the key changed, which resets `age`;
  * nothing changed, which is possible only for a sync-only refresh;
  * a `KeyRefreshError`.
* `Cancel` sets the flag under the mutex and `notify_all` wakes a blocked refresher. It runs when the server stops, or while a failed `Initialize` unwinds `main`'s `try` block.
* `JoinAndDestroy` joins the thread if there is one, then `EnclaveDestroy` deletes both globals.

Assumptions of the model:

* **Reads of `cancelled_`.** The code reads `cancelled_` without the mutex, which is a data race. The model treats each read as seeing the current value. A stale `false` would only delay the refresher's exit: it cannot add an abort, because the wait predicate re-reads the flag under the lock.
* **Fairness.** The fairness is weak fairness on the refresher's own statements and on the join. These are local computation, or an ecall that returns. `Timeout` is deliberately unfair, so `ShutdownCompletes` shows that shutdown does not depend on an interval running out. `Cancel` is unfair because the server need never stop.

### `KeyVaultRollover`: replicas sharing a Key Vault secret

`KeyVaultRollover` models `KeyVaultProvider` (server/enclave/key_vault_provider.cc) on top of the two-slot `KeyProvider`, for every replica (`Replicas`, model values) that shares one vault secret.

State:

* `vault` is the secret's versions in the order they were stored, each a `[key, version]` record. The latest is what a GET without a version returns.
* `curK`, `curV`, `prevK`, `prevV` and `initialized` are each replica's `KeyProvider` fields. The versions start in `UninitVersion`, because the fields have no initialiser. Key material is the number of the vault entry that holds it; 0 is the zero-filled key from the constructor.
* `wk` holds, for each caller of `DoRefreshKey`, where its call is. The callers are a replica's refresher (which also runs `Initialize`) and its request thread (the sync-only refresh in `Server::HandleRequest`). Nothing locks the provider between them.
* `served` is a history variable: the keys each replica has held as current.

A call to `DoRefreshKey` is four steps, split at the network round trips:

* `Fetch`: the call starts and the GET returns the latest version or 404. The request thread starts when a client presents a `key_version` above the replica's current one (api.cc:143). A client can hold any version some replica has served, including one that replica has since reset or lost in a restart; the history variable `advertised` collects these versions.
* `Decide`: lines 49-79 on the slots as they are now. It either adopts the fetched key, returns false (sync-only), or goes on to PUT version 1 (NotFound) or current + 1 (rollover).
* `Put`: `UpdateKey`'s PUT. The vault stores the entry and the reply arrives or is lost, or the request fails before the vault sees it. Either failure ends the call with a `KeyRefreshError`.
* `AdoptPut`: the reply's key becomes current, on the slots as they are after the PUT.

`Restart(r)` is the fault model. Replica r's process stops and starts again, and `_EnclaveInitialize` creates a fresh provider (enclave.cc:148-162). Its keys are zero, its versions take uninitialised values, and both its callers start over. A PUT whose reply it was waiting for is never adopted, even if the vault stored it. The vault keeps everything stored, and the replica's `served` history starts again. `restarts` counts the restarts, bounded by `MaxRestarts`: 1 in `vault_safety` and 0 in the two violation runs, whose traces need none.

A failed GET changes nothing and is not a step. The model has no fairness and checks safety only.

The constant `Hsm` switches to `KeyVaultHsmProvider` (key_vault_hsm_provider.cc):

* Every vault entry has a release policy naming the signer of the enclave that created it. `Signer` gives each replica's signer.
* `Released` is the secure key release. An export to an enclave with another signer is refused with 403. Attestation and the JWT are abstracted to this check.
* `DecideDenied` handles the refusal. A sync-only call throws `logic_error` and changes nothing; otherwise the replica creates a new version 1 under its own policy.
* The create and the export of the exact new version are one store step. Losing either reply is the lost-reply outcome of `Put`.

`InitVault` is what the vault holds when the replicas start: nothing, or the key the previous build left.

### `ModelProvisioning`: provisioning the model key

`ModelProvisioning` models `ServerEnvironment::InitializeModel(provider)` (enclave/core/environment.cc) as reached from `HandleRequest` for a `ProvisionModelKey` request (enclave/enclave.cc). The host runs requests on `num_http_threads` threads (`Threads`), and nothing locks the environment.

State:

* `names` is `model_output_names_.size()`. Its emptiness is the code's only "already initialised" test.
* `encrypted` is `encrypted_model_`: held, or empty (cleared, or never set in the non-provisioning mode).
* `provider` is the key in `model_key_provider_`; `session` is whether a session was loaded.
* Each thread has `pc`, the `key` its request carries, the callback's `result` and the `status` of its last reply. `successes` counts SUCCESS replies.

Keys are model values. `ModelKey` is the one the model was encrypted under, and AES-GCM opens only under it. `Init` is either start-up mode of `_EnclaveInitialize` (lines 176-186). One request is six steps, split at every access to a shared field:

* `Check`: the emptiness test (line 56).
* `SetProvider`: line 59.
* `ReadModel`: the size check on the model, which fails with `runtime_error` when it was cleared.
* `Decrypt`: reads `model_key_provider_` again, so another thread's key may be used.
* `PushNames`: lines 88-95.
* `Clear`: line 61.

`Reply` adds the confmsg layer: after the callback, `IsKeyOutdated` can throw `CryptoError`, and `EnclaveHandleRequest` maps the exception to a status. A thread that read the data pointer before another's `clear()` still reads the old bytes, because `clear()` frees nothing.

### `HttpClient`: the OAuth token cache and the challenge parser

`HttpClient` models `HTTPClient::Request` (shared/curl_helper.cc) on the threads that share one client: the provider's refresher and a request thread running a synchronising refresh (`Threads`, two).

State:

* `token_` is `HTTPClient::token_`. A token is a record: the resource it was issued for, whether it is still within its lifetime, and whether it is being read halfway through an assignment (`torn`). The constructor leaves it empty.
* Each thread has `pc`, the challenge `chal` of the 401 it is handling, the token `got` that `FetchOAuthToken` returned, and the `outcome` of its last request.

One request is five steps, split at every access to `token_`:

* `Send` is the first `Curl` (lines 248-254). A token the vault accepts gets a response or an error that propagates. Otherwise the vault answers 401 with one of `Challenges`. `find_header` and `isBearerChallenge` then decide between rethrowing and fetching a token.
* `FetchToken` builds the `HttpChallenge` and calls `FetchOAuthToken(ch.authority(), ch.resource(), ...)`, the right-hand side of line 262. `TokenFor` gives the result: a token for the parsed resource, or why the code threw.
* `Store` and `Publish` are the assignment `token_ = ...`. A `std::string` assignment is several writes, so a reader in between sees a torn string. This is a data race; its outcomes (old value, new value, torn) are nondeterministic choices.
* `Retry` re-reads `token_` into the header and calls `Curl` once more (lines 263-265). An error now propagates.
* `Expire` ends the lifetime of the cached token. It is not taken while a thread is between storing its token and the retry: tokens live about an hour, and those steps take milliseconds.

The challenge parser is translated over strings, as sequences of one-character strings. The protocol's words are abstracted to two letters each: the scheme `Bearer` is `Br`, and the parameter names `authorization`, `authorization_uri` and `resource` are `az`, `au` and `rs`. `Trim` and `Split` (util.cc) are translated as they run, including `Trim`'s `end > begin`, which makes a one-character result empty. `ParseChallenge` is split into `SchemeEnd`, `Parameters` (a `FoldLeft` of `AddParameter` over the comma-separated pieces, a later name overriding an earlier one) and `ChallengeInvalid`. `CurlHeaderCallback`'s trim of the header value is `HeaderValue`.

`MC_HttpClient` gives three challenges:

* `' Br az="lo", rs="vt"'`, with a leading space and a space after the comma;
* `'Br au="lo",rs="vt" '`, the `authorization_uri` form;
* `'Bs rs="vt"'`, of another scheme, which is rethrown.

The authority is `lo` and the vault's resource is `vt`.

### `HostServer`: the host process serving requests

`HostServer` models the host's `main` (host/main.cc) and `HandleRequest` (host/request_handler.cc). It EXTENDS `ModelProvisioning`, so a `/provisionModelKey` request runs the enclave's `InitializeModel` steps of that module.

State:

* `cfg` is what `ParseInput` was given: the stored option map (`input`), the `hardware_concurrency()` value (`hc`) and the result. `Effective` is the `ServerConfiguration` main then reads, with the member defaults (`Defaults`) for options nobody gave.
* `mainPc` is the main thread's step: parse, create, initialise, bind, serving, or one of the exits.
* Each HTTP thread has `hpc`, its step in `HandleRequest`; `route`; `callStatus`, the outcome of its ecall; and `http`, the last reply it sent (status code and JSON `error_code`).

Configuration is abstracted to what the checks tell apart. A path names an existing file (`Files`) or not; a string is empty (`NoValue`) or one of a few values. An MC input is a pair: what the `CONFONNX_*` environment gives and what the command line gives.

* `Store` is `po::store`: the first value stored wins (`vm @@ parsed`). The environment is stored first.
* `ParseInput` gives `--help` precedence over the required `--model-path` (`notify` runs after the help test), then `ValidateOptions`, whose six checks are one disjunction.

Main thread:

* `Parse` exits on ExitSuccess or ExitFailure (main.cc:29-33).
* `CreateEnclave`: `oe_create_server_enclave` may fail, and the exception exits.
* `InitializeEnclave` is `Enclave::Initialize` with `_EnclaveInitialize`. A vault URL may fail with KEY_REFRESH_ERROR; an encrypted model without a vault model key fails with MODEL_LOADING_ERROR. Otherwise the model is held for provisioning or loaded (`ModelAtInit`). The enclave's `use_akv` is `!service_kvc.url.empty()` (host/enclave.cc:89), so `ModelAtInit` looks at the URL, not at `--use-akv`.
* `Bind`: `make_address` or `Bind` may throw, and main exits.
* `Exited` is the stutter after an exit.

HTTP threads, one request each at a time:

* `Receive`: a POST to one of the two routes, with no header or a Bearer header. With an auth key configured, a wrong or missing header is answered 401 without an ecall (request_handler.cc:33-43).
* `EcallFailed`: `oe_call_enclave` fails. There may be no free TCS (`TCSFree`), or another SDK error. The reply is 500 (`EnclaveSDKError`).
* `ProvisionRejected`: confmsg refuses the message before the callback (PAYLOAD_PARSE_ERROR or CRYPTO_ERROR).
* `ProvisionEnter` and `ProvisionLeave`: `ModelProvisioning`'s `Check` and `Reply` around its enclave-internal steps (`EnclaveStep`).
* `ScoreEnter` and `ScoreLeave`: the Score branch. The executor is not in this repository: with a session a Score may succeed or fail, and without one it fails.
* `Respond` maps the outcome: 200 on SUCCESS, 400 with the status for an `EnclaveCallError`, 500 for an `EnclaveSDKError`.

`EscapeChar` and `EscapeString` are `escape_string` (json_handling.cc) over the codes of the message's `char`s. `char` is signed, so bytes above 0x7f are negative and pass the `'\x00' <= c` test unescaped. `JsonUnescape` is a reference decoder for a JSON string body (RFC 8259, section 7), written as a RECURSIVE operator that returns the set of decodings. `EscapeRoundTrip` checks every message of up to `MaxMessage` characters over `MessageChars` (a letter, `"`, `\`, newline, backspace, 0x01, DEL and a byte above 0x7f).

`MC_HostServer` gives five start-ups that serve:

* the plain model;
* the plain model with `CONFONNX_AUTH_KEY=ka` and `--auth-key kb`, where the environment wins;
* provisioning;
* a vault with credentials and a model key name;
* a vault URL and model key name without `--use-akv`.

It also gives seven start-ups that exit: `--use-akv` without credentials, provisioning with a model key name, a model key name without a vault, a missing model file, zero HTTP threads, `--help`, and no `--model-path`.

### `MC_ConfMsgServer`

`MC_ConfMsgServer` defines the model values: two clients, two threads, the server nonce and the service identifier.

## 3. Runs

The `ConfMsgServer` runs use two clients, two request threads, 2-bit versions, `MaxRefresh = 2` and `MaxMsgs = 2` (the iv run uses `MaxMsgs = 3`). These bounds are enough for the following reasons:

* **Threads.** Two threads let two handlers interleave with each other and with the refresher.
* **Clients.** Two clients let one client replay or substitute another's KeyResponse.
* **Refreshes.** Two refreshes let a version fall out of both slots, and let the 2-bit counter wrap from an initial value of 2 or 3.
* **Messages.** Two messages per client give a key request followed by a request, or two requests in one session.
* **Dynamic IVs.** c1's starts at all zeros. c2's ends in `00 ff ff`, so its first `IncrementIV` carries through two bytes into a third. `DynamicIVCountsRequests` compares each client's dynamic IV with its start advanced by `NextBigEndian`, a closed-form reference for the big-endian successor, once per request the client sealed. The carry is the only place where the loop and the reference can differ, and a loop without it fails the check.

| Run | Checks | Result |
|---|---|---|
| `confmsg_safety` (`ConfMsgServer_safety.cfg`, no symmetry, since it checks a refinement property) | `TypeOK`, `ResponseOpensAtClient`, `DynamicIVCountsRequests`, `RotationRefined` | pass, ≈ 2.3 M distinct states, about 1 minute |
| `confmsg_handshake` | `HandshakeConsistent` | **violated**: a KeyRequest signed before a refresh is emitted after the version increment, so it pairs the old share with the new version (api.cc:91–105 vs api.cc:43–46) |
| `confmsg_reject` (`UninitVersion = {0}`) | `RejectOnlyStaleKeys` | **violated**: see the trace below (api.cc:176) |
| `confmsg_iv` (`MaxMsgs = 3`) | `NoNonceReuse` | **violated**: the second reply of a session is sealed under the same key and static IV as the first (api.cc:194) |
| `timer_shutdown` (`RefreshTimer_liveness.cfg`: sync 3, retry 1, rollover 6 ticks) | `KeyAgeBounded`, `RefreshOnlyWhenReady`, `ShutdownCompletes` | pass, 168 distinct states |
| `timer_abort` | `NeverAborts` | **violated**: see below (host/enclave.cc:116, :122 → :135) |
| `vault_safety` (`KeyVaultRollover_safety.cfg`: HSM, three replicas during a rolling upgrade, r1 and r2 signed by `sA` and r3 by `sB`, empty vault, `MaxPuts = 3`, `UninitVersion = {0,1}`, symmetry on r1/r2) | `TypeOK`, `ServedKeysInVault` | pass, ≈ 1.9 M distinct states, about 70 s (with one replica restart) |
| `vault_collision` (soft store, two replicas, `MaxPuts = 4`) | `VersionDeterminesKey` | **violated**: two replicas start against an empty vault, both get 404 and both PUT version 1 with different keys (key_vault_provider.cc:51) |
| `vault_slots` (soft store, two replicas, `MaxPuts = 4`) | `PreviousIsLastServed` | **violated**: see below (key_vault_provider.cc:74) |
| `host_serving` (`HostServer_safety.cfg` on `MC_HostServer`: the twelve start-ups above, each with `hardware_concurrency()` returning 0 or 2, two HTTP threads, two TCSs, one auth key, the model key and one wrong key, two outputs, messages of up to 2 characters, symmetry on threads) | `HostTypeOK`, `ServingRetryPossible`, `ProvisionOnlyWhenConfigured`, `EscapeRoundTrip` | pass, ≈ 1.6 M distinct states, about 30 s |
| `provision_twice` | `ProvisionedOnce` | **violated**: see below (environment.cc:56) |
| `http_token` (`HttpClient_safety.cfg`: two threads, the three challenges above, symmetry on threads) | `NoSpuriousFailure` | pass, ≈ 1.9 k distinct states |

The `timer_abort` run finds two ways to abort:

* **Cancel before the first wait.** `~Enclave` cancels before the thread's first `wait_for`. This happens, for example, when `app.Bind` throws in `main.cc` and unwinding destroys the `Enclave`. `wait_for` then throws outside any `try`.
* **Cancel during a refresh.** `~Enclave` cancels while `EnclaveMaybeRefreshKey` runs. Line 122 throws, and the handler's own `wait_for` at line 135 throws again.

Both paths end in `std::terminate`.

The timer intervals keep the default proportions in small numbers: rollover is a multiple of the sync interval, and retry is shorter. With these values, the boundary case where a check falls exactly on the rollover interval does occur.

The `confmsg_reject` trace runs as follows:

1. A request chooses the current slot.
2. A refresh copies that slot into the previous one and randomises the current one.
3. The request's bytes are then read from the current slot, so decryption fails, although the previous slot holds the key.

The `vault_slots` trace runs as follows:

1. Replica r1 starts and stores version 1.
2. r1's refresher decides to roll over and PUTs version 2. The vault stores it, but the reply has not arrived yet.
3. Replica r2 starts and adopts version 2 from the vault.
4. A client that handshook with r2 sends a request to r1. r1's request thread makes a sync-only refresh and adopts version 2, with version 1 moving to the previous slot.
5. The reply to r1's PUT arrives. `DoRefreshKey` rotates again: version 2 goes to the previous slot as well, and key 1 is gone, although it was current one step earlier.

`vault_safety` runs the HSM provider during a rolling upgrade to a build signed by another key, the situation the code comment at key_vault_hsm_provider.cc:81-82 has in mind. Two replicas share the old signer, so they adopt each other's keys as in the soft store. The third is denied their keys and resets to version 1 under its own policy (line 85), after which the old build is denied in turn. In this run, no replica serves a key released to another signer, even when a replica restarts in the middle of any of this. While both builds run, the same version can name two keys; `VersionDeterminesKey` states this, and its run `vault_collision` shows the simpler race first.

For `KeyVaultRollover`:

* In the two-replica runs, four stored versions allow an initial key, two rollovers and one colliding or late PUT.
* Three stored versions in `vault_safety` allow the reset, a rollover and one lost reply. A fourth makes that run about 20 times larger.

The `provision_twice` trace runs as follows:

1. Thread t1 passes the emptiness test and decrypts the model.
2. Before t1 pushes the output names, t2 passes the same test.
3. t1 finishes and answers SUCCESS, but t2 has already read the model's data pointer.
4. t2 loads the session again, pushes the names a second time (4 names for a 2-output model) and also answers SUCCESS.

With a wrong key on one thread, the same race makes a request carrying the right key fail with CRYPTO_ERROR. `host_serving` runs the same two threads, with Score requests, SDK failures and confmsg rejections among them, behind the host's start-up. Its `ServingRetryPossible` shows that such failures still leave the model provisionable. Two threads and two keys are enough for every interleaving of two requests; a third thread only repeats them.

For `host_serving`:

* **Threads.** Two threads over two TCSs let a provisioning request run in the enclave beside another provisioning or a Score. Three threads over two TCSs would also exhaust the TCSs, but that model grows past 40 M states. `EcallFailed` covers the refused ecall in either case, because the SDK can fail a call for other reasons too.
* **Start-ups.** Each of the twelve start-ups takes a different path through `ParseInput`, `ValidateOptions` or `_EnclaveInitialize`. The serving ones hold the model, load it, or load it from the vault.
* **Messages.** Messages of two characters over eight codes give every escape next to every other and next to a plain character.

For `HttpClient`, two threads are enough for every interleaving of one request with another's fetch and assignment: a third thread only repeats it. The three challenges take each branch of the parser (`authorization` and `authorization_uri`, spaces to trim, a piece after the last comma) and the rethrow of a non-Bearer challenge. No counter needs a bound: each thread returns to `idle` after one request. In this run, a retry's failure always traces back to reading `token_` during the other thread's assignment. That failure is reachable: the data race at line 262 can make a request fail although its own token fetch succeeded.

The passing runs between them fire every action and every branch.

Each property of a passing run has a mutant in `PROJECT.json`. A mutant replaces one definition by a plausible bug:

* a reply sealed with the client label;
* a refresh that does not keep the old key;
* a version counter without the uint32 wrap;
* a missing secret stored as version 0 instead of 1;
* a failed PUT treated as stored;
* `IncrementIV` without the carry into earlier bytes;
* an export that ignores the release policy;
* every ecall failure answered as an `EnclaveCallError` (400 instead of 500);
* the model kept for provisioning whatever the options say;
* `escape_string` without its case for a backslash;
* the encrypted model moved out of `encrypted_model_` before decryption;
* the refresher started before the initialisation status is checked;
* a retry sent with the caller's headers, without the new token.

TLC finds the property violated under each of them.

Fairness: `ConfMsgServer`, `KeyVaultRollover`, `ModelProvisioning`, `HostServer` and `HttpClient` check only safety and refinement, so their `Spec`s carry no fairness. The code's scheduling justifies weak fairness only for the refresher thread, which sleeps and wakes on a timer. Clients and the transport are not obliged to act.

## 4. What remains open

These extensions were considered and left out, for the reasons given:

* **Convergence of the replicas (liveness).** Whether replicas eventually agree on the vault's latest version depends on the bound `MaxPuts`. Once the vault is full, every further PUT fails in the model, so an eventuality checked there speaks about the bound, not the code. During a rolling upgrade the two builds keep resetting each other's key (key_vault_hsm_provider.cc:85) for as long as both run, so there is nothing to converge to. That ping-pong is the code's design for an upgrade, and `ServedKeysInVault` shows it stays safe.
* **Deletion of the secret.** Only tests call `DeleteKey`. An operator deleting the secret in the vault would make the next fetch take the NotFound path. That is the path `vault_collision` already drives from an empty vault.
* **`HostServer` composed with `RefreshTimer`.** The refresher shares only the enclave's key provider with the HTTP threads. Its effect on requests is what `ConfMsgServer` checks. `host_serving` is at 1.6 M states with two threads, so adding the refresher's states would take it past the time limit.

## 5. Not modelled

These parts are left out:

* **Out of TLC's reach or pure I/O:**
  * FlatBuffers encoding and the size checks on decoded fields;
  * Boost.Beast's own routing and its error handler (`RegisterError`, main.cc:70-83), since the router is not in this repository;
  * the `CONFONNX_*` name mapping (`env_name_mapper`), whose result is the environment half of an MC input;
  * the address and port values, logging, and the JSON layout around the escaped message;
  * ONNX inference (abstracted as the request callback);
  * PEM-to-MRSIGNER conversion;
  * the quote signature chain (trusted; only the report-data binding is modelled).
* **Time.** Real time is not modelled. A refresh may happen at any point, which covers every timing of the 1 h and 24 h intervals.
* **The uint32 wrap of the key version.** `ConfMsgServer` keeps the uninitialised counter modulo `2^VersionBits`, so the wrap occurs in its runs, but no property is checked on it. The counter holds whatever the enclave heap held when the provider was created at start-up, which is normally zero, far from the limit.
* **A one-character challenge value.** `Trim` turns it into an empty string (util.cc:34). The vault's authority and resource are URLs, so no run sends one; the model's `Trim` keeps the behaviour.
* **Unvalidated intervals.** The interval options are never validated. A negative rollover interval wraps to nearly 2^32 seconds at host/enclave.cc:84, so the key never rolls over. A zero sync interval makes the refresher call the enclave without pausing. `RefreshTimer` takes the intervals as positive constants.
* **`--use-akv`.** It is validated but not passed to the enclave, which uses the vault whenever a vault URL is given (host/enclave.cc:89). `HostServer` follows the code. No property states what the flag should mean, since neither the spec nor a comment says.
* **Environment over command line.** A `CONFONNX_*` variable overrides the same option on the command line (server_configuration.h:125-126). `Store` models this precedence, but no property states which source should win.
* **`SESSION_ALREADY_INITIALIZED_ERROR`.** The host calls `EnclaveInitialize` once, so this branch is never taken.
* **libcurl.** Its transport, TLS set-up and the JSON parsing of the token response are reduced to the outcome of each exchange.
* **The model encryption tool** (tools/encrypt_model.cc). It is one sequential pass: read the file, encrypt it under the model key with an all-zero IV, and write the ciphertext and then the tag. It has no concurrency and keeps no state to interleave. Its output layout is the one `InitializeModel` splits (environment.cc:64-86). Its hazards are listed in `PROJECT.json` and are not checked:
  * the fixed IV (line 22) reuses the (key, IV) pair across models encrypted under one key;
  * the stack buffer (line 17) overflows on large models;
  * `Hex2Buffer` (confmsg util.cc:62) silently accepts non-hex key characters.
* **A missing model-key secret.** The model key is fetched through a `KeyVaultProvider` (enclave.cc:121). If the secret is missing, for example because of a typo in `--akv-model-key-name`, that provider PUTs a random version 1 under the name before the model fails to decrypt. `HostServer` reduces the fetch to "loaded" or "failed", so this write to the vault is not represented.
* **`DeleteKey` and `StaticKeyProvider`.** `KeyProvider::DeleteKey` is never called on the server path. `StaticKeyProvider` never changes after construction.
