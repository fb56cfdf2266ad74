------------------------- MODULE ModelProvisioning -------------------------
(***************************************************************************)
(* Model-key provisioning in the enclave (server/enclave/enclave.cc,      *)
(* HandleRequest for RequestType::ProvisionModelKey, and                  *)
(* ServerEnvironment::InitializeModel, enclave/core/environment.cc).      *)
(*                                                                         *)
(* The host serves HTTP requests on several threads (num_http_threads),   *)
(* and each provisioning request runs the confmsg request callback on its *)
(* own thread, with no lock around the ServerEnvironment.                  *)
(* InitializeModel is split wherever it reads or writes a field other     *)
(* threads share: model_output_names_ (the "already initialised" test and *)
(* the push of the names), model_key_provider_ (set, then read again to   *)
(* decrypt), encrypted_model_ (its size read, then cleared) and session.  *)
(*                                                                         *)
(* Data is abstracted: a model key is one of Keys, of which ModelKey is   *)
(* the one the model was encrypted under (AES-GCM opens only under it);   *)
(* the encrypted model is either held or empty (cleared, or never set);   *)
(* model_output_names_ is its length.  A thread that has read the model's *)
(* data pointer keeps reading the old bytes after another thread's        *)
(* clear(), which frees nothing.                                          *)
(***************************************************************************)
EXTENDS Naturals, FiniteSets

CONSTANTS
    Threads,        \* the host's HTTP worker threads
    Keys,           \* model keys a client can send
    ModelKey,       \* the key the model was encrypted with
    NumOutputs      \* session.GetOutputCount() of the model

ASSUME ModelKey \in Keys /\ NumOutputs \in Nat \ {0}

VARIABLES
    names,      \* model_output_names_.size()
    encrypted,  \* encrypted_model_: "held" or "empty"
    provider,   \* model_key_provider_: "none" or the key it holds
    session,    \* ServerEnvironment::session: "none" or "loaded"
    pc,         \* per thread: next step of the request
    key,        \* per thread: the key in the request being handled
    result,     \* per thread: outcome of the request callback
    status,     \* per thread: status of the last reply to the host
    successes   \* number of provisioning replies with status SUCCESS

vars == <<names, encrypted, provider, session, pc, key, result, status, successes>>

Statuses == {"SUCCESS", "MODEL_ALREADY_INITIALIZED_ERROR", "CRYPTO_ERROR", "UNKNOWN_ERROR"}

\* _EnclaveInitialize, lines 176-186: with use_model_key_provisioning the
\* encrypted model is kept for a later provisioning request and no session
\* exists; otherwise the model is loaded at once (through the key vault
\* model key, if any) and the encrypted model is never kept.
Init ==
    /\ \/ /\ encrypted = "held" /\ names = 0 /\ session = "none"
       \/ /\ encrypted = "empty" /\ names = NumOutputs /\ session = "loaded"
    /\ provider = "none"
    /\ pc = [t \in Threads |-> "idle"]
    /\ key = [t \in Threads |-> ModelKey]
    /\ result = [t \in Threads |-> "SUCCESS"]
    /\ status = [t \in Threads |-> "none"]
    /\ successes = 0

----------------------------------------------------------------------------
(* One provisioning request on thread t                                    *)

\* HandleRequest dispatches the payload, as a StaticKeyProvider holding
\* key k, to InitializeModel, which throws ModelAlreadyInitializedError if
\* model_output_names_ is not empty.
Check(t) ==
    /\ pc[t] = "idle"
    /\ \E k \in Keys : key' = [key EXCEPT ![t] = k]
    /\ IF names # 0
       THEN /\ pc' = [pc EXCEPT ![t] = "reply"]
            /\ result' = [result EXCEPT ![t] = "MODEL_ALREADY_INITIALIZED_ERROR"]
       ELSE /\ pc' = [pc EXCEPT ![t] = "setProvider"]
            /\ result' = [result EXCEPT ![t] = "SUCCESS"]
    /\ UNCHANGED <<names, encrypted, provider, session, status, successes>>

\* model_key_provider_ = std::move(model_key_provider)
SetProvider(t) ==
    /\ pc[t] = "setProvider"
    /\ provider' = key[t]
    /\ pc' = [pc EXCEPT ![t] = "read"]
    /\ UNCHANGED <<names, encrypted, session, key, result, status, successes>>

\* Mutant: the model taken by moving encrypted_model_ out, which empties it
ReadModelMoving(t) ==
    /\ pc[t] = "read"
    /\ encrypted' = "empty"
    /\ IF encrypted = "held"
       THEN pc' = [pc EXCEPT ![t] = "decrypt"] /\ UNCHANGED result
       ELSE /\ pc' = [pc EXCEPT ![t] = "reply"]
            /\ result' = [result EXCEPT ![t] = "UNKNOWN_ERROR"]
    /\ UNCHANGED <<names, provider, session, key, status, successes>>

\* InitializeModel(encrypted_model_.data(), encrypted_model_.size()): a
\* cleared model is too short ("Not enough encrypted model data", a
\* runtime_error, mapped to UNKNOWN_ERROR).
ReadModel(t) ==
    /\ pc[t] = "read"
    /\ IF encrypted = "held"
       THEN pc' = [pc EXCEPT ![t] = "decrypt"] /\ UNCHANGED result
       ELSE /\ pc' = [pc EXCEPT ![t] = "reply"]
            /\ result' = [result EXCEPT ![t] = "UNKNOWN_ERROR"]
    /\ UNCHANGED <<names, encrypted, provider, session, key, status, successes>>

\* Decrypt under model_key_provider_->GetCurrentKey(), read again now:
\* whichever thread set the provider last supplies the key.  A wrong key
\* fails the tag check (CryptoError); the right one loads the session.
Decrypt(t) ==
    /\ pc[t] = "decrypt"
    /\ IF provider = ModelKey
       THEN /\ session' = "loaded"
            /\ pc' = [pc EXCEPT ![t] = "names"]
            /\ UNCHANGED result
       ELSE /\ pc' = [pc EXCEPT ![t] = "reply"]
            /\ result' = [result EXCEPT ![t] = "CRYPTO_ERROR"]
            /\ UNCHANGED session
    /\ UNCHANGED <<names, encrypted, provider, key, status, successes>>

\* model_output_names_.push_back for each of the session's outputs.
PushNames(t) ==
    /\ pc[t] = "names"
    /\ names' = names + NumOutputs
    /\ pc' = [pc EXCEPT ![t] = "clear"]
    /\ UNCHANGED <<encrypted, provider, session, key, result, status, successes>>

\* encrypted_model_.clear(); the callback returns normally.
Clear(t) ==
    /\ pc[t] = "clear"
    /\ encrypted' = "empty"
    /\ pc' = [pc EXCEPT ![t] = "reply"]
    /\ UNCHANGED <<names, provider, session, key, result, status, successes>>

\* Back in confmsg's Server::HandleRequest, a callback that returned is
\* followed by IsKeyOutdated, which throws CryptoError when two key
\* rotations passed meanwhile; EnclaveHandleRequest maps the exception
\* to the status the host returns.
Reply(t) ==
    /\ pc[t] = "reply"
    /\ \E s \in IF result[t] = "SUCCESS" THEN {"SUCCESS", "CRYPTO_ERROR"} ELSE {result[t]} :
          /\ status' = [status EXCEPT ![t] = s]
          /\ successes' = IF s = "SUCCESS" THEN successes + 1 ELSE successes
    /\ pc' = [pc EXCEPT ![t] = "idle"]
    /\ UNCHANGED <<names, encrypted, provider, session, key, result>>

Next ==
    \E t \in Threads :
        \/ Check(t) \/ SetProvider(t) \/ ReadModel(t) \/ Decrypt(t)
        \/ PushNames(t) \/ Clear(t) \/ Reply(t)

Spec == Init /\ [][Next]_vars

----------------------------------------------------------------------------
(* Properties                                                             *)

TypeOK ==
    /\ names \in 0 .. NumOutputs * Cardinality(Threads)
    /\ encrypted \in {"held", "empty"}
    /\ provider \in {"none"} \cup Keys
    /\ session \in {"none", "loaded"}
    /\ pc \in [Threads -> {"idle", "setProvider", "read", "decrypt", "names", "clear", "reply"}]
    /\ key \in [Threads -> Keys]
    /\ result \in [Threads -> Statuses]
    /\ status \in [Threads -> {"none"} \cup Statuses]
    /\ successes \in 0 .. Cardinality(Threads)

Quiescent == \A t \in Threads : pc[t] = "idle"

\* A provisioning that failed can be retried: whenever no request is in
\* progress, the encrypted model is still held exactly when no model has
\* been loaded, whatever keys concurrent requests sent and however
\* InitializeModel's steps interleaved.
RetryPossible == Quiescent => (names = 0 <=> encrypted = "held")

\* Spec section 7 (error table): the host provisioning the model key twice gets
\* ModelAlreadyInitializedError; so at most one provisioning request is
\* answered SUCCESS and the output names are pushed once.
ProvisionedOnce == successes <= 1

=============================================================================
