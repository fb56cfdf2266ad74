----------------------------- MODULE HostServer -----------------------------
(***************************************************************************)
(* The host process (server/host/main.cc) composed with the enclave's     *)
(* model provisioning (ModelProvisioning).                                 *)
(*                                                                         *)
(* main parses the options (ServerConfiguration::ParseInput, from the     *)
(* CONFONNX_* environment and then the command line), creates and         *)
(* initialises the enclave, binds the HTTP server and serves /score and  *)
(* /provisionModelKey on num_http_threads threads, each running           *)
(* HandleRequest (request_handler.cc): the auth-key check, one ecall      *)
(* EnclaveHandleRequest, and the mapping of its outcome to an HTTP reply. *)
(* An ecall needs a free enclave thread (TCS); props.cc signs the enclave *)
(* with a fixed TCSCount while num_http_threads is not bounded above, and *)
(* an ecall finding none fails with an OE error (EnclaveSDKError), as any *)
(* other failure of the SDK does.                                          *)
(*                                                                         *)
(* The option values are abstracted to what the checks tell apart: a path *)
(* names an existing file or not, a string is empty or one of a few       *)
(* values.  Log output, help texts and JSON layout are left out; the JSON *)
(* string escaping of error messages is modelled over byte codes.         *)
(***************************************************************************)
EXTENDS ModelProvisioning, Sequences, Integers
LOCAL INSTANCE SequencesExt

CONSTANTS
    Inputs,         \* start-ups: [env |-> what CONFONNX_* variables give,
                    \*             cli |-> what the command line gives]
    Files,          \* paths that name an existing file
    Concurrency,    \* values std::thread::hardware_concurrency() may return
    AuthKeys,       \* non-empty --auth-key values
    TCSCount        \* enclave threads (TCSCount in props.cc)

ASSUME TCSCount \in Nat \ {0} /\ Concurrency \subseteq Nat

VARIABLES
    mainPc,     \* main(): next step of the main thread
    cfg,        \* the ServerConfiguration main works with
    hpc,        \* per HTTP thread: next step of HandleRequest
    route,      \* per HTTP thread: the route of the request being served
    callStatus, \* per HTTP thread: outcome of the ecall
    http        \* per HTTP thread: the last reply sent

hostVars == <<mainPc, cfg, hpc, route, callStatus, http>>
allVars == <<vars, hostVars>>

----------------------------------------------------------------------------
(* ServerConfiguration (server_configuration.h)                           *)

NoValue == ""

\* The member initialisers; hardware_concurrency() is the thread default.
Defaults(hc) ==
    [help |-> FALSE, log_level |-> "info", enclave_path |-> "confonnx_enclave",
     model_path |-> NoValue, auth_key |-> NoValue, num_http_threads |-> hc,
     use_model_key_provisioning |-> FALSE, use_akv |-> FALSE,
     akv_app_id |-> NoValue, akv_app_pwd |-> NoValue, akv_vault_url |-> NoValue,
     akv_model_key_name |-> NoValue]

OptionNames == DOMAIN Defaults(0)

SupportedLogLevels == {"verbose", "info", "warning", "error", "fatal"}

\* po::store keeps a value already stored by an earlier store call: the
\* environment, stored first, wins over the command line.
Store(vm, parsed) == vm @@ parsed

\* The variables_map with the defaults of the options nobody gave.
Config(vm, hc) == [o \in OptionNames |-> IF o \in DOMAIN vm THEN vm[o] ELSE Defaults(hc)[o]]

\* ValidateOptions: the first failing check prints its message and fails.
ValidateOptions(c) ==
    IF \/ c.log_level \notin SupportedLogLevels
       \/ c.num_http_threads <= 0
       \/ c.enclave_path \notin Files
       \/ c.model_path \notin Files
       \/ c.use_akv /\ NoValue \in {c.akv_app_id, c.akv_app_pwd, c.akv_vault_url}
       \/ c.use_model_key_provisioning /\ c.akv_model_key_name # NoValue
    THEN "ExitFailure"
    ELSE "ContinueSuccess"

\* ParseInput: store both sources, help before notify, notify fails on the
\* missing required --model-path, then ValidateOptions.
ParseInput(env, cli, hc) ==
    LET vm == Store(Store([o \in {} |-> NoValue], env), cli)
    IN CASE "help" \in DOMAIN vm         -> "ExitSuccess"
         [] "model_path" \notin DOMAIN vm -> "ExitFailure"
         [] OTHER                         -> ValidateOptions(Config(vm, hc))

----------------------------------------------------------------------------
(* Status codes and HTTP replies (status.h, request_handler.cc)           *)

StatusCode ==
    [SUCCESS |-> 0, UNKNOWN_ERROR |-> 1, CRYPTO_ERROR |-> 2, MODEL_LOADING_ERROR |-> 3,
     PAYLOAD_PARSE_ERROR |-> 6, INFERENCE_ERROR |-> 7, MODEL_ALREADY_INITIALIZED_ERROR |-> 13]

\* An ecall the SDK refused (EnclaveSDKError), e.g. OE_OUT_OF_THREADS.
SdkError == "OE_ERROR"

NoReply == [route |-> "none", code |-> 0, error_code |-> 0]

\* The try/catch around enclave.HandleRequest and the response built after it.
HttpReply(r, s) ==
    CASE s = SdkError     -> [route |-> r, code |-> 500, error_code |-> -1]
      [] s = "SUCCESS"    -> [route |-> r, code |-> 200, error_code |-> 0]
      [] OTHER            -> [route |-> r, code |-> 400, error_code |-> StatusCode[s]]

Bearer(k) == [scheme |-> "Bearer", key |-> k]
NoHeader == [scheme |-> "none", key |-> NoValue]
Headers == {NoHeader} \cup {Bearer(k) : k \in AuthKeys}

\* ServerEnvironment::IsAuthEnabled and the comparison with "Bearer " + key
IsAuthEnabled(c) == c.auth_key # NoValue
AuthOk(c, h) == ~IsAuthEnabled(c) \/ h = Bearer(c.auth_key)

----------------------------------------------------------------------------
(* CreateJsonError's escape_string (json_handling.cc), over the codes of  *)
(* the message's chars; char is signed, so bytes above 0x7f are negative. *)

HexDigit(d) == IF d < 10 THEN 48 + d ELSE 87 + d

\* Mutant: the case for a backslash is missing
EscapeCharNoBackslash(c) ==
    CASE c = 34             -> <<92, 34>>
      [] c = 8              -> <<92, 98>>
      [] c = 12             -> <<92, 102>>
      [] c = 10             -> <<92, 110>>
      [] c = 13             -> <<92, 114>>
      [] c = 9              -> <<92, 116>>
      [] c \in 0 .. 31      -> <<92, 117, 48, 48, HexDigit(c \div 16), HexDigit(c % 16)>>
      [] OTHER              -> <<c>>

EscapeChar(c) ==
    CASE c = 34             -> <<92, 34>>
      [] c = 92             -> <<92, 92>>
      [] c = 8              -> <<92, 98>>
      [] c = 12             -> <<92, 102>>
      [] c = 10             -> <<92, 110>>
      [] c = 13             -> <<92, 114>>
      [] c = 9              -> <<92, 116>>
      [] c \in 0 .. 31      -> <<92, 117, 48, 48, HexDigit(c \div 16), HexDigit(c % 16)>>
      [] OTHER              -> <<c>>

EscapeString(s) == FlattenSeq([i \in 1 .. Len(s) |-> EscapeChar(s[i])])

----------------------------------------------------------------------------
(* main(): parse, create and initialise the enclave, bind, serve.         *)

HostInit ==
    /\ \E in \in Inputs, hc \in Concurrency :
          cfg = [input |-> Store(in.env, in.cli), hc |-> hc,
                 result |-> ParseInput(in.env, in.cli, hc)]
    /\ mainPc = "parse"
    /\ names = 0 /\ encrypted = "empty" /\ session = "none" /\ provider = "none"
    /\ pc = [t \in Threads |-> "idle"]
    /\ key = [t \in Threads |-> ModelKey]
    /\ result = [t \in Threads |-> "SUCCESS"]
    /\ status = [t \in Threads |-> "none"]
    /\ successes = 0
    /\ hpc = [t \in Threads |-> "idle"]
    /\ route = [t \in Threads |-> "none"]
    /\ callStatus = [t \in Threads |-> "none"]
    /\ http = [t \in Threads |-> NoReply]

\* The configuration main reads once ParseInput returned ContinueSuccess.
Effective == Config(cfg.input, cfg.hc)

\* main, lines 26-33: exit on ExitSuccess / ExitFailure.
Parse ==
    /\ mainPc = "parse"
    /\ mainPc' = CASE cfg.result = "ExitSuccess" -> "exitSuccess"
                   [] cfg.result = "ExitFailure" -> "exitFailure"
                   [] OTHER                      -> "create"
    /\ UNCHANGED <<vars, cfg, hpc, route, callStatus, http>>

\* Enclave::Enclave: oe_create_server_enclave succeeds or throws.
CreateEnclave ==
    /\ mainPc = "create"
    /\ mainPc' \in {"initialize", "exitFailure"}
    /\ UNCHANGED <<vars, cfg, hpc, route, callStatus, http>>

\* Whether the model file the operator deploys is encrypted: it is when a
\* model key is meant to come from provisioning or from the vault.
ModelFileEncrypted(c) == c.use_model_key_provisioning \/ c.akv_model_key_name # NoValue

\* Mutant: the encrypted model is kept whatever the options say
ModelAtInitAlwaysHeld(c) == "held"

\* The model as _EnclaveInitialize leaves it: kept encrypted for a later
\* provisioning request, loaded, or failing (MODEL_LOADING_ERROR).  The
\* enclave's use_akv is !service_kvc.url.empty(), so the vault model key
\* is used whenever a vault URL and a model key name are given.
ModelAtInit(c) ==
    LET useAkv == c.akv_vault_url # NoValue
        vaultModelKey == useAkv /\ c.akv_model_key_name # NoValue
    IN CASE c.use_model_key_provisioning                    -> "held"
         [] ModelFileEncrypted(c) /\ ~vaultModelKey         -> "loadError"
         [] OTHER                                           -> "loaded"

\* Enclave::Initialize: EnclaveInitialize, with its KEY_REFRESH_ERROR when
\* the vault cannot be reached, then the refresher thread is started.
InitializeEnclave ==
    LET c == Effective
        m == ModelAtInit(c)
    IN /\ mainPc = "initialize"
       /\ \/ /\ c.akv_vault_url # NoValue
             /\ mainPc' = "exitFailure"
             /\ UNCHANGED <<names, encrypted, session>>
          \/ /\ m = "loadError"
             /\ mainPc' = "exitFailure"
             /\ UNCHANGED <<names, encrypted, session>>
          \/ /\ m = "held"
             /\ encrypted' = "held" /\ mainPc' = "bind"
             /\ UNCHANGED <<names, session>>
          \/ /\ m = "loaded"
             /\ names' = NumOutputs /\ session' = "loaded" /\ mainPc' = "bind"
             /\ UNCHANGED encrypted
       /\ UNCHANGED <<provider, pc, key, result, status, successes, cfg, hpc, route,
                      callStatus, http>>

\* make_address and App::Bind(...).Run(): a bad address or port throws.
Bind ==
    /\ mainPc = "bind"
    /\ mainPc' \in {"serving", "exitFailure"}
    /\ UNCHANGED <<vars, cfg, hpc, route, callStatus, http>>

\* The process has exited; nothing happens any more.
Exited ==
    /\ mainPc \in {"exitSuccess", "exitFailure"}
    /\ UNCHANGED allVars

----------------------------------------------------------------------------
(* HandleRequest on HTTP thread t                                          *)

InEnclave == {t \in Threads : hpc[t] = "enclave"}
TCSFree == Cardinality(InEnclave) < TCSCount

\* A POST to /score or /provisionModelKey; a request failing the auth-key
\* check is answered 401 without entering the enclave.
Receive(t) ==
    /\ mainPc = "serving"
    /\ hpc[t] = "idle"
    /\ \E r \in {"/score", "/provisionModelKey"}, h \in Headers :
          /\ route' = [route EXCEPT ![t] = r]
          /\ IF AuthOk(Effective, h)
             THEN /\ hpc' = [hpc EXCEPT ![t] = "call"]
                  /\ UNCHANGED http
             ELSE /\ http' = [http EXCEPT ![t] = [route |-> r, code |-> 401, error_code |-> -1]]
                  /\ UNCHANGED hpc
    /\ UNCHANGED <<vars, mainPc, cfg, callStatus>>

\* oe_call_enclave fails and EnclaveSDKError::Check throws: with no free
\* TCS (OE_OUT_OF_THREADS), and at any time for the SDK's other errors
\* (an aborting enclave, a failed marshalling allocation).
EcallFailed(t) ==
    /\ hpc[t] = "call"
    /\ hpc' = [hpc EXCEPT ![t] = "respond"]
    /\ callStatus' = [callStatus EXCEPT ![t] = SdkError]
    /\ UNCHANGED <<vars, mainPc, cfg, route, http>>

\* A provisioning message the confmsg layer refuses before the callback
\* (PayloadParseError, or CryptoError opening it).
ProvisionRejected(t) ==
    /\ hpc[t] = "call" /\ route[t] = "/provisionModelKey" /\ TCSFree
    /\ hpc' = [hpc EXCEPT ![t] = "respond"]
    /\ \E s \in {"PAYLOAD_PARSE_ERROR", "CRYPTO_ERROR"} :
          callStatus' = [callStatus EXCEPT ![t] = s]
    /\ UNCHANGED <<vars, mainPc, cfg, route, http>>

\* The request callback's ProvisionModelKey branch: InitializeModel.
ProvisionEnter(t) ==
    /\ hpc[t] = "call" /\ route[t] = "/provisionModelKey" /\ TCSFree
    /\ Check(t)
    /\ hpc' = [hpc EXCEPT ![t] = "enclave"]
    /\ UNCHANGED <<mainPc, cfg, route, callStatus, http>>

ProvisionLeave(t) ==
    /\ hpc[t] = "enclave"
    /\ Reply(t)
    /\ hpc' = [hpc EXCEPT ![t] = "respond"]
    /\ callStatus' = [callStatus EXCEPT ![t] = status'[t]]
    /\ UNCHANGED <<mainPc, cfg, route, http>>

\* A Score request enters the enclave ...
ScoreEnter(t) ==
    /\ hpc[t] = "call" /\ route[t] = "/score" /\ TCSFree
    /\ hpc' = [hpc EXCEPT ![t] = "enclave"]
    /\ UNCHANGED <<vars, mainPc, cfg, route, callStatus, http>>

\* ... and the callback's Score branch parses, runs the executor and
\* serializes.  The executor is not part of this repository: with a
\* session it may succeed or fail, without one it fails.
ScoreOutcomes ==
    IF session = "loaded"
    THEN {"SUCCESS", "PAYLOAD_PARSE_ERROR", "INFERENCE_ERROR"}
    ELSE {"PAYLOAD_PARSE_ERROR", "INFERENCE_ERROR", "UNKNOWN_ERROR"}

ScoreLeave(t) ==
    /\ hpc[t] = "enclave" /\ route[t] = "/score"
    /\ \E s \in ScoreOutcomes : callStatus' = [callStatus EXCEPT ![t] = s]
    /\ hpc' = [hpc EXCEPT ![t] = "respond"]
    /\ UNCHANGED <<vars, mainPc, cfg, route, http>>

\* Mutant: every exception of the ecall handled as an EnclaveCallError
RespondAsCallError(t) ==
    /\ hpc[t] = "respond"
    /\ http' = [http EXCEPT ![t] =
                  IF callStatus[t] = SdkError
                  THEN [route |-> route[t], code |-> 400, error_code |-> -1]
                  ELSE HttpReply(route[t], callStatus[t])]
    /\ hpc' = [hpc EXCEPT ![t] = "idle"]
    /\ UNCHANGED <<vars, mainPc, cfg, route, callStatus>>

Respond(t) ==
    /\ hpc[t] = "respond"
    /\ http' = [http EXCEPT ![t] = HttpReply(route[t], callStatus[t])]
    /\ hpc' = [hpc EXCEPT ![t] = "idle"]
    /\ UNCHANGED <<vars, mainPc, cfg, route, callStatus>>

\* The enclave-internal steps of InitializeModel, which the host does not see.
EnclaveStep(t) ==
    /\ \/ SetProvider(t) \/ ReadModel(t) \/ Decrypt(t) \/ PushNames(t) \/ Clear(t)
    /\ UNCHANGED hostVars

HostNext ==
    \/ Parse \/ CreateEnclave \/ InitializeEnclave \/ Bind \/ Exited
    \/ \E t \in Threads :
          \/ Receive(t) \/ EcallFailed(t) \/ ProvisionRejected(t)
          \/ ProvisionEnter(t) \/ ProvisionLeave(t) \/ ScoreEnter(t) \/ ScoreLeave(t)
          \/ Respond(t) \/ EnclaveStep(t)

HostSpec == HostInit /\ [][HostNext]_allVars

----------------------------------------------------------------------------
(* Properties                                                             *)

Routes == {"/score", "/provisionModelKey"}
ErrorCodes == {StatusCode[s] : s \in DOMAIN StatusCode} \ {0}

\* The replies request_handler.cc can produce.
Replies ==
    {NoReply}
    \cup [route : Routes, code : {200}, error_code : {0}]
    \cup [route : Routes, code : {400}, error_code : ErrorCodes]
    \cup [route : Routes, code : {401, 500}, error_code : {-1}]

HostTypeOK ==
    /\ TypeOK
    /\ mainPc \in {"parse", "create", "initialize", "bind", "serving", "exitSuccess", "exitFailure"}
    /\ cfg.result \in {"ExitSuccess", "ExitFailure", "ContinueSuccess"}
    /\ hpc \in [Threads -> {"idle", "call", "enclave", "respond"}]
    /\ route \in [Threads -> Routes \cup {"none"}]
    /\ callStatus \in [Threads -> {"none", SdkError} \cup DOMAIN StatusCode]
    /\ http \in [Threads -> Replies]

\* RetryPossible of the composed server: once main serves, a provisioning
\* that failed (refused by the SDK, rejected by confmsg, or failed inside
\* InitializeModel, with another request in the enclave beside it) can be
\* retried, whatever the options.
ServingRetryPossible == mainPc = "serving" => RetryPossible

\* The options, parsed from the environment and the command line, decide
\* how _EnclaveInitialize leaves the model; a /provisionModelKey request is
\* answered 200 only by a server started with --use-model-key-provisioning
\* (or CONFONNX_USE_MODEL_KEY_PROVISIONING).  Any other server loaded its
\* model at start-up and must refuse to have its key replaced.
ProvisionOnlyWhenConfigured ==
    \A t \in Threads :
        (http[t].route = "/provisionModelKey" /\ http[t].code = 200)
            => Effective.use_model_key_provisioning

\* Reference: a JSON string decoder after RFC 8259 section 7, returning the
\* set of decodings ({} when the text is not a valid string body).
JsonSimpleEscapes == (34 :> 34) @@ (92 :> 92) @@ (47 :> 47) @@ (98 :> 8) @@
                     (102 :> 12) @@ (110 :> 10) @@ (114 :> 13) @@ (116 :> 9)
HexValue(d) == CASE d \in 48 .. 57 -> d - 48 [] d \in 97 .. 102 -> d - 87
                 [] d \in 65 .. 70 -> d - 55 [] OTHER -> -1

RECURSIVE JsonUnescape(_)
JsonUnescape(e) ==
    IF e = <<>> THEN {<<>>}
    ELSE LET c == Head(e) IN
      CASE c = 92 /\ Len(e) >= 2 /\ e[2] \in DOMAIN JsonSimpleEscapes ->
             {<<JsonSimpleEscapes[e[2]]>> \o r : r \in JsonUnescape(SubSeq(e, 3, Len(e)))}
        [] c = 92 /\ Len(e) >= 6 /\ e[2] = 117
              /\ \A i \in 3 .. 6 : HexValue(e[i]) >= 0 ->
             {<<4096 * HexValue(e[3]) + 256 * HexValue(e[4]) + 16 * HexValue(e[5]) + HexValue(e[6])>> \o r
                : r \in JsonUnescape(SubSeq(e, 7, Len(e)))}
        [] c \in {34, 92} \cup 0 .. 31 -> {}
        [] OTHER -> {<<c>> \o r : r \in JsonUnescape(Tail(e))}

CONSTANTS
    MessageChars,   \* char codes an error message is made of
    MaxMessage      \* bound on the length of the messages checked

\* Every message of at most MaxMessage characters decodes back to itself.
MessagesRoundTrip ==
    \A s \in SeqOf(MessageChars, MaxMessage) : JsonUnescape(EscapeString(s)) = {s}

\* escape_string turns every message into the body of a JSON string that
\* a JSON parser reads back as exactly that message, so an error message
\* with quotes, backslashes or control characters cannot break the JSON
\* reply CreateJsonError builds around it.  Error replies are sent while
\* the server is serving, so that is where it must hold.
EscapeRoundTrip == mainPc = "serving" => MessagesRoundTrip

====
