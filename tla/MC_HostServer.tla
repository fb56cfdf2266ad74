---------------------------- MODULE MC_HostServer ----------------------------
EXTENDS HostServer, TLC

CONSTANTS t1, t2, kModel, kOther

MCThreads == {t1, t2}
MCKeys == {kModel, kOther}

\* A deployment: the enclave binary exists, the model file "model" does.
MCFiles == {"confonnx_enclave", "model"}

NoEnv == [o \in {} |-> NoValue]
AuthEnv == [auth_key |-> "ka"]

\* Start-ups that serve: the plain model without and with an auth key from
\* the environment (the command line's --auth-key "kb" loses to it); an
\* encrypted model awaiting provisioning; a vault with a model key; a vault
\* URL without --use-akv.
ServingInputs ==
    {[env |-> NoEnv, cli |-> [model_path |-> "model"]],
     [env |-> AuthEnv, cli |-> [model_path |-> "model", auth_key |-> "kb"]],
     [env |-> NoEnv, cli |-> [model_path |-> "model", use_model_key_provisioning |-> TRUE]],
     [env |-> NoEnv, cli |-> [model_path |-> "model", use_akv |-> TRUE, akv_app_id |-> "id",
                              akv_app_pwd |-> "pw", akv_vault_url |-> "vault",
                              akv_model_key_name |-> "mk"]],
     [env |-> NoEnv, cli |-> [model_path |-> "model", akv_vault_url |-> "vault",
                              akv_model_key_name |-> "mk"]]}

\* Start-ups that exit: --use-akv lacking credentials, provisioning with a
\* vault model key, a model key name without a vault, a missing model file,
\* no HTTP thread, --help, and no --model-path.
ExitingInputs ==
    {[env |-> NoEnv, cli |-> c] :
        c \in {[model_path |-> "model", use_akv |-> TRUE],
               [model_path |-> "model", use_model_key_provisioning |-> TRUE,
                akv_model_key_name |-> "mk"],
               [model_path |-> "model", akv_model_key_name |-> "mk"],
               [model_path |-> "other", use_model_key_provisioning |-> TRUE],
               [model_path |-> "model", num_http_threads |-> 0],
               [help |-> TRUE],
               [use_model_key_provisioning |-> TRUE]}}

MCInputs == ServingInputs \cup ExitingInputs

MCMessageChars == {97, 34, 92, 10, 8, 1, 127, -61}

ThreadSymmetry == Permutations(MCThreads)
=============================================================================
