---------------------------- MODULE RefreshTimer ----------------------------
(***************************************************************************)
(* The host's key-refresh background thread (Enclave::                    *)
(* StartPeriodicKeyRefreshBackgroundThread, host/enclave.cc) with its     *)
(* CancellableTimer (host/cancellable_timer.h), against the main thread   *)
(* that initialises the enclave (Enclave::Initialize, EnclaveInitialize)  *)
(* and ends the server through Enclave::~Enclave: cancel, join,           *)
(* EnclaveDestroy.  A failed initialisation throws out of Initialize     *)
(* before the refresher is started, and ~Enclave runs during unwinding.   *)
(*                                                                         *)
(* Time is counted in ticks of the error-retry interval; age is the time  *)
(* since the provider's last_refreshed, kept up to MaxAge, beyond which   *)
(* nothing the code decides depends on it.  The refresh itself            *)
(* (EnclaveMaybeRefreshKey) is one step whose outcome is that of          *)
(* RefreshKey(sync_only): the key changed, nothing changed (only possible *)
(* for a sync-only refresh) or a KeyRefreshError.                         *)
(***************************************************************************)
EXTENDS Naturals

CONSTANTS
    SyncInterval,       \* key_sync_interval, in ticks
    RetryInterval,      \* key_error_retry_interval, in ticks
    RolloverInterval    \* key_rollover_interval, in ticks

VARIABLES
    cancelled,  \* CancellableTimer::cancelled_
    rpc,        \* refresher thread: next statement
    site,       \* which wait_for call the refresher is in
    dpc,        \* main thread: serving, joining (after cancel), destroyed
    age,        \* now - last_refreshed, capped at MaxAge
    outcome,    \* result of the last EnclaveMaybeRefreshKey
    enclave     \* the enclave's globals: "empty" (env and confmsg_server
                \* null), "env" (only env set) or "ready" (both set)

vars == <<cancelled, rpc, site, dpc, age, outcome, enclave>>

MaxAge == RolloverInterval + SyncInterval

\* The three wait_for call sites: line 116 (before the loop, outside the
\* try), line 122 (inside the try) and lines 129-138 (catch handlers).
Sites == {"init", "try", "catch"}
Duration(s) == IF s = "catch" THEN RetryInterval ELSE SyncInterval

\* RefreshKey(sync_only): a sync-only refresh may adopt a newer key from the
\* vault or change nothing; a non-sync refresh rolls over or throws.
Outcomes(sync_only) ==
    IF sync_only THEN {"refreshed", "unchanged", "error"} ELSE {"refreshed", "error"}

\* The code's age grows without limit; every comparison the refresher and
\* KeyAgeBounded make is against values up to MaxAge, so older ages are
\* merged into MaxAge to keep the state space finite.
CapAge(a) == IF a > MaxAge THEN MaxAge ELSE a

\* _EnclaveInitialize and its EnclaveInitialize wrapper: the status and the
\* globals left behind.  A failure to create the model key provider
\* escapes before env exists (UNKNOWN_ERROR); a failure to create the
\* service key provider returns KEY_REFRESH_ERROR with env already set,
\* and the confmsg::Server constructor throwing (it generates the first
\* quote) escapes as UNKNOWN_ERROR with env set;
\* InitializeModel failing (without model key provisioning) returns
\* MODEL_LOADING_ERROR, or UNKNOWN_ERROR for a non-ORT exception, with
\* confmsg_server already set.
InitResults ==
    { [status |-> "SUCCESS",             globals |-> "ready"],
      [status |-> "UNKNOWN_ERROR",       globals |-> "empty"],
      [status |-> "KEY_REFRESH_ERROR",   globals |-> "env"],
      [status |-> "UNKNOWN_ERROR",       globals |-> "env"],
      [status |-> "MODEL_LOADING_ERROR", globals |-> "ready"],
      [status |-> "UNKNOWN_ERROR",       globals |-> "ready"] }

\* After the Enclave constructor: the enclave is created, its globals are
\* null and no refresher thread exists.
Init ==
    /\ cancelled = FALSE
    /\ rpc = "notStarted"
    /\ site = "init"
    /\ dpc = "init"
    /\ age = 0
    /\ outcome = "none"
    /\ enclave = "empty"

----------------------------------------------------------------------------
(* Main thread: Enclave::Initialize                                        *)

\* Mutant: the refresher started before the status is checked
InitializeStartingFirst ==
    /\ dpc = "init"
    /\ \E r \in InitResults :
          /\ enclave' = r.globals
          /\ dpc' = IF r.status = "SUCCESS" THEN "serving" ELSE "failed"
    /\ rpc' = "waitCheck"
    /\ UNCHANGED <<cancelled, site, age, outcome>>

\* EnclaveInitialize, then EnclaveCallError::Check(status), which throws
\* on an error; on success StartPeriodicKeyRefreshBackgroundThread starts
\* the refresher, the service key having just been created (age 0).
Initialize ==
    /\ dpc = "init"
    /\ \E r \in InitResults :
          /\ enclave' = r.globals
          /\ IF r.status = "SUCCESS"
             THEN dpc' = "serving" /\ rpc' = "waitCheck"
             ELSE dpc' = "failed" /\ UNCHANGED rpc
    /\ UNCHANGED <<cancelled, site, age, outcome>>

----------------------------------------------------------------------------
(* Refresher thread                                                        *)

\* wait_for, line 18: throw logic_error if already cancelled.  Thrown at
\* line 122 it lands in catch (std::exception&), which calls wait_for
\* again; thrown at line 116 or inside a catch handler it leaves the thread
\* function and std::terminate aborts the process.
WaitCheck ==
    /\ rpc = "waitCheck"
    /\ IF cancelled
       THEN IF site = "try"
            THEN rpc' = "waitCheck" /\ site' = "catch"
            ELSE rpc' = "aborted" /\ UNCHANGED site
       ELSE rpc' = "waitLock" /\ UNCHANGED site
    /\ UNCHANGED <<cancelled, dpc, age, outcome, enclave>>

\* wait_for, lines 22-23: take the mutex and evaluate the predicate; a
\* cancelled timer returns at once, otherwise the thread blocks.
WaitLock ==
    /\ rpc = "waitLock"
    /\ rpc' = IF cancelled THEN "loopCheck" ELSE "blocked"
    /\ UNCHANGED <<cancelled, site, dpc, age, outcome, enclave>>

\* The full duration has elapsed (spurious wakeups re-block, lines 27-30).
Timeout ==
    /\ rpc = "blocked"
    /\ rpc' = "loopCheck"
    /\ age' = CapAge(age + Duration(site))
    /\ UNCHANGED <<cancelled, site, dpc, outcome, enclave>>

\* while (!key_refresh_timer.cancelled())
LoopCheck ==
    /\ rpc = "loopCheck"
    /\ rpc' = IF cancelled THEN "done" ELSE "refresh"
    /\ UNCHANGED <<cancelled, site, dpc, age, outcome, enclave>>

\* Mutant: sync_only computed with <= (a refresh exactly at the interval
\* is a sync)
MaybeRefreshKeyInclusive ==
    /\ rpc = "refresh"
    /\ \E o \in Outcomes(age <= RolloverInterval) :
          /\ outcome' = o
          /\ age' = IF o = "refreshed" THEN 0 ELSE age
          /\ site' = IF o = "error" THEN "catch" ELSE "try"
    /\ rpc' = "waitCheck"
    /\ UNCHANGED <<cancelled, dpc, enclave>>

\* EnclaveMaybeRefreshKey: sync_only = now - last_refreshed < rollover;
\* last_refreshed is set when RefreshKey returns true.  Success continues
\* with wait_for(key_sync_interval) in the try, an error status with
\* wait_for(key_error_retry_interval) in a catch handler.
MaybeRefreshKey ==
    /\ rpc = "refresh"
    /\ \E o \in Outcomes(age < RolloverInterval) :
          /\ outcome' = o
          /\ age' = IF o = "refreshed" THEN 0 ELSE age
          /\ site' = IF o = "error" THEN "catch" ELSE "try"
    /\ rpc' = "waitCheck"
    /\ UNCHANGED <<cancelled, dpc, enclave>>

----------------------------------------------------------------------------
(* Main thread: Enclave::~Enclave                                          *)

\* Mutant: cancel sets the flag but does not notify the condition variable
CancelNoNotify ==
    /\ dpc \in {"serving", "failed"}
    /\ cancelled' = TRUE
    /\ dpc' = "joining"
    /\ UNCHANGED <<rpc, site, age, outcome, enclave>>

\* key_refresh_timer.cancel(): under the mutex, set cancelled_ and
\* notify_all, which wakes a blocked refresher to re-check its predicate.
\* ~Enclave runs when the server stops, or while the exception of a failed
\* Initialize unwinds main's try block.
Cancel ==
    /\ dpc \in {"serving", "failed"}
    /\ cancelled' = TRUE
    /\ rpc' = IF rpc = "blocked" THEN "waitLock" ELSE rpc
    /\ dpc' = "joining"
    /\ UNCHANGED <<site, age, outcome, enclave>>

\* Mutant: the destructor does not join the refresher thread
DestroyWithoutJoin ==
    /\ dpc = "joining"
    /\ dpc' = "destroyed"
    /\ enclave' = "empty"
    /\ UNCHANGED <<cancelled, rpc, site, age, outcome>>

\* EnclaveDestroy: delete confmsg_server and env, whichever are set, and
\* set both to null.
EnclaveDestroy == enclave' = "empty"

\* if (key_refresh_thread) key_refresh_thread->join(), then EnclaveDestroy
\* and oe_terminate_enclave.
JoinAndDestroy ==
    /\ dpc = "joining"
    /\ rpc \in {"done", "notStarted"}
    /\ dpc' = "destroyed"
    /\ EnclaveDestroy
    /\ UNCHANGED <<cancelled, rpc, site, age, outcome>>

\* The process has ended, cleanly or by std::terminate.
Ended ==
    /\ rpc = "aborted" \/ dpc = "destroyed"
    /\ UNCHANGED vars

Next ==
    \/ WaitCheck \/ WaitLock \/ Timeout \/ LoopCheck \/ MaybeRefreshKey
    \/ Initialize \/ Cancel \/ JoinAndDestroy \/ Ended

\* The refresher's own statements and the join make progress; the timeout
\* is left unfair, so a property that holds shows the thread leaves
\* without waiting out an interval, and the server need never shut down.
Fairness ==
    /\ WF_vars(WaitCheck) /\ WF_vars(WaitLock) /\ WF_vars(LoopCheck)
    /\ WF_vars(MaybeRefreshKey) /\ WF_vars(JoinAndDestroy)

Spec == Init /\ [][Next]_vars /\ Fairness

----------------------------------------------------------------------------
(* Properties                                                             *)

\* Shutdown never aborts: neither cancel racing the loop's checks nor a
\* cancel before the first wait makes the refresher throw out of its
\* thread function (spec section 5: on cancel the thread exits promptly).
NeverAborts == rpc # "aborted"

\* EnclaveMaybeRefreshKey, which dereferences confmsg_server and env, is
\* called only on a fully initialised enclave: the refresher is started
\* only after EnclaveInitialize succeeded, and EnclaveDestroy runs only
\* after it has been joined, whichever step of initialisation failed.
RefreshOnlyWhenReady == rpc = "refresh" => enclave = "ready"

\* Once ~Enclave has cancelled the timer, shutdown completes (or the
\* process has aborted) without any wait_for running out its interval.
ShutdownCompletes == dpc = "joining" ~> (dpc = "destroyed" \/ rpc = "aborted")

\* While refreshes succeed, the key is never older than one rollover
\* interval plus one sync interval: EnclaveMaybeRefreshKey asks for a
\* rollover at the first sync tick at which the rollover interval has
\* passed.
KeyAgeBounded == outcome # "error" => age < RolloverInterval + SyncInterval

=============================================================================
