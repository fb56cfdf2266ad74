CONSTANTS
    SyncInterval = 3
    RetryInterval = 1
    RolloverInterval = 6
SPECIFICATION Spec
INVARIANT KeyAgeBounded
INVARIANT RefreshOnlyWhenReady
PROPERTY ShutdownCompletes
