CONSTANTS
    Handles = {h1, h2}
    Isolated = {}
    Siblings = {}
    Given = {}
    Writers = {}
    Threads = {t1}
    Shared = shared
    None = none
    Torn = torn
    DeepPath = FALSE
    Serialized = FALSE
    Faults = {"client_crash", "pid_reuse", "slow_start", "ping_rejected", "save_fails", "no_binary", "bad_config", "bad_override", "interrupt", "count_timeout", "shutdown_fails", "hung_daemon", "external_client", "pool_growth", "use_after_close"}
SPECIFICATION Spec
INVARIANTS TypeOK LockReleased
SYMMETRY Symmetry
CHECK_DEADLOCK FALSE
