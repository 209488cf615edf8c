CONSTANTS
    Handles = {h1, h2, h3}
    Isolated = {}
    Siblings = {}
    Given = {}
    Writers = {}
    Threads = {t1}
    Shared = shared
    None = none
    Torn = torn
    DeepPath = FALSE
    Serialized = TRUE
    Faults = {"daemon_crash", "client_crash_idle", "shutdown_fails", "hung_daemon", "ping_rejected", "bad_config", "bad_override", "no_binary"}
SPECIFICATION Spec
INVARIANTS OneDaemon NoOrphan Tidy RemovesUnused RollbackSparesOthers
PROPERTIES SharedStaysUp
SYMMETRY Symmetry
CHECK_DEADLOCK FALSE
