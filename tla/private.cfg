CONSTANTS
    Handles = {p1, p2}
    Isolated = {p1, p2}
    Siblings = {}
    Given = {p2}
    Writers = {}
    Threads = {t1, t2}
    Shared = shared
    None = none
    Torn = torn
    DeepPath = TRUE
    Serialized = FALSE
    Faults = {"daemon_crash", "shutdown_fails", "hung_daemon", "bad_config", "no_binary"}
SPECIFICATION FairSpec
INVARIANTS OneTeardown RetiredInert PrivateReleased
PROPERTIES CallsReturn
CHECK_DEADLOCK FALSE
