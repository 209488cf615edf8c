CONSTANTS
    Handles = {h1, h2, p1}
    Isolated = {p1}
    Siblings = {h2}
    Given = {h1}
    Writers = {}
    Threads = {t1}
    Shared = shared
    None = none
    Torn = torn
    DeepPath = TRUE
    Serialized = FALSE
    Faults = {}
SPECIFICATION Spec
INVARIANTS Isolation OwnPath
CHECK_DEADLOCK FALSE
