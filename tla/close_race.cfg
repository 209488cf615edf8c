CONSTANTS
    Handles = {h1, h2}
    Isolated = {}
    Siblings = {}
    Given = {}
    Writers = {}
    Threads = {t1}
    Shared = shared
    None = none
    Torn = torn
    DeepPath = FALSE
    Serialized = FALSE
    Faults = {}
SPECIFICATION Spec
INVARIANTS NoOrphan
CHECK_DEADLOCK FALSE
