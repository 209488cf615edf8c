CONSTANTS
    Handles = {h1, h2, h3, h4}
    Isolated = {}
    Siblings = {}
    Given = {h3}
    Writers = {h1, h2}
    Threads = {t1}
    Shared = shared
    None = none
    Torn = torn
    DeepPath = TRUE
    Serialized = TRUE
    Faults = {}
SPECIFICATION FairSpec
INVARIANTS Served
PROPERTIES ImplementsStore
CHECK_DEADLOCK FALSE
