CONSTANTS
    Clients = {c1, c2, c3}
    Paths = {f1, f2}
    None = none
    PatchFirst = TRUE
SPECIFICATION Spec
INVARIANTS Restorable OneDaemon Served Tidy
CHECK_DEADLOCK FALSE
