CONSTANTS
    Handles = {h1, h2}
    None = none
    Paths <- MCPaths
    Requests <- MCRequests
    MaxWrites = 3
    Agree = TRUE
    Faults = {"kill", "power", "save_fails"}
SPECIFICATION Spec
INVARIANTS AlwaysKept OneSecondLost CloseKeeps OwnData
SYMMETRY Symmetry
CHECK_DEADLOCK FALSE
