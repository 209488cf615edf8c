CONSTANTS
    Versions = {v1, v2}
    Pinned = {v1}
    None = none
    Torn = torn
    Faults = {"no_compiler", "no_network", "altered", "compile_fails", "busy", "unrunnable", "interrupt", "clean"}
SPECIFICATION Spec
INVARIANTS OnlyVerified ReportsItsServer
PROPERTIES WheelComplete
CHECK_DEADLOCK FALSE
