CONSTANTS
    Servers = {s1, s2, s3}
    OwnsDir = {s1, s2}
    Persist = {}
    SameDir = {}
    main = main
    Threads = {main}
    Session = s1
    MaxTests = 2
    Pids = {d1, d2}
    Ports = {n1, n2, n3}
    Fixed = {}
    FixedPort = n1
    PortInConfig = {}
    PidInConfig = {}
    None = none
    Outsider = outsider
    DeepDir = FALSE
    Overlap = "none"
    Faults = {"bad_config", "daemon_crash"}
SPECIFICATION FairPrograms
INVARIANTS NoneLeft FactoryReleases
PROPERTIES FlushesOwn Finishes
CHECK_DEADLOCK FALSE
