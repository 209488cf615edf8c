CONSTANTS
    Servers = {s1, s2}
    OwnsDir = {s1}
    Persist = {s1}
    SameDir = {}
    Threads = {t1, t2}
    Pids = {d1, d2}
    Ports = {n1, n2}
    Fixed = {}
    FixedPort = n1
    PortInConfig = {}
    PidInConfig = {}
    None = none
    Outsider = outsider
    DeepDir = TRUE
    Overlap = "stops"
    Faults = {"daemon_crash", "shutdown_fails", "hung_daemon", "slow_exit", "no_binary"}
SPECIFICATION FairSpec
INVARIANTS OneDaemon StopReleases StartsAgain 
PROPERTIES ReadyIsOurs OthersSpared ExitReleases
CHECK_DEADLOCK FALSE
