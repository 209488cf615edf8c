CONSTANTS
    Servers = {s1}
    OwnsDir = {s1}
    Persist = {}
    SameDir = {}
    Threads = {t1, t2}
    Pids = {d1, d2}
    Ports = {n1, n2}
    Fixed = {}
    FixedPort = n1
    PortInConfig = {s1}
    PidInConfig = {}
    None = none
    Outsider = outsider
    DeepDir = TRUE
    Overlap = "any"
    Faults = {"daemon_crash", "pid_reuse", "port_taken", "slow_start", "no_binary", "bad_config", "shutdown_fails", "hung_daemon", "slow_exit"}
SPECIFICATION Spec
INVARIANTS TypeOK
CHECK_DEADLOCK FALSE
