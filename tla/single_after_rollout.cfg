\* run_single_threaded after a complete rollout.
CONSTANTS
    c1 = c1
    c2 = c2
    c3 = c3
    admin = admin
    m1 = m1
    m2 = m2
    m3 = m3
    Threads = {c1, admin}
    Models = {m1, m2}
    NoModel = NoModel
    NoThread = NoThread
    Versions = {1}
    FirstVersion = 1
    Garbage = 0
    Program <- SingleThreaded
    Warm = FALSE
    MayFail = FALSE
    Gated = FALSE
SPECIFICATION Spec
PROPERTY SingleRunsFolded
