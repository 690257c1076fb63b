\* Two threads and one model, cold: the fold of one waits for the lock of the other.
CONSTANTS
    c1 = c1
    c2 = c2
    c3 = c3
    admin = admin
    m1 = m1
    m2 = m2
    m3 = m3
    Threads = {c1, c2}
    Models = {m1}
    NoModel = NoModel
    NoThread = NoThread
    Versions = {1}
    FirstVersion = 1
    Garbage = 0
    Program <- RunOnce
    Warm = FALSE
    MayFail = FALSE
    Gated = FALSE
SPECIFICATION Spec
INVARIANT SleepersCanWake
CHECK_DEADLOCK FALSE
