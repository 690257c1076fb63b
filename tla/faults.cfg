\* Every operation, with device calls that may fail; a failure may block the pool.
CONSTANTS
    c1 = c1
    c2 = c2
    c3 = c3
    admin = admin
    m1 = m1
    m2 = m2
    m3 = m3
    Threads = {c1, c2, admin}
    Models = {m1, m2}
    NoModel = NoModel
    NoThread = NoThread
    Versions = {1, 2}
    FirstVersion = 1
    Garbage = 0
    Program <- Everything
    Warm = TRUE
    MayFail = TRUE
    Gated = FALSE
SPECIFICATION Spec
SYMMETRY ModelSymmetry
INVARIANTS TypeOK ExclusiveLease
PROPERTIES ImplementsPool
CHECK_DEADLOCK FALSE
