\* Three threads share two models; the callers hold back while the container is cold.
CONSTANTS
    c1 = c1
    c2 = c2
    c3 = c3
    admin = admin
    m1 = m1
    m2 = m2
    m3 = m3
    Threads = {c1, c2, c3}
    Models = {m1, m2}
    NoModel = NoModel
    NoThread = NoThread
    Versions = {1}
    FirstVersion = 1
    Garbage = 0
    Program <- RunTwice
    Warm = FALSE
    MayFail = FALSE
    Gated = TRUE
SPECIFICATION FairSpec
INVARIANTS FreshLease FoldedOnce
PROPERTIES Termination
