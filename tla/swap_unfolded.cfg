\* Weights are swapped in unfolded while a thread folds the old ones.
CONSTANTS
    c1 = c1
    c2 = c2
    c3 = c3
    admin = admin
    m1 = m1
    m2 = m2
    m3 = m3
    Threads = {c1, admin}
    Models = {m1, m2}
    NoModel = NoModel
    NoThread = NoThread
    Versions = {1, 2}
    FirstVersion = 1
    Garbage = 0
    Program <- SwapUnfolded
    Warm = FALSE
    MayFail = FALSE
    Gated = FALSE
SPECIFICATION Spec
INVARIANT ReadyForAll
