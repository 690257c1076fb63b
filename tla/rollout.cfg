\* New weights are rolled out twice while two threads serve.
CONSTANTS
    c1 = c1
    c2 = c2
    c3 = c3
    admin = admin
    m1 = m1
    m2 = m2
    m3 = m3
    Threads = {c1, c2, admin}
    Models = {m1, m2, m3}
    NoModel = NoModel
    NoThread = NoThread
    Versions = {1, 2}
    FirstVersion = 1
    Garbage = 0
    Program <- RolloutTwice
    Warm = FALSE
    MayFail = FALSE
    Gated = FALSE
SPECIFICATION Spec
SYMMETRY ClientSymmetry
INVARIANTS NoLostModel ReadyForAll AttachedToActive
PROPERTIES StableWhileInUse
