\* Three threads queue calls and race to initialise.
CONSTANTS
    t1 = t1
    t2 = t2
    t3 = t3
    Threads = {t1, t2, t3}
    Nobody = Nobody
    Program <- Racing
    MayFail = TRUE
SPECIFICATION Spec
INVARIANTS TypeOK StartedOnce NoSelfWait EarlyCallsRun StatesInOrder
