\* One thread seeds the generator, sets its state and initialises.
CONSTANTS
    t1 = t1
    t2 = t2
    t3 = t3
    Threads = {t1}
    Nobody = Nobody
    Program <- Seeded
    MayFail = FALSE
SPECIFICATION Spec
INVARIANT GeneratorInOrder
