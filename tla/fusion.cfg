\* The fusion pass on 23 graphs, from the search to the kernel.
CONSTANTS
    Dynamic = {5}
    MaxOutputs = 4
    CoAlign = 2
    CiAlign = 2
    PoolLimit = 1000
    Names <- MCNames
    Cases <- MCCases
    StartOps <- MCStartOps
    FreshNames <- MCFresh
SPECIFICATION Spec
CHECK_DEADLOCK FALSE
INVARIANTS TypeOK Convex InOrder KernelAgrees NoRetry FitsOnChip ResidentWhenRead PlanNeverFails TileSound
PROPERTIES Terminates
