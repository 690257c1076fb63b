\* The block at the end of the pool is freed and enlarged.
CONSTANTS
    o1 = o1
    o2 = o2
    o3 = o3
    o4 = o4
    Owners = {o1, o2}
    Sizes = {0, 1, 2}
    PoolBound = 6
SPECIFICATION Spec
SYMMETRY Symmetry
INVARIANT PeakCoversDemand
