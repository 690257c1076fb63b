\* Four callers share a pool of up to six units.
CONSTANTS
    o1 = o1
    o2 = o2
    o3 = o3
    o4 = o4
    Owners = {o1, o2, o3, o4}
    Sizes = {0, 1, 2, 3}
    PoolBound = 6
SPECIFICATION Spec
SYMMETRY Symmetry
INVARIANTS TypeOK Tiling Coalesced
PROPERTIES PeakNeverFalls
