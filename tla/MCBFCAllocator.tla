-------------------------- MODULE MCBFCAllocator --------------------------
(* Small instances of BFCAllocator for TLC.                                *)
EXTENDS BFCAllocator, FiniteSetsExt, TLC

CONSTANTS o1, o2, o3, o4

Symmetry == Permutations(Owners)

Demand == MapThenSumSet(LAMBDA o : live[o].size, Owners)

\* "The total size of the memory pool" is "the peak memory usage": it covers
\* what is in use at the same time (mem_pool_size, total_size).
PeakCoversDemand == Demand <= poolSize
=============================================================================
