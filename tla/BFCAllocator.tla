--------------------------- MODULE BFCAllocator ---------------------------
(* The best-fit allocator with coalescing by which the automatic fusion     *)
(* pass measures how much on-chip memory a fused subgraph needs: the size   *)
(* its simulated pool reaches is the figure a fusion is accepted on.        *)
(*                                                                         *)
(* A block is [offset, size].  memory_pool and free_blocks are sets: their  *)
(* order decides between equally good blocks only.                          *)
EXTENDS Integers, FiniteSets

CONSTANTS
    Owners,    \* who asks for memory: the outputs of the nodes of a subgraph
    Sizes,     \* sizes asked for
    PoolBound  \* bound of the exploration: no request that could grow beyond it

ASSUME SizesAssumption == Sizes \subseteq Nat
ASSUME BoundAssumption == PoolBound \in Nat

VARIABLES
    live,      \* memory_pool, by owner: the offset each caller keeps
    free,      \* free_blocks
    poolSize,  \* mem_pool_size, which total_size returns
    keepLast   \* discipline of the callers, chosen at the start: the block at
               \* the end of the pool is never freed

vars == <<live, free, poolSize, keepLast>>

Block == [offset : Nat, size : Nat]
Piece == {b \in Block : b.size > 0}
Nothing == [offset |-> 0, size |-> 0]

\* Offsets are never negative, and no live or free block is empty (alloc).
TypeOK ==
    /\ live \in [Owners -> Piece \cup {Nothing}]
    /\ free \subseteq Piece
    /\ poolSize \in Nat
    /\ keepLast \in BOOLEAN

-----------------------------------------------------------------------------
End(b) == b.offset + b.size
Used == {live[o] : o \in Owners} \ {Nothing}
Holds(o) == live[o] # Nothing

Init ==
    /\ live = [o \in Owners |-> Nothing]
    /\ free = {}
    /\ poolSize = 0
    /\ keepLast \in BOOLEAN

\* An empty request takes one unit.
Need(size) == IF size = 0 THEN 1 ELSE size

Fits(n) == {b \in free : b.size >= n}
BestFits(n) == {b \in Fits(n) : \A c \in Fits(n) : b.size <= c.size}

\* Faulty form: what is left of the block is forgotten.
NoRest(b, n) == {}

\* Faulty form: an exact fit leaves an empty block behind.
RestAlways(b, n) == {[offset |-> b.offset + n, size |-> b.size - n]}

\* What is left of a block from which n units were taken, if anything.
Rest(b, n) ==
    IF b.size > n THEN {[offset |-> b.offset + n, size |-> b.size - n]} ELSE {}

Give(o, offset, n) ==
    live' = [live EXCEPT ![o] = [offset |-> offset, size |-> n]]

\* The exploration stops before the pool outgrows its bound.
MayGrow(o, n) == ~Holds(o) /\ poolSize + n <= PoolBound

AllocBestFit(o, size) ==
    LET n == Need(size) IN
    /\ ~Holds(o)
    /\ \E b \in BestFits(n) :
          /\ Give(o, b.offset, n)
          /\ free' = (free \ {b}) \cup Rest(b, n)
    /\ UNCHANGED <<poolSize, keepLast>>

\* Last in the order of sort(): by offset, then by size.
Before(b, c) == b.offset < c.offset \/ (b.offset = c.offset /\ b.size < c.size)
IsLast(b) == b \in free /\ \A c \in free \ {b} : Before(c, b)

\* Faulty form: the new size forgets where the enlarged block starts.
AllocExtendRelative(o, size) ==
    LET n == Need(size) IN
    /\ MayGrow(o, n)
    /\ Fits(n) = {}
    /\ \E b \in free :
          /\ IsLast(b) /\ End(b) = poolSize
          /\ Give(o, b.offset, n)
          /\ free' = (free \ {b}) \cup Rest([b EXCEPT !.size = @ + n], n)
    /\ poolSize' = n
    /\ UNCHANGED keepLast

\* A last free block that touches the end of the pool is enlarged by the whole
\* request, and the request is then taken from its front.
AllocExtend(o, size) ==
    LET n == Need(size) IN
    /\ MayGrow(o, n)
    /\ Fits(n) = {}
    /\ \E b \in free :
          /\ IsLast(b) /\ End(b) = poolSize
          /\ Give(o, b.offset, n)
          /\ free' = (free \ {b}) \cup Rest([b EXCEPT !.size = @ + n], n)
          /\ poolSize' = b.offset + n
    /\ UNCHANGED keepLast

AllocGrow(o, size) ==
    LET n == Need(size) IN
    /\ MayGrow(o, n)
    /\ Fits(n) = {}
    /\ \A b \in free : IsLast(b) => End(b) # poolSize
    /\ Give(o, poolSize, n)
    /\ poolSize' = poolSize + n
    /\ UNCHANGED <<free, keepLast>>

-----------------------------------------------------------------------------
\* The neighbours of b in the sorted list of the blocks in blocks.
Previous(b, blocks) ==
    {c \in blocks : Before(c, b) /\ \A d \in blocks : Before(d, b) => d = c \/ Before(d, c)}
Following(b, blocks) ==
    {c \in blocks : Before(b, c) /\ \A d \in blocks : Before(b, d) => d = c \/ Before(c, d)}

\* Faulty form: the block before the freed one is not looked at.
MergeForward(b, blocks) ==
    LET right == {c \in Following(b, blocks) : End(b) = c.offset}
        stop == IF right = {} THEN End(b) ELSE End(CHOOSE c \in right : TRUE)
    IN (blocks \ (right \cup {b})) \cup {[offset |-> b.offset, size |-> stop - b.offset]}

\* b and its adjacent neighbours become one block.
Merge(b, blocks) ==
    LET left == {c \in Previous(b, blocks) : End(c) = b.offset}
        right == {c \in Following(b, blocks) : End(b) = c.offset}
        start == IF left = {} THEN b.offset ELSE (CHOOSE c \in left : TRUE).offset
        stop == IF right = {} THEN End(b) ELSE End(CHOOSE c \in right : TRUE)
    IN (blocks \ (left \cup right \cup {b}))
           \cup {[offset |-> start, size |-> stop - start]}

MayFree(o) == Holds(o) /\ (keepLast => End(live[o]) # poolSize)

\* The first block of blocks at an offset, in the order of sort().
FirstAt(offset, blocks) ==
    {b \in blocks : b.offset = offset
                    /\ \A c \in blocks : c.offset = offset => c.size >= b.size}

\* A block is found by its offset.  Blocks that overlap (which Tiling excludes
\* under the discipline) may share one, and which of them is found first
\* depends on their order in memory_pool.
Free(o) ==
    /\ MayFree(o)
    /\ \E p \in Owners :
          LET b == live[p]
              blocks == free \cup {b}
          IN /\ Holds(p) /\ b.offset = live[o].offset
             /\ live' = [live EXCEPT ![p] = live[o], ![o] = Nothing]
             /\ \E f \in FirstAt(b.offset, blocks) : free' = Merge(f, blocks)
    /\ UNCHANGED <<poolSize, keepLast>>

Next ==
    \E o \in Owners :
        \/ \E size \in Sizes : AllocBestFit(o, size) \/ AllocExtend(o, size) \/ AllocGrow(o, size)
        \/ Free(o)

Spec == Init /\ [][Next]_vars

-----------------------------------------------------------------------------
(* Properties.                                                             *)

Units(b) == b.offset .. End(b) - 1
Apart(b, c) == End(b) <= c.offset \/ End(c) <= b.offset

\* As long as nobody frees the block at the end of the pool, the live and the
\* free blocks never overlap and together make up the whole pool: no unit is
\* given twice and none is lost (alloc, free and the merge).
Tiling ==
    keepLast =>
        /\ \A o, p \in Owners :
              o # p /\ Holds(o) /\ Holds(p) => Apart(live[o], live[p])
        /\ \A b \in free : \A o \in Owners : Holds(o) => Apart(b, live[o])
        /\ \A b, c \in free : b # c => Apart(b, c)
        /\ UNION {Units(b) : b \in Used \cup free} = 0 .. poolSize - 1

\* Under the same discipline no two free blocks touch: what can be given as
\* one block is kept as one block (free, "Merge adjacent free blocks").
Coalesced ==
    keepLast => \A b, c \in free : End(b) # c.offset

\* The figure total_size reports never falls: it is a peak.
PeakNeverFalls == [][poolSize' >= poolSize]_vars
=============================================================================
