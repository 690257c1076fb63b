---------------------------- MODULE KernelLaunch ----------------------------
(***************************************************************************)
(* How a generated kernel is spread over the programs of a launch.  The     *)
(* grid of a kernel has at most as many programs as the device has cores,   *)
(* and program pid works on the blocks pid, pid + block_step, ... of a      *)
(* space of up to three dimensions (_inductor/codegen/triton.py and the     *)
(* grids of _inductor/runtime/triton_heuristics.py).  A combo kernel is     *)
(* several kernels in one launch, which share the programs round robin.     *)
(*                                                                         *)
(* A kernel is its numbers of elements and its block sizes in x, y and z,   *)
(* 1 for a dimension it does not have.  The grids ask ceildiv about the     *)
(* name of a size ("xnumel"), so that x_grid is an expression, evaluated    *)
(* at the launch: the branches for numbers known before, and the limit      *)
(* from_meta puts on such numbers, are never taken.  combo_x_grid and       *)
(* min_blocks of a combo kernel come from PyTorch.                          *)
(***************************************************************************)
EXTENDS Naturals, Sequences, FiniteSets, FiniteSetsExt

CONSTANTS
    Launches      \* records [kernels, cores, minBlocks]

\* Kernels may be empty; blocks are not, and there is a core.  min_blocks is a number
\* of blocks for each of the kernels, or 0 for None.
ASSUME LaunchesAssumption == \A l \in Launches :
    /\ l.kernels \in Seq([numel : [1..3 -> Nat], block : [1..3 -> Nat \ {0}]]) \ {<<>>}
    /\ l.cores \in Nat \ {0}
    /\ l.minBlocks \in Nat /\ l.minBlocks % Len(l.kernels) = 0

VARIABLES
    launch,
    grid,         \* programs of the launch; 0 before it
    cursor,       \* block_id of each program
    counts        \* how often each element was written

launchVars == <<launch, grid, cursor, counts>>

Kernels == DOMAIN launch.kernels
CeilDiv(a, b) == (a + b - 1) \div b
OffsetNum(k, d) == CeilDiv(launch.kernels[k].numel[d], launch.kernels[k].block[d])
BlocksOf(k) == OffsetNum(k, 1) * OffsetNum(k, 2) * OffsetNum(k, 3)
Least(a, b) == IF a < b THEN a ELSE b
Greatest(a, b) == IF a < b THEN b ELSE a

Elements == UNION {LET n == launch.kernels[k].numel
                   IN {k} \X (0..(n[1] - 1)) \X (0..(n[2] - 1)) \X (0..(n[3] - 1)) : k \in Kernels}

-----------------------------------------------------------------------------
\* In y, Grid2DWithYZOverflow rounds up above 65535 blocks: more than the cores all the same.
SingleGrid == Least(BlocksOf(1), launch.cores)

\* As many programs for each kernel as the widest has blocks in x; XBLOCK is one for all.
ComboXGrid == Len(launch.kernels) * Max({OffsetNum(k, 1) : k \in Kernels})
ComboGrid == Greatest(ComboXGrid, launch.minBlocks)

Grid == IF Len(launch.kernels) > 1 THEN ComboGrid ELSE SingleGrid

KernelOf(pid) == (pid % Len(launch.kernels)) + 1
PidOffset(pid) == pid \div Len(launch.kernels)
NumPrograms == grid
BlockStep == grid \div Len(launch.kernels)

Launch ==
    /\ grid = 0
    /\ grid' = Grid
    /\ cursor' = [pid \in 0..(Grid - 1) |-> PidOffset(pid)]
    /\ UNCHANGED <<launch, counts>>

\* The offsets of a block, and the elements under its masks.
XOffset(k, id) == (id % OffsetNum(k, 1)) * launch.kernels[k].block[1]
YOffset(k, id) == ((id \div OffsetNum(k, 1)) % OffsetNum(k, 2)) * launch.kernels[k].block[2]
ZOffset(k, id) == (id \div (OffsetNum(k, 2) * OffsetNum(k, 1))) * launch.kernels[k].block[3]

Span(k, d, offset) ==
    {i \in offset..(offset + launch.kernels[k].block[d] - 1) : i < launch.kernels[k].numel[d]}
ElementsAt(k, id) ==
    {k} \X Span(k, 1, XOffset(k, id)) \X Span(k, 2, YOffset(k, id)) \X Span(k, 3, ZOffset(k, id))

Working(pid) == cursor[pid] < BlocksOf(KernelOf(pid))
WriteBlock(pid) ==
    /\ Working(pid)
    /\ counts' = [e \in Elements |->
                    counts[e] + (IF e \in ElementsAt(KernelOf(pid), cursor[pid]) THEN 1 ELSE 0)]
    /\ cursor' = [cursor EXCEPT ![pid] = @ + BlockStep]
    /\ UNCHANGED <<launch, grid>>

LaunchInit ==
    /\ launch \in Launches
    /\ grid = 0
    /\ cursor = <<>>
    /\ counts = [e \in Elements |-> 0]

LaunchNext == Launch \/ \E pid \in DOMAIN cursor : WriteBlock(pid)
LaunchSpec == LaunchInit /\ [][LaunchNext]_launchVars

-----------------------------------------------------------------------------
LaunchTypeOK ==
    /\ grid \in Nat
    /\ cursor = <<>> \/ DOMAIN cursor = 0..(grid - 1)
    /\ DOMAIN counts = Elements

\* Whatever the order in which the programs run, no two of them write the same
\* element, and when all have ended every element of every kernel was written: the
\* blocks are dealt out without gap or overlap although there are fewer programs
\* than blocks, or more, and the last block of a dimension may be incomplete
\* (the loop over block_id of codegen_kernel, codegen_pid_range, the grids).
EachElementOnce ==
    /\ \A e \in Elements : counts[e] <= 1
    /\ grid > 0 /\ (\A pid \in DOMAIN cursor : ~Working(pid)) => \A e \in Elements : counts[e] = 1
=============================================================================
