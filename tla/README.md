# Verification of torch_mlu

TLA+ specifications of the parts of `torch_mlu` that have a state of their own:
the container that serves compiled models from several threads, and its
constants in memory; the lazy initialisation of the device runtime; the automatic
fusion pass of the compiler, from its search for subgraphs to the kernel in the graph;
tensors shared between processes; graphs of several callables in one memory pool;
contexts of devices, streams and captures; and the way a kernel is spread over the
programs of a launch. TLC checks each on small instances; TLAPS proves the most
important results for every instance. The reference is the code under `src/`;
every definition of a model names the lines it stands for in `PROJECT.json` ("map").

1. The system · 2. Modules · 3. What is checked · 4. What is proved ·
5. Where the code departs from what it says · 6. Not modelled · 7. Plan · 8. Running

## 1. The system

`torch_mlu` adds a device to PyTorch. Most of its 302 files are patches of
PyTorch modules and translation of programs (`_inductor`, `_dynamo`,
`_functorch`), which keep no state between two calls. What is left:

| Component | Code | State | Operations | What is hard |
|---|---|---|---|---|
| **Model container** | `csrc/include/framework/inductor/aoti_runtime/model_container.h` | lists of available and pending models, two buffers of constants with a state each, `use_secondary_`, a shared mutex, a mutex with a condition variable | `run`, `run_single_threaded`, `run_const_fold`, `update_constant_buffer` (three forms), `swap_constant_buffer`, `free_inactive_constant_buffer`, `update_constants_from_blob` | threads hold a model while they change locks; asynchronous device work; some operations take no lock; exceptions between two steps |
| **Constants of a model** | `model_container.h`, `aoti_runtime/model_base.h` | two blobs, two maps of handles, two arrays of handles, owners | the same, in memory | who owns a handle; offsets; what a swap or a release leaves dangling |
| **Lazy initialisation** | `mlu/__init__.py`, `mlu/random.py` | `_initialized`, lock, thread-local mark, queue of calls, seed tracker | `_lazy_call`, `_lazy_init` | double-checked locking, re-entrant callbacks, calls queued while the queue is drained |
| **Fusion: tile rules** | `_inductor/fx_passes/triton_fusion/processors/op_processor.py` | none | `infer_tiledim_back`, `infer_tiledim_front` of each kind of operator | dimensions counted in the operand or in the result, from the front or the back |
| **Fusion: partition** | `auto_fusion/graph_partition.py` | tiles, subgraph, best subgraph so far, nodes that failed | `find_subgraphs`, `fuse_greedily`, `fuse_along_dim` | a fixpoint in two directions over state that changes while it is iterated over |
| **Fusion: memory estimate** | `auto_fusion/memory_calculator.py`, `auto_fusion/allocator.py` | use counts, live and free blocks, size of each pool | `get_memory_total_size`; `alloc`, `free`, `total_size` | reads and returns in the right number; boundaries of blocks and pools |
| **Fusion: pass** | `triton_fusion/triton_fusion.py`, `transforms/` | the graph, nodes that failed | search, transform, insert, try again | order of the graph; retry without repeating |
| **Inter-process tensors** | `mlu/reductions.py` | cache of shared storages, references that came with tensors | `rebuild_mlu_tensor`, `reduce_tensor` | one reference per send, released once; weak references; threads |
| **Graphed callables** | `mlu/graphs.py` | static buffers, graphs, one pool | `make_graphed_callables`, `Graphed.forward`, `Graphed.backward` | memory that dies in one capture is the next one's |
| **Contexts** | `mlu/__init__.py`, `mlu/graphs.py` | current device, current stream of each device, fields of the context objects | enter, exit | nesting over several devices; errors of a capture |
| **Launch of a kernel** | `_inductor/codegen/triton.py`, `triton_combo_kernel.py`, `_inductor/runtime/triton_heuristics.py` | which blocks each program has done | grid, loop over blocks | fewer programs than blocks, or more; incomplete blocks |
| Graph trees | `_inductor/cudagraph_trees.py` | patches of a manager kept in PyTorch | record, add function | its state machine is not in this repository |
| Process group, caching allocator, generator | headers under `csrc/include/framework` | declared only | declared only | the implementation is not in this repository |
| Code generation, graph passes, front ends, optimizers, profiler, tools | the rest | none between two calls | translation, numerical code, reports | sequential |

How they interact. A compiled model is loaded into a container, whose methods
an inference server calls from its threads; the container gives each call a
model and the model gives work to the device, which completes it later and
answers a *notifier* query. A manager thread rolls out new weights through the same
container. Every entry of the Python layer calls `_lazy_init` first, and
`manual_seed` or `set_rng_state` may be called long before it.

The fusion pass, at compile time, asks the partition for a subgraph; the partition asks the
tile rules about every node, and the memory estimate about every node it is about to
take; the estimate replays the subgraph on three allocators. Then the pass
asks the tile rules once more about the whole subgraph, generates a kernel and puts it into the
graph, and begins again. The last five components above do not interact with each other:
each is used by user code or by a generated program.

## 2. Modules

| Module | Kind | Models |
|---|---|---|
| `ModelContainer` | component | the container, its clients' steps, the device |
| `ModelPool` | abstract specification | what the pool of models promises: a model is free or leased to one client |
| `MCModelContainer` | instance | programs of the threads, symmetry |
| `ModelContainerProofs` | proofs | type correctness, exclusive leases, refinement, readiness, rollouts; models are stable, attached and fresh while a call has them |
| `LazyInit` | component | the queue, the seed tracker, the initialisation |
| `MCLazyInit` | instance | programs of the threads |
| `LazyInitProofs` | proofs | one start, no self-wait, types, every early call runs, order of states |
| `BFCAllocator` | component | the allocator and the discipline of its callers |
| `MCBFCAllocator` | instance | demand, symmetry |
| `BFCAllocatorProofs` | proofs | well-formed blocks, the size is monotone; tiling and merging under the discipline |
| `TileDims` | operators | the operator graph; the tile rules of every kind of operator, back and front |
| `TileMeaning` | reference definition | which elements of its operands an element of a result is computed from |
| `MemoryPlan` | component | the estimate; three instances of `BFCAllocator` |
| `GraphPartition` | component | the search, extending `MemoryPlan` |
| `TritonFusion` | component | the pass, extending `GraphPartition` and `TileMeaning` |
| `MCTritonFusion` | instance | 23 graphs, three chips, limits |
| `TritonFusionProofs` | proofs | types, convex subgraphs, order of the graph, what was set aside is avoided; kernels agree about tiles, estimates keep what is read |
| `ConstantStore` | component | blobs, maps, arrays and owners of the constants |
| `WeightBuffers` | abstract specification | two buffers of weights, without memory |
| `ConstantStoreProofs` | proofs | types, folds are up to date, weights in use stay readable, refinement |
| `SharedStorage` | component | sends, the cache of storages, threads that rebuild |
| `GraphedCallables` | component | captures in one pool, replays of a training loop |
| `GraphedCallablesProofs` | proofs | types, replays are undisturbed, gradients come back in place |
| `StreamContexts` | component | the context managers of one thread |
| `RuntimeProofs` | proofs | of `SharedStorage`: types, references, memory under a tensor; of `StreamContexts`: types, contexts restore, captures keep their stream |
| `KernelLaunch` | component | grid, loop over blocks, combo kernels |
| `KernelLaunchProofs` | proofs | types, each element is done once |
| `MCRuntime` | instance | the last five components, one of which runs |

Component modules also have *faulty forms* of some of their definitions
(`TakeWithoutPop`, `InitLockUnchecked`, `KeyWithoutOffset`, ...), each a plausible bug
of the code. They take no part in the specification: put in the
place of the definition they vary, they show that a property would notice.

### 2.1 ModelContainer

A thread makes the calls of `Program[t]` one after the other. `pc[t]` says where
it is in its current call, `held[t]` is the local variable `model`, `ref[t]` the
local reference `const_folded` (or the map an update has chosen), `result[t]` the
folded constants a fold returned. A step ends where the code takes or
drops `model_exec_mutex_` or `models_mutex_`, waits, or touches unprotected state:

| Call | Steps |
|---|---|
| `run` | `CallRun`, `LockShared`, then the steps of `get_available_model`, `CheckFolded` or `CheckInitialized` or `CheckThrows`; to fold, `LockUniqueToRun`, `Fold`, `Install`, `LockShared`; `Execute`, `Push`, `Notify` |
| `get_available_model` | `TakeAvailable`; or `Reclaim`; or `AwaitPending`, `Completed`; or `Sleep`, and `AwaitPending` when woken |
| `run_const_fold` | `CallFold`, `LockUniqueToFold` or `LockShared`, a model, `Fold`, `Install`, `Push`, `Notify` |
| `swap_constant_buffer` | `CallSwap`, `Swap` |
| `update_constant_buffer` (copies) | `CallUpdate`, `UpdateMap`, `UpdateCopy`, `UpdateArray`: no lock, and the target is chosen again at each step |
| `update_constant_buffer` (moves) | part of `Install` |
| `free_inactive_constant_buffer` | `CallFree`, `FreeFolded`: no lock |
| `run_single_threaded` | `RunSingleFolding`, `RunSingle`: atomic, as the caller must be alone, and must find a model among the available ones (the code takes the first of that list without looking, section 5) |
| an exception | `QueryFails`, `WaitFails`, `ExecuteFails`, `FoldFails`, `UpdateFails`, each with what the code does to the model and the locks |

The device is the set `executing` and the action `Finish`. Condition-variable
wake-ups may be spurious (`SpuriousWakeup`).

Constants are abstracted to the version of the weights they come from. A blob
holds a version or `Garbage`. A map, and the array built from it, say in which blob
the loaded constants live (`home`) and from which version the folded ones were
computed (`folded`). `Ready(b)` is the condition for a launch on buffer `b`: loaded, and
folded from what is loaded. `ConstantStore` opens this abstraction up.

The two lists of the pool are sets. Their order only chooses between models. One
thing is lost: `is_finished` may throw in the middle of `std::stable_partition`,
which then leaves the list in no particular state (entries may be lost or
doubled); the model keeps the list, as `std::partition` (the branch for aarch64) does.

`ModelPool` has three actions, `Lease`, `GiveBack` and `Lose`. The refinement maps
`free` to `available \cup pending` and `lease` to `held`. `Lose` is there because the code
does lose a model when a call throws outside the `try` block of `run`.

### 2.2 LazyInit

A call is `<<thread, index>>`. `_lazy_call` is two steps when the runtime is not
initialised: the look at `is_initialized()` (`CallLater`) and the write of the
queue (`Register`), between which any thread may run. `_lazy_init` has one
step per statement that another thread could see. The queue is read live: a call
appended while it is drained is drained too, as Python's iteration over a list
does. `_LazySeedTracker` comes from PyTorch and is modelled as external: it keeps
the latest call of each kind and their order. `ran` and `early` are history.

### 2.3 BFCAllocator

`live` gives each caller its block, `free` is the free list, `poolSize` is what
`total_size` returns. `alloc` is `AllocBestFit`, `AllocExtend` or `AllocGrow`,
`free` with its merge is `Free`. The list is kept sorted where its order
matters, so a set with `Before` is enough; between free blocks of equal size any may be
chosen. Two equal entries, which the list may have once blocks overlap (finding 4), are one in the set:
no property is checked beyond that point but `PeakCoversDemand`, for which it makes no difference, and
`PeakNeverFalls`. `keepLast`, chosen at the start, is a
discipline of the callers (see section 5): when TRUE, the block at
the end of the pool is never freed.

### 2.4 The fusion pass

A graph is a sequence of node names and a record for each node: kind of operator,
operands, integer arguments, shapes of the outputs. Nodes stand for tensors only. Sizes
are in units of one data type. A symbolic size is a member of `Dynamic`. Users of a node are listed
in graph order. Python sets that are listed (`list(set)`) have an
arbitrary order; the inputs of a subgraph keep one order as long as the set is the same (`orders`).

`TileDims` has one back rule and one front rule per family of processors. A
rule returns the set of its answers: empty when it refuses, one map
otherwise. `BackRaises` says when it raises. What the arguments of the operators are is restricted:
dimensions of `max` and `unbind` are not negative, slices begin at 0, which index
`select` picks is irrelevant, products are not transposed and have no residual.

`MemoryPlan` turns a subgraph into a list of what is to be played (`todo`), and plays
it: `Give` asks the three pools for space, `ReadOperand` counts a read down, and the last read is
followed by one `ReturnSlot` per slot. A node listed twice is played twice. An assertion of the code that
fails, or a dimension out of range, ends the compilation (`pc = "raised"`).

`GraphPartition` follows `fuse_along_dim` node by node: `BackAsk` begins the
measurement of the subgraph with one node more, `BackTake` takes the node if the chip affords it,
`BackSkip` passes over a node that some test rejects; `Infer`, `FrontAsk`, `FrontTake`, `FrontSkip` do
the same from operands to users. `work` is the copy of the list
of tiles over which the code iterates: what is tiled meanwhile is not in it.

`TritonFusion` closes the loop. `Transform` requires the tiles to agree
(`Consistent`), and that the source of the kernel names only what it defines (`NamesDefined`; the kernel is
tried out before it is inserted unless `pre_check_triton_kernel`, `config.py:110`, is switched off); `TransformFails` stands for everything that may go wrong while a kernel is generated,
tried out or compared with the original, and may always happen. `InsertKernel` moves operands,
places the kernel before any of its outputs (`list(set)`), with a getitem for each output if there are several,
redirects uses and erases the subgraph.

`CasesAssumption` says what the pass may count on: graphs as `torch.fx` makes them (`WellFormed`), in an order in which they
can be run, and a smallest subgraph of at least one node, which `config.py:91` asserts. `WellFormed` includes that the result
of the graph is nobody's operand, that only getitems read a node with several outputs, each an output it has, and that
a node a processor is registered for has a shape for its output. `NamesAssumption`: the names of
new nodes are new. `SlotsAssumption`: a node has at most `MaxOutputs` outputs, at least two, a bound that only keeps the set of
memory slots (`Slots`) finite for TLC.

`TileMeaning` is no code of the pass. It says, for each kind of operator, which
elements of the operands an element of the result depends on, and `RuleSound` compares the
back rules with it.

### 2.5 The runtime

`ConstantStore`: `blobs`, `cells` (the contents of a blob, cell by cell, so that
wrong offsets overlap), `maps` from constant to handle and owner, `arrays` as the
models read them, `tensors` that are alive. All operations are atomic here: their interleaving is in
`ModelContainer`. `WeightBuffers` is what it promises; the refinement maps the contents
that a model would read to `weights`. Its callers keep three disciplines, each of which excludes
something the code gets wrong (section 5): folded constants come last (`FoldedLast`), a tensor
that the other map borrows is not destroyed (`Lent`), and tensor constants agree before a fold
of the buffer that is not in use (`TensorConstantsAgree`).

`SharedStorage`: producer and allocator are external. Memory of a place may be used again when
the producer's reference and all references that were sent are gone. A thread that
rebuilds a tensor is preempted between the look-up in the cache, the release of its reference or
the making of a storage, the entry in the cache, and the tensor. `MakingFails` is an error of
`_new_shared_mlu` or of the initialisation: its reference is lost, as in the code. Empty
storages, which carry no reference, are left out.

`GraphedCallables`: the pool is external; a capture takes any block that is free then. A
forward pass allocates scratch memory, outputs and what its backward pass will need; a backward pass
scratch memory and gradients. A replay writes all the blocks of its graph. The
caller runs the callables it wants in the order it passed them, with or without backward passes.

`StreamContexts`: the objects `device`, `StreamContext` and `graph` with their fields, of
one thread. They may be used again after they were left, not before; a `device` object then selects
the device that its last body ended on, as the code does (section 5). Bodies may select a device,
those of a capture may not.

`KernelLaunch`: a program has a cursor that steps over blocks; a step writes the elements
of its block that its masks admit. Programs run in any order. The grid is the number of blocks of all
dimensions or the number of cores, whichever is less (`SingleGrid`, all four `generate` patches: `ceildiv` is given the name of a size
and returns an expression, so that only the last branches run). That of a combo kernel is
not limited by the cores: it is `combo_x_grid`, which is external (number of kernels times the largest number
of blocks in x), or `min_blocks`, whichever is more (`ComboGrid`); `min_blocks` comes from PyTorch too, a
number of blocks for each kernel, or `None`, here 0. The comparison with `MAX_GRID_NUM` in `from_meta` is for numbers only and never happens.

## 3. What is checked

| Run | Instance | Shows |
|---|---|---|
| `serve` | 3 threads, 2 models, two calls each, cold, fair | `FreshLease`, `FoldedOnce`, `Termination` |
| `rollout` | 2 threads with 2 calls each, a manager, 3 models, two rollouts | `NoLostModel`, `ReadyForAll`, `AttachedToActive`, `StableWhileInUse` |
| `faults` | 2 threads, a manager, 2 models, every operation, failures anywhere | `TypeOK`, `ExclusiveLease`, `ImplementsPool` |
| `allocator` | 4 callers, sizes 0 to 3, a pool of 6 units | `TypeOK`, `Tiling`, `Coalesced`, `PeakNeverFalls` |
| `lazy_init` | 3 threads, up to 4 calls each, start may fail | `TypeOK`, `StartedOnce`, `NoSelfWait`, `EarlyCallsRun`, `StatesInOrder` |
| `fusion` | 23 graphs of 5 to 11 nodes, roomy and tight chips, limits | `TypeOK`, `Convex`, `InOrder`, `KernelAgrees`, `NoRetry`, `FitsOnChip`, `ResidentWhenRead`, `PlanNeverFails`, `TileSound`, `Terminates` |
| `runtime` | five parts, see below | `FoldedUpToDate`, `StaysReadable`, `KeepsPromise`; `OverItsMemory`, `ReferencesAccounted`; `ReplaysUndisturbed`, `GradientsInPlace`; `ContextsRestore`, `CapturesEndOnTheirStream`; `EachElementOnce`; `TypeOK` |
| `pool_deadlock` | 2 threads, 1 model, cold | `SleepersCanWake` is violated |
| `swap_unfolded` | 1 thread, a manager, 2 models | `ReadyForAll` is violated |
| `single_after_rollout` | 1 thread, a manager, 2 models | `SingleRunsFolded` is violated |
| `allocator_peak` | 2 callers, sizes 0 to 2 | `PeakCoversDemand` is violated |
| `lazy_seed` | 1 thread | `GeneratorInOrder` is violated |

**Bounds.** In the container every race involves a pair of threads that run and one that
manages; two models make one pending while another is taken, and fewer
models than threads make threads sleep. The second rollout swaps
back, so that both buffers play both roles. Symmetry is used where no
liveness is checked and only between models and between clients with equal
programs. `Termination` is checked without symmetry. In the allocator, six
units with sizes up to three (a request of 0 takes 1) give exact fits, rests, merges on either side and on
both, an extension of the last block, and a free list of several blocks of equal size.
`PoolBound` only stops the exploration; `MayGrow` is its only use. In `LazyInit` one thread
queues both kinds of call before it initialises, one seeds in both ways, one initialises first and calls later.

The graphs of `fusion` were chosen one by one, each for a way the search can go, which
its comment names: join, product, detour through an operator that is not supported, family of
getitems, two orientations of one input, operands behind the kernel, users between its outputs,
symbolic batch, views, slices, two places to start, a chip on which only a part fits, and limits on
the number of nodes, reserved and skipped nodes. Sizes are 1, 2 or 3, so that a dimension is told from
its neighbour. The limit on the number of inputs (120) is never reached; `maxNodes = 99` stands for none;
`PoolLimit` is never reached either.

In `runtime`, `part` says which of the five runs; the others stay in one state. Three
layouts of constants (each kind, an empty one, one without folded constants) and `MaxCalls = 4`
operations: update, fold, swap, release in any order. Two places that share a handle,
two threads, `MaxSends = 3`, `MaxUses = 2`: two sends of one place meet in
the cache while a third is under way. Two programs of two and three callables in `PoolBlocks = 10`,
two iterations. Two devices, a manager of each kind on each that matters, `MaxDepth = 3`,
`MaxSteps = 7`. Thirteen launches: fewer and more cores than
blocks in one and three dimensions, fewer in two, incomplete blocks in each dimension, an empty kernel, two combo kernels
with and without a `min_blocks`, once more than their own grid and once less.

**Deadlock.** Runs check it unless the system really may stop. Where programs of threads end, `AllDone`
stutters once all have; the allocator can always take a step. `faults` and `pool_deadlock` do
not check it, because a container that has lost its models, or that has fewer
models than cold threads, really stops. `fusion` and `runtime` end when
the pass is done and when the bounds are used up.

**Fairness.** `FairSpec` of the container asks weak fairness of the steps of each thread and of
`Finish` of each model: the operating system schedules every thread that can run, and the
device completes what it was given. Nothing is assumed of spurious wake-ups,
nor of the fairness of the locks: weak fairness of a lock that others may take
again and again gives nothing by itself, and the programs are finite.
`Spec` of the fusion pass asks weak fairness of its next-state relation: it is a
sequential program that goes on as long as it can. Nothing is assumed of which nondeterministic
outcome is chosen, so that `Terminates` holds although every transformation may fail. The runtime
parts have safety properties only.

The run `serve` uses `Gated = TRUE`: while the constants are unfolded, no more calls are in
progress than there are models. This is a discipline of the callers and not
something the code enforces. Without it `pool_deadlock` shows what happens.

**Conditions in the fusion properties.** `InOrder` is stated as long as every kernel was put before the first of its outputs (`late`),
`ResidentWhenRead` and `PlanNeverFails` as long as no node is listed twice (`PlayedOnce`), and
`TileSound` leaves out nodes whose tiles are counted against the wrong operand (`Miscounted`). Section 5 says
what the code does in the cases left out.

### Findings

1. **A cold container can deadlock** (`pool_deadlock`). `run` gives up its shared
   lock to fold, and keeps its model. A second call meanwhile holds the shared lock and sleeps
   until a model is pending. The first waits for the unique lock.
2. **A run can launch on unfolded constants** (`swap_unfolded`). Between the change from shared to
   unique lock, or back, a swap may come in; `run` does not look again.
3. **`run_single_threaded` refuses a folded container** (`single_after_rollout`).
   New weights are loaded into the secondary buffer, folded and swapped in; the primary one was never folded
   and is still INITIALIZED. The call finds the secondary state FOLDED, does not fold, and throws because
   it goes on to test the state of the primary buffer.
4. **The reported peak is too small** (`allocator_peak`). When the last free block
   is enlarged, the surplus block is put beyond the end of the pool. From then on
   `total_size` may be below what is in use and blocks may overlap.
   `Tiling` and `Coalesced` hold as long as this step is never taken, which is
   what `keepLast` says. The memory estimate does not keep to it, and reaches the step.
5. **`manual_seed` overrides a later `set_rng_state`** (`lazy_seed`) when both come before initialisation.

## 4. What is proved

All theorems are in the `*Proofs` modules and hold for every value of the
constants that satisfies the named assumptions (`ModelsAssumption`, ...), which
TLC evaluates in every run that uses the component.

**The container, whatever the threads call and whatever fails.**
`TypeCorrect`, `LeasesAreExclusive` (`[]ExclusiveLease`) and
`ContainerImplementsPool` (the refinement of `ModelPool`). The invariant is
`PoolInv == TypeOK /\ Holding /\ ExclusiveLease`. `ExclusiveLease` alone is not
inductive: a step gives `held[t]` back, and to know that this is a model, one
needs to know at which labels a thread has one. `Holding` says exactly that.
Each step is shown to be one of four things: a lease, a giving back, a loss, or
no change of the pool (`StepPool`). This gives the refinement, and, by
`LeasesStayExclusive`, the invariant.

**What a call may rely on while it has a model.**
`ModelsAreStableInUse` (`[][StableWhileInUse]_vars`) needs no hypothesis: nobody but the thread
that has a model points it to other constants. It follows from `UseInv`, which adds to `PoolInv`
at which labels a call holds `model_exec_mutex_` (`Locked`) and that only `run`
checks the state and launches (`RunsCheck`), and from `Moves`, which says of each kind of step
what it leaves to the other threads: the steps that attach a model hold the lock alone.
`ModelsReadTheActiveBuffer` (`[]AttachedToActive`) assumes that nothing fails: a fold of the
inactive buffer that throws really gives its model back attached to that buffer.
`LeasesAreFresh` (`[]FreshLease`) assumes that nothing fails and that
`run_single_threaded` is not called, which leaves an executing model among the available
ones. Its invariant says that models among the available ones, and those a thread may still offer, are at rest.

**The container when threads only call `run`** (`RunsOnly`, a hypothesis of the
theorems): `RunsAreReady` (`[]ReadyForAll`), `RunsFoldOnce` (`[]FoldedOnce`), and,
if the device does not fail, `RunsLoseNoModel` (`[]NoLostModel`). The invariant
`ServeInv` adds that the primary buffer stays active and loaded, that its state
is truthful (`PrimaryServes`), and for each thread what it may rely on at each
label (`RunFacts`): the one that folds holds the unique lock, and the one
that is about to launch has seen FOLDED, which nobody takes back. `swap_unfolded`
shows why the hypothesis is needed.

**Rollouts of new weights while threads run models** (`Rollouts(a)`, a hypothesis: thread `a` may update,
fold, swap and release the buffer that is not in use, and run models too, in any number of rounds; it
folds right after an update and swaps right after a fold; all other threads call `run`; nothing
fails): `RolloutsAreReady` (`[]ReadyForAll`) and `RolloutsLoseNoModel` (`[]NoLostModel`). The
difficulty is what `run` has seen before a swap and uses after it. Between its look at the state of
the buffer and its launch it changes locks twice, and a swap in between exchanges the buffers under
it; it may then mark as folded, or install folded constants in, the buffer that is no longer in use. So the
state of the active buffer may say less than is true (`ActiveServes`: FOLDED implies ready, and not
the converse), and what a call relies on is one of two things (`RunRelies`): the buffer it saw is
still the active one, or the active one was made ready before the swap. `Staged` says how far
the manager is with the other buffer. `swap_unfolded` shows what happens when it swaps without a fold.
`RollKept` is the frame argument: a step that leaves the active buffer alone, and the inactive one if it is not
the manager's, takes nothing away from what other threads rely on.

**The constants in memory, for any layout, alignment and sequence of calls.** `FoldsAreUpToDate`,
`WeightsInUseStayReadable`, `BuffersKeepTheirPromise` (the refinement of `WeightBuffers`) and
`StoreTyping`, under the disciplines of section 2.5. None of the properties says who owns what, and
none is inductive without it. `StoreInv` adds:

- models read what the map says (`Linked`), except for folded constants that were released;
- a tensor in a blob lies where its constant belongs, and not in the blob of the other buffer unless
  it is borrowed from there (`Seated`); a buffer has a blob of its own or none (`BlobsApart`);
- a tensor is in two maps only if one of them borrows it (`OwnersApart`), and what a map borrows the
  other one has, as its own (`Borrowed`). Nobody borrows from a borrower: an
  update of the buffer it borrows from would have to replace what is lent (`Lent`).

Everything that goes through `update_constant_buffer`, the fold and the loading of a blob included,
is an `Updates(b, entries, made)`. One argument serves all of them: a tensor that keeps its place in a map is not
destroyed (`TensorsStay`), so that what is not given anew reads as before, in both buffers (`ReadsStay`).
The last step of it is about the layout: constants do not overlap in a blob (`ExtentsApart`), because
offsets only grow (`BlobGrows`). That the recursive function `BlobUpTo` is what its definition says is
shown from the existence of such a function (`Recursion`), by the least number at which a claim would fail.
The assumptions are types and a positive alignment.

**Lazy initialisation, for any threads and programs.** `RuntimeStartsOnce` and
`InitialiserNeverBlocksItself`, from `LockInv`: the thread in the critical section is the holder
of the lock, it is marked exactly while it runs queued calls, and the
number of starts tells whether some thread is past `_mlu_init`. Without the last two
the invariant is not inductive. A second invariant adds the contents of the queue:
`QueueTypeCorrect`, `EveryEarlyCallRuns`, `StatesTakeEffectInOrder`. Its `QueueInv` says
that what is queued was called (`AllMade`), that calls of one thread are queued in
the order in which it made them (`Sorted`), that those which set the state come from the tracker, before the others
(`StatesFirst`), that what has run is a prefix of the queue (`RanPrefix`), and that a call queued early
stays in it until it has run (`EarlyKept`).

**The allocator, for any callers and sizes.**
`AllocatorTypeCorrect` (no block is empty or at a negative offset; `Merge` needs
an argument of its own, `MergeType`) and `TotalSizeIsMonotone`, with and without the discipline.
With it: `BlocksTileThePool` and `FreeBlocksNeverTouch` (`[]Tiling`,
`[]Coalesced`). `TileInv` says it without cardinalities: blocks
in use or free are apart (`AllApart`), every unit of the pool is in one of them (`Covered`), no free
block ends where another begins (`NoneTouch`), and none ends the pool (`EndInUse`). The last
excludes `AllocExtend`, the step with the fault. `MergeJoins` says what a merge returns:
one block, from the neighbour on the left, if there is one, to the neighbour on the right.

**Inter-process tensors, for any threads, places, handles and sends.**
`ReferencesAreAccounted` and `TensorsLieOverTheirMemory`. In `ShareInv`, references have
their own numbers (`Numbered`) and each is in one place only (`Apart`, `Accounted`); what
a thread has looked up is kept alive by it (`Kept`), an entry of the cache is a storage of the place that is its
key (`CachedByPlace`), and every storage is backed by a reference that has not been released
(`Backed`), so that the producer cannot use the memory again. `ShareTyping` adds that what a thread holds, and
what it has rebuilt, is numbered as one of the sends made so far; it assumes that a place is used at least once (`UsesAssumption`).

**Contexts, for any devices and managers and any nesting.** `ContextsAlwaysRestore` and
`CapturesKeepTheirStream`. `ContextInv` says that the fields of each manager that was
entered hold what it found (`StackFaithful`): the device, and the streams, which its body may have changed
only through managers already left. A manager is on the stack once
(`StackTyped`), so that its fields are not overwritten. All of it holds as long as no capture has failed,
which leaks a stream (section 5). `ContextTyping` says that the current stream of a device is always one of its own;
`DepthAssumption` only says that the bound on the depth is a number.

**Graphed callables, for any number of callables, of inputs and of iterations.**
`ReplaysAreUndisturbed` and `GradientsComeBackInPlace`. A capture takes any blocks that are free;
blocks are free when what was in them is dead. What makes the replays safe is that the captures are
made in the order in which an iteration replays them: forwards in the order of the callables,
backwards in the reverse order. `GraphInv` says which graphs there are and which blocks each of them
has (`Listed`, `Placed`); that what a pass leaves behind shares no block with any pass that comes
later, or, if it is only kept for the backward pass, with any that comes up to that one (`Apart`);
and that whatever has been replayed comes before what is still to be replayed (`Replayed`). `Apart`
is what a step of the replays needs, and no state of the replays shows it: it is built up while the
captures are made. For the gradients, the place of a gradient in the list is the number of inputs
before its own that want one (`RankFacts`, `WantedInOrder`); facts about this recursive count are
proved by the least number at which they would fail, as the library's induction theorems take an
operator. The assumptions are types (`ProgramsAssumption`, `IterationsAssumption`).

**Launches, for any kernels, blocks and numbers of cores.** `BlocksAreDealtOut`
(`[]EachElementOnce`). `Home` is the number of the block in which an element lies, counted along its
three dimensions; `OneBlock` shows that the offsets a program decodes from a number, by quotients
and remainders, are those of that block and of no other. `Owner` is the program that does the block.
`Dealt` says that an element has been written once if the cursor of its owner is past its block, and
never otherwise, and that a cursor keeps its remainder by the step (`StepKeepsRemainder`), so that
it meets every block of its program (`NextInStep`). `GridFacts` shows of both kinds of grid that every kernel gets
equally many programs, whichever is larger, the grid or the number of blocks. `LaunchesAssumption` asks for at least one
kernel, one core, and one element in each direction of a block, and for a `min_blocks` that is a multiple of the number of kernels.

**The fusion pass, for any graphs, chips and limits.** `FusionTyping`,
`KernelsAreConvex`, `GraphStaysInOrder` and `SetAsideIsAvoided` assume nothing about the
answers of the tile rules, nor about the memory estimate, other than which nodes they name: what they
say holds whichever nodes are refused. `KernelsAgree` is about the answers themselves, and
`EstimatesNeverFail` and `OperandsStay` are about the estimate.

- *The subgraph.* `Subgraph` says that its members are supported and are none of the nodes the pass
  has made; that a member that reads a value computed from the subgraph reads it from a member
  (convexity); that the node it was started from is new; and that a member that was set aside
  earlier is in a family. `GrowsBack` and `GrowsFront` show that this is kept by the step from users
  to operands (all users that count are in, or `has_ring_fuse` says no) and by the one from operands
  to users. They need to know which nodes are offered: those the subgraph has met (`Near`), or those
  computed from it. A getitem comes with its family, which the tests of `check_nodes_limits` do not
  look at one by one; that this does no harm is part of the lemma.
- *The graph.* `GraphInv` says that the graph is well formed (`GraphOK`), and that what is computed
  from a node of the user comes behind it (`Downstream`), even while an anchor that is not the first
  output has put a kernel in the wrong place. `Downstream` is weaker than `InOrder`, and it is what
  convexity of the next subgraph needs: without it the invariant is not inductive, and `Convex`
  would hold only up to the first such kernel.
- *The insertion.* `Replaced` is split in three: the operands are moved (`MoveFacts`), the kernel
  and its getitems are put in (`InsertedFacts`), and uses and names are exchanged (`ReplacedNodes`).
  `Rewired` says what the nodes of the new graph read, `Spliced` in which order they are.
  `MovedOrder` shows that no operand gets behind its user, `NotMoved` and `BehindBack` that no
  output is moved along, `FeedersAreMoved` that every operand of the kernel is before it, and
  `ReplacedInOrder` that the new graph is in order.
- *Closures.* `Closure`, a recursion over as many rounds as there are nodes, is shown to be the
  least set that has the start and is closed, by counting: a set that grows in every round would
  have more members than the graph has nodes.
- *The tiles.* Tiles are overwritten while the search goes on, and a node may have been taken in for tiles it
  no longer has. What the kernel is made of is tested once more before it is inserted (`Consistent`):
  `BackAll` merges the answers of all rules, starting from the tiles, and refuses a contradiction.
  `AllAgree` shows of this fold that its result extends the tiles and every answer, from which
  `KernelAgrees` follows if a rule, which was asked when part of the answers had been merged, says the same
  of the tiles alone. That is the difficulty: the rule of a getitem reads and answers for its whole family.
  `RuleSettled` says that where the tiles of a node and of its family are known, its answer is the same
  whatever else becomes known, which needs families to be tiled as a whole (`WholeIn`). `TileInv` keeps that for
  the tiles of the search, for the stale copy it iterates over (`WorkInv`) and for the best subgraph so far.
- *The estimate.* `PlanNeverFails` and `ResidentWhenRead` speak of the head of the list and of what is in
  place now, and neither is inductive. `Playing` says of the whole list that it holds only requests, reads and returns that make
  sense (`Scripted`), that no read or return is played twice (`Once`), that the nodes still to read a value (`Waiting`) are no more
  than `node_du_counter` has left for it (`Counts`), that what was given to a value with readers
  left is in place (`Kept`), and that a return left to play is of a slot in place nobody waits
  for. `MeasurePlays` shows that `Measure` begins with such a list, by way of `ScriptFacts`: a list of
  nodes without repetition is played so that each reads each of its operands once. `PlanInv` keeps
  it while the pools choose blocks as they like. It also says that `fused` never lists a node twice; the list that is
  measured may do so in the two cases that `PlayedOnce` leaves out.

Only model-checked, and why:

- `Termination`, `Terminates` and everything with fairness: not within reach of the prover.
- `TileSound`: it compares the rules of the tiles with the meaning of the operators, kind by kind and element
  by element (folds, products, quotients of dimensions). For any graph it would need, of each of the
  kinds, that the shapes and arguments are those the operator allows, which `WellFormed` does not say.
- `FitsOnChip`: compares the last estimate with the one that was made when the last node was taken in. Which
  of several blocks that fit equally well is taken, the first of a list in the code, is left open by `BFCAllocator`, and with
  other choices two plays of one list may reach other sizes: TLC finds that in these graphs they fit all the same.
- `TypeOK` of `MCRuntime` as such, which is the conjunction of the type invariants of five parts that do not
  interact. Each of them is proved of its own part: `StoreTyping`, `ShareTyping`, `GraphTyping`, `ContextTyping`, `LaunchTyping`.

## 5. Where the code departs from what it says, and what no property covers

The findings above are counterexamples of a run. What follows was met while
modelling. The models do what the code does; where a property would be false for one of these reasons alone,
it leaves out the case, and the reason is here.

**Fusion.** Lines are of the files under `triton_fusion/` that section 1 names.

- `triton_fusion.py:153`: the node before which the kernel is put is any output of the subgraph, not the first as
  lines 44-55 say. A user between two outputs then comes before the kernel (`late`).
- A fixed point may list a node twice: its memory is asked for twice and the
  assertion of the calculator fails (`PlayedOnce`).
- `op_processor.py:1083` (`repeat`): the operand gets the number of the result's dimension, which it may not have. 1720
  (`max`, `min`) compares a dimension that may be negative. 2470 (`select`) counts dimensions modulo the rank of the result.
  3123 (`getitem`) takes the length of `None`. 3243 (`unbind`) has one tile per user. A product of an operand with
  itself unites two tiles.
- The condition `i not in updated_nodes[node]` of `reshape` (front) is always true.
- `graph_partition.py:169` looks up a user that has no tiles and uses the `None`. 191 iterates over a copy
  that is stale by then. 270 and 309 have a TODO: going from operands to users overwrites tiles. 124 takes a whole family
  of getitems, beyond the limit on the number of nodes,
  and 129 asks of the getitem only whether it was set aside: its family (221-232) may come back. `NoRetry` says which nodes may. 67 makes an `AssertionError` without raising it. 158 takes symbolic sizes
  for what they were when traced.
- A `var_mean` whose getitems are not all in the kernel is an output itself; the getitems outside then index the one tensor that
  replaces it. The models keep it so; `NamesDefined` rejects only `max` and `unbind`, which have no name in the source.
- `memory_calculator.py`: memory of a node with several outputs is returned after its getitems, although these
  are the same memory; users of a `cat` are not counted (97); the comment at 201 names two kinds of node to skip, the code tests one.

**Container.**

- A fold in `run` that throws (115) loses its model; one in `run_const_fold` (324)
  returns it attached to the wrong buffer. A copy that fails (505) leaves a blob partly written and a state that says otherwise.
- 425: the second buffer of tensor constants is a clone of what a user may own.
- 441, 567: no lock. 582: the map may never have been made (a null pointer). 134: nobody is woken. 157: with every model
  pending, the list whose first element is taken is empty. 744: the predicate throws in the middle of a partition.
- 474: borrowed handles (`Lent`). 493 and `model_base.h:493`: two different indices
  for one table (`FoldedLast`). `model_base.h:535`: loading twice.

**Python layer.**

- `mlu/__init__.py:396` drops exceptions of queued calls; 400: a call queued after the queue has been drained never runs.
  125: `device.__exit__` stores in `idx` the device it leaves, so that an object entered again may select another device than before; what it puts back is right all the same.
- `mlu/graphs.py:254`: a capture that ends with an error does not restore the stream. 222: the
  default capture stream belongs to the device that was current when it was made. 480: a backward pass without
  gradients is not captured. 559: gradients are views of static memory.
- `mlu/reductions.py:82`: a reference is lost if making the storage fails. 95: an event is not waited for when the storage is in the cache.
- `MLUEvent.h:88`: an event that is assigned another one is not destroyed.
- `triton_heuristics.py:2014`: the limit on the grid is compared with numbers, and all grids are expressions: a combo kernel, which is not
  limited by the cores either, is launched unchecked. 1722, a grid of three dimensions without limit, is for numbers too and never runs. 84 and 761: a table of configurations
  that ran out of memory is read and never filled.

Hazards no property covers are listed with their reason under "hazards" in `PROJECT.json`.

## 6. Not modelled

- Container: getters; layout of the kernels of a model; what `std::stable_partition` leaves when
  its predicate throws (section 2.1); the buffer that work still on the device reads.
- Lazy initialisation: the forked child; the errors of queued calls, which the code drops.
- Fusion: the source of the kernels, wrappers and tuning; quantised and transposed products.
- Inter-process tensors: the producer's counters, storages on the CPU, events: in PyTorch.
- Graph trees, process group, caching allocator and generator: what is in this repository is a set of patches or declarations
  of state machines whose code is elsewhere. A module would model the author's idea of them, not this code.
- Patches of PyTorch, graph passes other than the fusion, front ends, code generation, numerical code, profiler, tools: sequential
  functions from text to text, graph to graph or file to file, with one output for an input and no state between calls. They make up
  most of the lines of the repository, so that the models cover a small part of it by lines, and most of what has a state.

`PROJECT.json` has the reason for each component.

## 7. Plan

Done: container, lazy initialisation, allocator; constants in memory; the fusion pass from the tile rules to the graph;
inter-process tensors; graphed callables; contexts; launches; the proofs of section 4,
among them the memory of the constants, rollouts in any number of rounds, the search, the tiles, the estimate and the insertion of the fusion pass,
the replays of graphed callables and the blocks of a launch.

Open, in order of importance:

1. Work on the device that remembers the buffer it reads, to state what an update needs from its callers.
2. `ReclaimList`: `pending_models_` as a sequence and the partition step by step, shown to refine the set-based pool
   when the predicate does not throw.
3. What each operator demands of its shapes and arguments, as an assumption per kind, to state and prove `TileSound` for any graph.

## 8. Running

    tlc -config serve.cfg MCModelContainer.tla
    tlc -config lazy_init.cfg MCLazyInit.tla
    tlc -config allocator.cfg MCBFCAllocator.tla
    tlc -config fusion.cfg MCTritonFusion.tla
    tlc -config runtime.cfg MCRuntime.tla
    tlapm TritonFusionProofs.tla

Each `.cfg` names its instance in its first line. `PROJECT.json` lists the runs,
the faulty forms with the property each breaks, the lines every definition models,
the findings, the hazards and the theorems.
