------------------------- MODULE GraphedCallables -------------------------
(***************************************************************************)
(* make_graphed_callables (mlu/graphs.py): the forward passes of several    *)
(* callables, then their backward passes, are captured into graphs that     *)
(* share one memory pool, and replayed in every iteration of a training     *)
(* loop.                                                                    *)
(*                                                                         *)
(* The pool is external: a capture allocates any block that is free at that *)
(* moment, and what dies is free for the captures that follow, although the *)
(* replays go on to write there.  A forward pass writes scratch memory that *)
(* dies with it, the tensors its backward pass will need, and its outputs,  *)
(* which are held for ever; a backward pass writes scratch memory and the   *)
(* gradients, which are held too, and then what it needed dies.             *)
(*                                                                         *)
(* The caller runs the callables in the order it passed them, each in the   *)
(* mode it was captured in or by its original forward, and may run an       *)
(* iteration without its backward passes.  Warm-up, which uses other        *)
(* memory, and the input buffers, which the caller holds, are left out.     *)
(***************************************************************************)
EXTENDS Naturals, Sequences, FiniteSets, SequencesExt

CONSTANTS
    Programs,        \* sequences of callables: [surface, grad]
    PoolBlocks,      \* bound: blocks of the pool
    MaxIterations    \* bound: iterations of the training loop

ASSUME ProgramsAssumption == Programs \subseteq Seq([surface : Seq(BOOLEAN), grad : BOOLEAN])
ASSUME IterationsAssumption == MaxIterations \in Nat

VARIABLES
    callables,       \* for each, which inputs require a gradient and whether its outputs do
    place,           \* the block of everything that was allocated
    free,            \* blocks that are free to the captures
    fwdGraphs,       \* what each forward graph writes
    bwdGraphs,       \* what each backward graph writes; nothing if it was not captured
    gradInputs,      \* per_callable_static_grad_inputs
    contents,        \* what each block holds, and from which iteration
    iteration,       \* iterations that were begun
    todo,            \* passes left to replay in this iteration
    done             \* passes replayed in this iteration

graphVars == <<callables, place, free, fwdGraphs, bwdGraphs, gradInputs, contents, iteration, todo, done>>

N == Len(callables)
Nothing == <<"nothing", 0, 0>>

-----------------------------------------------------------------------------
(* Capture.                                                                 *)

\* Blocks for some things, one after the other: any that is free, or a new one.
Unused == {b \in PoolBlocks : b \notin free /\ \A x \in DOMAIN place : place[x] # b}
Fits(things, at) ==
    \A k \in DOMAIN things :
        LET earlier == {at[j] : j \in 1..(k - 1)}
        IN at[k] \in (free \ earlier)
                     \cup {b \in Unused \ earlier : \A c \in Unused \ earlier : b <= c}

\* A capture that allocates these things and leaves those dead.
Capture(things, dead) ==
    \E at \in [DOMAIN things -> free \cup Unused] :
        /\ Fits(things, at)
        /\ place' = [x \in DOMAIN place \cup Range(things) |->
                        IF x \in Range(things) THEN at[CHOOSE k \in DOMAIN things : things[k] = x] ELSE place[x]]
        /\ free' = (free \ Range(at)) \cup {place'[x] : x \in dead}

Scratch(i) == <<"scratch", i, 0>>
BackScratch(i) == <<"scratch", i, 1>>
Saved(i) == <<"saved", i, 0>>
Output(i) == <<"output", i, 0>>
Gradient(i, j) == <<"gradient", i, j>>

\* What dies when a forward pass was captured: its outputs are in per_callable_static_outputs.
OutputsDropped(i) == {Scratch(i), Output(i)}
DeadAfterForward(i) == {Scratch(i)}

CaptureForward ==
    LET i == Len(fwdGraphs) + 1
        things == <<Scratch(i), Output(i)>> \o (IF callables[i].grad THEN <<Saved(i)>> ELSE <<>>)
    IN /\ i <= N
       /\ Capture(things, DeadAfterForward(i))
       /\ fwdGraphs' = Append(fwdGraphs, Range(things))
       /\ UNCHANGED <<callables, bwdGraphs, gradInputs, contents, iteration, todo, done>>

\* Gradients are asked for the inputs that require one; the inputs that do not get
\* None.
Wanted(i) ==
    LET surface == callables[i].surface
        Upto[j \in 0..Len(surface)] ==
            IF j = 0 THEN <<>> ELSE IF surface[j] THEN Append(Upto[j - 1], j) ELSE Upto[j - 1]
    IN Upto[Len(surface)]
PaddedFromLast(i, grads) ==
    [j \in DOMAIN callables[i].surface |->
        IF callables[i].surface[j] /\ grads # <<>>
        THEN grads[Cardinality({k \in DOMAIN callables[i].surface : k >= j /\ callables[i].surface[k]})]
        ELSE Nothing]
Padded(i, grads) ==
    [j \in DOMAIN callables[i].surface |->
        IF callables[i].surface[j] /\ grads # <<>>
        THEN grads[Cardinality({k \in 1..j : callables[i].surface[k]})]
        ELSE Nothing]

\* The backward passes in the order of the loop over the reversed lists.
CaptureOrder == Reverse([k \in 1..N |-> k])

CaptureBackward ==
    LET i == CaptureOrder[Len(gradInputs) + 1]
        grads == IF callables[i].grad THEN [k \in DOMAIN Wanted(i) |-> Gradient(i, Wanted(i)[k])] ELSE <<>>
        things == <<BackScratch(i)>> \o grads
    IN /\ Len(fwdGraphs) = N
       /\ iteration = 0
       /\ Len(gradInputs) < N
       /\ IF callables[i].grad
          THEN Capture(things, {BackScratch(i), Saved(i)})
               /\ bwdGraphs' = [bwdGraphs EXCEPT ![i] = Range(things)]
          ELSE UNCHANGED <<place, free, bwdGraphs>>
       /\ gradInputs' = Append(gradInputs, Padded(i, grads))
       /\ UNCHANGED <<callables, fwdGraphs, contents, iteration, todo, done>>

-----------------------------------------------------------------------------
(* The training loop.                                                       *)

\* The lists are reversed once more when the last backward pass was captured.
OfCallable(i) == Reverse(gradInputs)[i]

\* The order of the passes of an iteration.
Before(p, q) ==
    \/ p[1] = "forward" /\ q[1] = "backward"
    \/ p[1] = "forward" /\ q[1] = "forward" /\ p[2] < q[2]
    \/ p[1] = "backward" /\ q[1] = "backward" /\ q[2] < p[2]

BeginIteration ==
    /\ Len(gradInputs) = N
    /\ todo = {}
    /\ iteration < MaxIterations
    /\ iteration' = iteration + 1
    /\ done' = {}
    /\ \E graphed \in (SUBSET (1..N)) \ {{}}, training \in BOOLEAN :
          todo' = {<<"forward", i>> : i \in graphed}
                    \cup {<<"backward", i>> : i \in {k \in graphed : training /\ callables[k].grad}}
    /\ UNCHANGED <<callables, place, free, fwdGraphs, bwdGraphs, gradInputs, contents>>

\* Graphed.forward and Graphed.backward
Written(pass) == IF pass[1] = "forward" THEN fwdGraphs[pass[2]] ELSE bwdGraphs[pass[2]]
Replay(pass) ==
    /\ \A other \in todo \ {pass} : Before(pass, other)
    /\ contents' = [b \in PoolBlocks |->
           IF \E x \in Written(pass) : place[x] = b
           THEN <<CHOOSE x \in Written(pass) : place[x] = b, iteration>>
           ELSE contents[b]]
    /\ todo' = todo \ {pass}
    /\ done' = done \cup {pass}
    /\ UNCHANGED <<callables, place, free, fwdGraphs, bwdGraphs, gradInputs, iteration>>

GraphInit ==
    /\ callables \in Programs
    /\ place = <<>>
    /\ free = {}
    /\ fwdGraphs = <<>>
    /\ bwdGraphs = [i \in 1..N |-> {}]
    /\ gradInputs = <<>>
    /\ contents = [b \in PoolBlocks |-> <<Nothing, 0>>]
    /\ iteration = 0
    /\ todo = {}
    /\ done = {}

GraphNext == CaptureForward \/ CaptureBackward \/ BeginIteration \/ \E pass \in todo : Replay(pass)
GraphSpec == GraphInit /\ [][GraphNext]_graphVars

-----------------------------------------------------------------------------
(* Properties.                                                              *)

GraphTypeOK ==
    /\ \A x \in DOMAIN place : place[x] \in PoolBlocks
    /\ free \subseteq PoolBlocks
    /\ Len(fwdGraphs) <= N /\ Len(gradInputs) <= N
    /\ DOMAIN contents = PoolBlocks
    /\ iteration \in 0..MaxIterations

\* In the order the callables are run, no replay overwrites what another one needs in
\* the same iteration: what a forward pass left to its backward pass is there when
\* that begins, outputs and gradients stay to the end (graphs.py:451-453).
Needed(pass) ==
    LET i == pass[2]
    IN IF pass[1] = "backward" THEN {Gradient(i, j) : j \in Range(Wanted(i))}
       ELSE {Output(i)} \cup (IF callables[i].grad /\ <<"backward", i>> \notin done THEN {Saved(i)} ELSE {})
ReplaysUndisturbed ==
    \A pass \in done : \A x \in Needed(pass) : contents[place[x]] = <<x, iteration>>

\* Each callable returns, in the place of each of its inputs that require a gradient,
\* the gradient of that very input (graphs.py:511).
GradientsInPlace ==
    Len(gradInputs) = N =>
        \A i \in 1..N : OfCallable(i) =
            [j \in DOMAIN callables[i].surface |->
                IF callables[i].surface[j] /\ callables[i].grad THEN Gradient(i, j) ELSE Nothing]
=============================================================================
