----------------------------- MODULE MCRuntime -----------------------------
(* Small instances of five parts that do not interact, one of which runs.   *)
EXTENDS ConstantStore, SharedStorage, GraphedCallables, StreamContexts, KernelLaunch

VARIABLE part

Constant(kind, size) == [kind |-> kind, size |-> size]
MCLayouts == {<<Constant("parameter", 3), Constant("tensor", 1), Constant("folded", 1)>>,
              <<Constant("buffer", 1), Constant("parameter", 0), Constant("folded", 1)>>,
              <<Constant("parameter", 1)>>}

MCPlaces == {<<"h", 0>>, <<"h", 1>>}

Callable(surface, grad) == [surface |-> surface, grad |-> grad]
MCPrograms == {<<Callable(<<TRUE, FALSE, TRUE>>, TRUE), Callable(<<TRUE>>, TRUE)>>,
               <<Callable(<<TRUE>>, TRUE), Callable(<<FALSE>>, FALSE), Callable(<<TRUE>>, TRUE)>>}

Manager(kind, on) == [kind |-> kind, on |-> on]
MCManagers == {Manager("device", 0), Manager("device", 1), Manager("stream", <<0, 1>>),
               Manager("stream", <<1, 1>>), Manager("capture", <<1, 2>>)}

Kernel(numel, block) == [numel |-> numel, block |-> block]
Single(kernel, cores) == [kernels |-> <<kernel>>, cores |-> cores, minBlocks |-> 0]
Combo(kernels, minBlocks) == [kernels |-> kernels, cores |-> 2, minBlocks |-> minBlocks]
TwoKernels == <<Kernel(<<5, 1, 1>>, <<2, 1, 1>>), Kernel(<<3, 3, 1>>, <<2, 2, 1>>)>>
ThreeKernels == <<Kernel(<<2, 1, 1>>, <<2, 1, 1>>), Kernel(<<3, 1, 1>>, <<2, 1, 1>>),
                  Kernel(<<1, 3, 1>>, <<2, 1, 1>>)>>

\* Fewer programs than blocks in one, two and three dimensions, as many, and more.
MCLaunches ==
    {Single(Kernel(<<7, 1, 1>>, <<2, 1, 1>>), c) : c \in {1, 3, 8}}
      \cup {Single(Kernel(<<3, 5, 1>>, <<2, 2, 1>>), c) : c \in {2, 4}}
      \cup {Single(Kernel(<<3, 2, 3>>, <<2, 1, 2>>), c) : c \in {3, 5, 9}}
      \cup {Single(Kernel(<<3, 0, 1>>, <<2, 2, 1>>), 2)}
      \cup {Combo(TwoKernels, b) : b \in {0, 8}}
      \cup {Combo(ThreeKernels, b) : b \in {0, 3}}

-----------------------------------------------------------------------------
\* The parts that do not run are in one state.
MCInit ==
    /\ part \in {"store", "share", "graph", "contexts", "launch"}
    /\ StoreInit /\ (part # "store" => Len(layout) = 1 /\ maps[1] = <<>>)
    /\ ShareInit
    /\ GraphInit /\ (part # "graph" => Len(callables) = 2)
    /\ ContextInit
    /\ LaunchInit /\ (part # "launch" => launch.cores = 8)

MCNext ==
    \/ part = "store" /\ StoreNext /\ UNCHANGED <<part, shareVars, graphVars, contextVars, launchVars>>
    \/ part = "share" /\ ShareNext /\ UNCHANGED <<part, storeVars, graphVars, contextVars, launchVars>>
    \/ part = "graph" /\ GraphNext /\ UNCHANGED <<part, storeVars, shareVars, contextVars, launchVars>>
    \/ part = "contexts" /\ ContextNext /\ UNCHANGED <<part, storeVars, shareVars, graphVars, launchVars>>
    \/ part = "launch" /\ LaunchNext /\ UNCHANGED <<part, storeVars, shareVars, graphVars, contextVars>>

MCSpec == MCInit /\ [][MCNext]_<<part, storeVars, shareVars, graphVars, contextVars, launchVars>>

\* Every part has the types of its variables.
TypeOK == StoreTypeOK /\ ShareTypeOK /\ GraphTypeOK /\ ContextTypeOK /\ LaunchTypeOK
=============================================================================
