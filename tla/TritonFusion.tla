--------------------------- MODULE TritonFusion ---------------------------
(* The automatic fusion pass: subgraphs are looked for (GraphPartition),    *)
(* one at a time, until none is left; a kernel is generated for each and    *)
(* takes its place in the graph.  A subgraph for which that fails is set    *)
(* aside and the search starts again.                                      *)
EXTENDS GraphPartition, TileMeaning

CONSTANT FreshNames  \* names of the nodes the pass creates, in order

ASSUME NamesAssumption ==
    /\ FreshNames \in Seq(ToSet(FreshNames)) /\ IsInjective(FreshNames)
    /\ ToSet(FreshNames) \subseteq Names
    /\ \A c \in Cases : Ids(c.graph) \cap ToSet(FreshNames) = {}

vars == <<passVars, pc, scanVars, fuseVars, planVars>>

Init ==
    /\ case \in Cases
    /\ graph = case.graph
    /\ pc = "starts"
    /\ visited = {}
    /\ starts = StartNodes(case.graph)
    /\ dims = <<>> /\ best = None /\ start = "" /\ dim = -1
    /\ tiles = Nobody /\ keys = <<>> /\ fused = <<>> /\ fusedTiles = Nobody
    /\ work = <<>> /\ batch = <<>> /\ progress = FALSE
    /\ PlanInit
    /\ made = 0 /\ late = FALSE

-----------------------------------------------------------------------------
Kernel == ToSet(best.nodes)
KernelInputs == (UNION {InputSet(graph, n) : n \in Kernel}) \ Kernel
KernelOutputs == InGraphOrder(graph, {n \in Kernel : ~(UserSet(graph, n) \subseteq Kernel)})

\* prepare_fusion_insertion: every input that lies behind the first output is moved
\* before it, after the operands it needs that lie behind it too.
Behind(G, x, point) ==
    IF ~Earlier(G, point, x) THEN {}
    ELSE Closure(G, [z \in Ids(G) |-> {y \in InputSet(G, z) : Earlier(G, point, y)}], {x})

\* The nodes of group 0 come first, then those of group 1, up to those of group last.
Arranged(G, group, last) ==
    LET placed[k \in 0 .. last] ==
            LET these == InGraphOrder(G, {n \in Ids(G) : group[n] = k})
            IN IF k = 0 THEN these ELSE placed[k - 1] \o these
    IN placed[last]

\* The nodes that moved pairs with an input go before point, input by input and for
\* each in the order of the graph.
MoveBefore(G, inputs, moved, point) ==
    LET Turns(n) == {i \in DOMAIN inputs : <<i, n>> \in moved}
        group == [n \in Ids(G) |->
                     IF Turns(n) # {} THEN Min(Turns(n))
                     ELSE IF Earlier(G, n, point) THEN 0 ELSE Len(inputs) + 1]
    IN [order |-> Arranged(G, group, Len(inputs) + 1), node |-> G.node]

\* Faulty form: the operands stay where they are.
MovedAlone(G, inputs, point) ==
    MoveBefore(G, inputs, UNION {{i} \X ({inputs[i]} \cap Behind(G, inputs[i], point)) : i \in DOMAIN inputs}, point)

MovedInputs(G, inputs, point) ==
    MoveBefore(G, inputs, UNION {{i} \X Behind(G, inputs[i], point) : i \in DOMAIN inputs}, point)

\* Faulty form: the uses stay as they are.
UsesKept(G, new) == G

\* replace_all_uses_with
Renamed(G, new) ==
    LET Name(x) == IF x \in DOMAIN new THEN new[x] ELSE x
        Args2(n) == [i \in DOMAIN Args(G, n) |-> Name(Args(G, n)[i])]
    IN [order |-> G.order,
        node |-> [n \in Ids(G) |-> [op |-> Op(G, n), args |-> Args2(n),
                                    attr |-> G.node[n].attr, shapes |-> Shapes(G, n)]]]

Erased(G, S) ==
    [order |-> InGraphOrder(G, Ids(G) \ S), node |-> Restrict(G.node, Ids(G) \ S)]

\* The kernel, and a getitem for each output if there are several, go before anchor,
\* the first of a list made from a set: any of the outputs.
\* Uses of the outputs become uses of the new nodes, and the subgraph is erased.
WithKernel(G, ins, outs, anchor, names) ==
    LET k == names[1]
        single == Len(outs) = 1
        node(i) == IF i = 1
                   THEN [op |-> "kernel", args |-> ins, attr |-> <<>>,
                         shapes |-> IF single THEN Shapes(G, outs[1]) ELSE <<>>]
                   ELSE [op |-> "getitem", args |-> <<k>>, attr |-> <<i - 2>>,
                         shapes |-> Shapes(G, outs[i - 1])]
        Index(S, x) == CHOOSE i \in DOMAIN S : S[i] = x
        replacement == [n \in ToSet(outs) |-> IF single THEN k ELSE names[Index(outs, n) + 1]]
        at == Pos(G, anchor)
    IN [order |-> SubSeq(G.order, 1, at - 1) \o names \o SubSeq(G.order, at, Len(G.order)),
        node |-> [n \in ToSet(names) \cup Ids(G) |->
                     IF n \in ToSet(names) THEN node(Index(names, n)) ELSE Renamed(G, replacement).node[n]]]

\* Faulty form: every rule is asked, but not whether the answers agree.
ConsistentEach(nodes, t) == \A n \in ToSet(nodes) : BackRule(graph, n, t) # {}

\* TransformTorch2Triton: the tiles of the subgraph must agree backwards before any
\* code is generated.
Consistent(nodes, t) == BackAll(graph, nodes, t) # {}

\* Every value the source of the kernel names is defined in it: a getitem is named
\* after its operand, and max and unbind have no name of their own.
NamesDefined ==
    /\ \A n \in Kernel : Op(graph, n) = "getitem" => Args(graph, n)[1] \in Kernel
    /\ \A n \in ToSet(KernelOutputs) : Op(graph, n) \notin {"max", "unbind"}

\* Faulty form: the subgraph is not remembered.
FailForgotten ==
    /\ pc = "found"
    /\ starts' = StartNodes(graph)
    /\ Goto("starts")
    /\ UNCHANGED <<case, graph, visited, dims, best, start, dim, fuseVars, planVars, made, late>>

\* Generating or trying out the kernel may fail in many ways, all of them caught.
TransformFails ==
    /\ pc = "found"
    /\ visited' = visited \cup Kernel
    /\ starts' = StartNodes(graph)
    /\ Goto("starts")
    /\ UNCHANGED <<case, graph, dims, best, start, dim, fuseVars, planVars, made, late>>

Transform ==
    /\ pc = "found"
    /\ Consistent(best.nodes, best.tiles) /\ KernelOutputs # <<>> /\ NamesDefined
    /\ Goto("insert")
    /\ UNCHANGED <<passVars, scanVars, fuseVars, planVars>>

InsertKernel ==
    /\ pc = "insert"
    /\ \E ins \in {InGraphOrder(graph, KernelInputs)}, outs \in {KernelOutputs} :
       \E anchor \in ToSet(outs), first \in {First(graph, ToSet(outs))} :
       \E moved \in {MovedInputs(graph, ins, first)} :
          LET n == IF Len(outs) = 1 THEN 1 ELSE Len(outs) + 1
              new == SubSeq(FreshNames, made + 1, made + n)
          IN /\ made + n <= Len(FreshNames)
             /\ made' = made + n
             /\ graph' = Erased(WithKernel(moved, ins, outs, anchor, new), Kernel)
             /\ late' = (late \/ anchor # first)
    /\ starts' = StartNodes(graph')
    /\ Goto("starts")
    /\ UNCHANGED <<case, visited, dims, best, start, dim, fuseVars, planVars>>

Finish ==
    /\ pc = "starts" /\ starts = <<>>
    /\ Goto("done")
    /\ UNCHANGED <<passVars, scanVars, fuseVars, planVars>>

Next == Search \/ Transform \/ TransformFails \/ InsertKernel \/ Finish

Spec == Init /\ [][Next]_vars /\ WF_vars(Next)

-----------------------------------------------------------------------------
(* Properties.                                                             *)

TypeOK ==
    /\ pc \in {"starts", "dims", "round", "back", "backMeasured", "front", "batch", "batchMeasured",
               "report", "found", "insert", "done", "raised"}
    /\ visited \subseteq Ids(case.graph) \cup ToSet(FreshNames)
    /\ ToSet(fused) = DOMAIN fusedTiles
    /\ \A n \in Ids(graph) : InputSet(graph, n) \subseteq Ids(graph)

\* No value leaves a subgraph and comes back to it: otherwise its kernel could not be
\* run at any place (has_ring_fuse, and the test of all users on the way back).
Convex ==
    pc \in {"found", "insert"} =>
        Closure(graph, [x \in Ids(graph) |-> UserSet(graph, x)], Kernel)
            \cap Closure(graph, [x \in Ids(graph) |-> InputSet(graph, x)], Kernel)
            \subseteq Kernel

\* As long as every kernel was put before the first of its outputs, the graph stays
\* in an order in which it can be run (prepare_fusion_insertion, triton_fusion_pass).
InOrder == ~late => \A n \in Ids(graph) : \A x \in InputSet(graph, n) : Earlier(graph, x, n)

\* In a kernel all readers of a value, inside or outside, want it tiled in the same
\* way, and so does the node itself if it is inside (fuse_along_dim overwrites tiles;
\* set_tiledims_to_nodes is what stands between that and the kernel).
KernelAgrees ==
    pc = "insert" =>
        \A n, k \in Kernel : \A m \in BackRule(graph, n, best.tiles) : \A l \in BackRule(graph, k, best.tiles) :
            /\ \A x \in DOMAIN m \cap DOMAIN l : m[x] = l[x]
            /\ \A x \in DOMAIN m \cap Kernel : m[x] = best.tiles[x]

\* Every tile of a kernel is computed from the tiles it says it needs: where the back
\* rule of a node tiles an operand, the operand follows the tiled result, element by
\* element (infer_tiledim_back of the processors).
TileSound ==
    pc = "insert" => \A n \in Kernel :
        Op(graph, n) # "getitem" /\ ~Miscounted(graph, n) => RuleSound(graph, n, best.tiles)

\* A subgraph that was set aside does not come back: a node of one is taken again only
\* as a member of a family, and every subgraph has a node that is new, so that the
\* search for another one comes to an end (visited_subgraphs, check_nodes_limits).
NoRetry ==
    pc \in {"found", "insert"} =>
        /\ \A n \in Kernel \cap visited : Op(graph, n) \in MultiOutput \cup {"getitem"}
        /\ ~(Kernel \subseteq visited)

\* What is fused in the end still fits the chip.
FitsOnChip == pc = "report" /\ Measured => Affordable(case.chip)

\* The family of a getitem that was refused forwards is offered again backwards, the
\* parts that are in included: they are listed, and played, twice.
PlayedOnce ==
    \/ pc = "backMeasured" /\ ToSet(Family(Head(work)[1])) \cap ToSet(fused) = {}
    \/ pc = "batchMeasured" /\ ~Contains(fused, Head(batch)[1])
    \/ pc = "report"

\* The operands of everything that is still to be played are in place (the use
\* counts of get_memory_total_size, which leave out cats and outside readers).
ResidentWhenRead ==
    PlayedOnce => \A i \in DOMAIN todo : todo[i].do = "read" =>
        \A s \in given : s[1] = todo[i].operand => Nram!Holds(s) /\ Wram!Holds(s) /\ Sm!Holds(s)

PlanNeverFails == PlayedOnce => ~PlanFails

Terminates == <>(pc \in {"done", "raised"})
=============================================================================
