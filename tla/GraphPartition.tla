-------------------------- MODULE GraphPartition --------------------------
(* How the automatic fusion pass looks for the next subgraph to fuse: for   *)
(* each node that may start a fusion and each dimension it could be tiled   *)
(* along, nodes are taken in greedily, from the results to the operands and *)
(* then from operands to results, until nothing changes; every node taken   *)
(* is paid for with a memory estimate (MemoryPlan).                         *)
EXTENDS MemoryPlan

CONSTANTS
    Cases,     \* the graphs explored, each with a chip and the limits set by the user
    StartOps   \* fusing_start_ops

\* A graph as torch.fx makes it: nodes once, every operand a node, nothing reads the
\* result, the outputs of a node with several are picked by getitems, each an output
\* that the node has.
WellFormed(G) ==
    /\ G.order \in Seq(Ids(G)) /\ IsInjective(G.order)
    /\ \A n \in Ids(G) : Args(G, n) \in Seq(Ids(G))
    /\ \A n \in Ids(G) : Op(G, n) = "getitem" => Len(Args(G, n)) = 1
    /\ \A n \in Ids(G) : \A x \in InputSet(G, n) :
          /\ Op(G, x) # "output"
          /\ Op(G, x) \in MultiOutput => Op(G, n) = "getitem" /\ G.node[n].attr[1] + 1 \in DOMAIN Shapes(G, x)
    /\ \A n \in Ids(G) :
          /\ Shapes(G, n) \in Seq(Seq(Int)) /\ Len(Shapes(G, n)) <= MaxOutputs
          /\ Op(G, n) \in Registered \ (MultiOutput \cup {"getitem"}) => Shapes(G, n) # <<>>

\* The pass is given graphs that can be run from the first node to the last.
ASSUME CasesAssumption ==
    \A c \in Cases :
        /\ WellFormed(c.graph) /\ Ids(c.graph) \subseteq Names
        /\ \A n \in Ids(c.graph) : \A x \in InputSet(c.graph, n) : Earlier(c.graph, x, n)
        /\ c.minNodes \in Nat \ {0} /\ c.maxNodes \in Nat

VARIABLES
    case,      \* limits and chip
    graph,
    pc,
    visited,   \* nodes of the subgraphs for which no kernel could be made
    made,      \* nodes created for kernels so far
    late,      \* a kernel was put behind the first of its outputs
    starts,    \* start nodes not tried yet
    dims,      \* dimensions of the start node not tried yet
    best,      \* [nodes, tiles, dim] of the best dimension so far (dim = -1: none)
    start, dim,
    tiles,     \* tile_dim_all
    keys,      \* its keys in order
    fused,     \* keys of subgraph_fused_nodes in order
    fusedTiles,\* its values
    work,      \* copy of the list that is being iterated over
    batch,     \* nodes inferred forward, still to be taken
    progress   \* has_fusion

passVars == <<case, graph, visited, made, late>>
fuseVars == <<tiles, keys, fused, fusedTiles, work, batch, progress>>
scanVars == <<starts, dims, best, start, dim>>

OutputShape(n) == Shape(graph, n)
Goto(label) == pc' = label
Raise == pc' = "raised"

-----------------------------------------------------------------------------
(* The tests of fuse_along_dim.                                            *)

\* Faulty form: subgraphs that were set aside are not avoided.
MayTakeAgain(n) ==
    /\ Len(fused) < case.maxNodes /\ ~Contains(fused, n)
    /\ Op(graph, n) \notin case.skipped /\ n \notin case.reserved

\* check_nodes_limits (the limit on the number of inputs is out of the bounds).
MayTake(n) ==
    /\ Len(fused) < case.maxNodes
    /\ n \notin visited /\ ~Contains(fused, n)
    /\ Op(graph, n) \notin case.skipped
    /\ n \notin case.reserved

\* check_fuse_limits: a symbolic size is allowed in a tiled dimension only.
StaticAround(n, T) ==
    \A x \in InputSet(graph, n) \cup {n} : \A i \in DOMAIN Shapes(graph, x) :
        \A d \in DOMAIN Shapes(graph, x)[i] :
            Shapes(graph, x)[i][d] \in Dynamic => d - 1 \in OutputTile(T, x, i)

\* Where it raises: a list of tiles with fewer entries than the node has outputs.
ShortTiles(n, T) ==
    \E x \in InputSet(graph, n) \cup {n} :
        Tiled(T, x) /\ T[x] # <<>> /\ Len(T[x]) < Len(Shapes(graph, x))

\* Where the estimate raises: a tiled dimension the node does not have.
OutOfRange(m) == \E x \in DOMAIN m : \E i \in DOMAIN m[x] : \E d \in m[x][i] : d >= Len(Shape(graph, x))

\* Faulty form: the way back ends at operators that cannot be fused.
RingOfSupported(n) ==
    LET inside == ToSet(fused)
        through == [x \in Ids(graph) |->
                       IF Op(graph, x) \in Registered /\ x \notin inside THEN InputSet(graph, x) ELSE {}]
    IN fused # <<>> /\ Closure(graph, through, InputSet(graph, n) \ inside) \cap inside # {}

\* has_ring_fuse: on the way back from n, outside the subgraph and not before its
\* first node, an operand lies in the subgraph again.
Ring(n) ==
    LET inside == ToSet(fused)
        through == [x \in Ids(graph) |->
                       IF x \in inside \/ Earlier(graph, x, First(graph, inside)) THEN {} ELSE InputSet(graph, x)]
    IN fused # <<>> /\ Closure(graph, through, InputSet(graph, n) \ inside) \cap inside # {}

\* Every user of n, and of its siblings, is in already.
UsersIn(n) == {u \in FamilyUsers(graph, n) : Op(graph, u) # "output"} \subseteq ToSet(fused)

Several(n) == Cardinality(RealUsers(graph, n)) > 1

\* check_multi_user_back_infer_same; a user that refuses has no answer to look into.
UsersAgree(n, t) == \A u \in RealUsers(graph, n) : \A m \in BackRule(graph, u, tiles) :
                        n \in DOMAIN m /\ m[n] = t
UsersRaise(n) == \E u \in RealUsers(graph, n) :
                     BackRaises(graph, u, tiles) \/ BackRule(graph, u, tiles) = {}

-----------------------------------------------------------------------------
(* fuse_greedily: one start node, one dimension after the other.           *)

StartNodes(G) == Part(Reverse(G.order), {n \in Ids(G) : Op(G, n) \in StartOps})
None == [nodes |-> <<>>, tiles |-> Nobody, dim |-> -1]

DynamicDims(s) == SelectSeq([i \in DOMAIN s |-> i - 1], LAMBDA d : s[d + 1] \in Dynamic)
AllDims(s) == [i \in DOMAIN s |-> i - 1]

TakeStart ==
    /\ pc = "starts" /\ starts # <<>>
    /\ LET n == Head(starts)
           s == OutputShape(n)
       IN /\ start' = n
          /\ dims' = IF n \in visited \/ Len(DynamicDims(s)) > 1 THEN <<>>
                     ELSE IF DynamicDims(s) # <<>> THEN DynamicDims(s) ELSE AllDims(s)
    /\ starts' = Tail(starts)
    /\ best' = None
    /\ Goto("dims")
    /\ UNCHANGED <<passVars, dim, fuseVars, planVars>>

\* The last dimension of a cat is tried only as long as no other one has worked.
SkipDim(d) == best.dim # -1 /\ Op(graph, start) = "cat" /\ d = Len(OutputShape(start)) - 1

TakeDim ==
    /\ pc = "dims" /\ dims # <<>>
    /\ LET d == Head(dims) IN
          IF SkipDim(d) THEN UNCHANGED <<pc, dim, fuseVars>>
          ELSE /\ dim' = d
               /\ tiles' = ForOutputs(graph, start, {d})
               /\ keys' = <<start>> /\ fused' = <<>> /\ fusedTiles' = Nobody
               /\ work' = <<>> /\ batch' = <<>> /\ progress' = FALSE
               /\ Goto("round")
    /\ dims' = Tail(dims)
    /\ UNCHANGED <<passVars, starts, best, start, planVars>>

\* analyze_fuse_profit: more nodes, or as many along a longer dimension that is not
\* the last one.
Better ==
    LET s == OutputShape(start) IN
    \/ best.dim = -1
    \/ Len(fused) > Len(best.nodes)
    \/ Len(fused) = Len(best.nodes) /\ s[dim + 1] > s[best.dim + 1] /\ dim < Len(s) - 1

EndDim ==
    /\ pc = "report" /\ Measured
    /\ best' = IF fused # <<>> /\ Better THEN [nodes |-> fused, tiles |-> fusedTiles, dim |-> dim] ELSE best
    /\ Goto("dims")
    /\ UNCHANGED <<passVars, starts, dims, start, dim, fuseVars, planVars>>

\* find_subgraphs: the first subgraph of a legal size is returned.
EndStart ==
    /\ pc = "dims" /\ dims = <<>>
    /\ Goto(IF Len(best.nodes) \in case.minNodes .. case.maxNodes THEN "found" ELSE "starts")
    /\ UNCHANGED <<passVars, scanVars, fuseVars, planVars>>

-----------------------------------------------------------------------------
(* fuse_along_dim                                                          *)

\* The list of keys and values is copied: what is taken later does not reach it.
BeginBack ==
    /\ pc = "round"
    /\ work' = [i \in DOMAIN keys |-> <<keys[i], tiles[keys[i]]>>]
    /\ progress' = FALSE
    /\ Goto("back")
    /\ UNCHANGED <<passVars, scanVars, tiles, keys, fused, fusedTiles, batch, planVars>>

Family(n) == IF Op(graph, n) = "getitem" THEN <<Args(graph, n)[1]>> \o Users(graph, Args(graph, n)[1])
             ELSE <<n>>

\* The tests that come before the rule is asked.
Ready(n) == MayTake(n) /\ (n # start => UsersIn(n))
Shared(n) == n # start /\ Several(n)
Agreed(n, t) == Shared(n) => UsersAgree(n, t)

\* What taking n would tile, if it may be taken.
BackOffers(n, t) ==
    {m \in BackRule(graph, n, tiles) : Ready(n) /\ Agreed(n, t) /\ StaticAround(n, Over(Only(n, t), m))}

\* Neither of these is caught by the pass.
BackError(n, t) ==
    /\ Ready(n)
    /\ \/ Shared(n) /\ UsersRaise(n)
       \/ /\ Agreed(n, t)
          /\ \/ BackRaises(graph, n, tiles)
             \/ \E m \in BackRule(graph, n, tiles) : ShortTiles(n, Over(Only(n, t), m))
             \/ \E m \in BackOffers(n, t) : OutOfRange(m)

\* Faulty form: what is measured is the subgraph without the nodes that join it.
BackAskBefore ==
    /\ pc = "back" /\ work # <<>>
    /\ LET n == Head(work)[1]
           t == Head(work)[2]
       IN /\ ~BackError(n, t)
          /\ \E m \in BackOffers(n, t) : Measure(graph, Over(m, tiles), fused, case.chip)
    /\ Goto("backMeasured")
    /\ UNCHANGED <<passVars, scanVars, fuseVars>>

BackAsk ==
    /\ pc = "back" /\ work # <<>>
    /\ LET n == Head(work)[1]
           t == Head(work)[2]
       IN /\ ~BackError(n, t)
          /\ \E m \in BackOffers(n, t), joined \in {fused \o Family(n)} :
                Measure(graph, Over(m, tiles), joined, case.chip)
    /\ Goto("backMeasured")
    /\ UNCHANGED <<passVars, scanVars, fuseVars>>

BackTake ==
    /\ pc = "backMeasured" /\ Measured
    /\ LET n == Head(work)[1]
           t == Head(work)[2]
       IN \E m \in BackOffers(n, t) :
          IF Affordable(case.chip)
          THEN /\ tiles' = Over(m, tiles)
               /\ keys' = PutAll(keys, Keys(graph, n, m))
               /\ fused' = PutAll(fused, Family(n))
               /\ fusedTiles' = [x \in ToSet(Family(n)) \cup DOMAIN fusedTiles |->
                                    IF x = n THEN t ELSE IF x \in ToSet(Family(n)) THEN m[x] ELSE fusedTiles[x]]
               /\ progress' = TRUE
          ELSE UNCHANGED <<tiles, keys, fused, fusedTiles, progress>>
    /\ work' = Tail(work)
    /\ Goto("back")
    /\ UNCHANGED <<passVars, scanVars, batch, planVars>>

BackSkip ==
    /\ pc = "back" /\ work # <<>>
    /\ LET n == Head(work)[1]
           t == Head(work)[2]
       IN IF BackError(n, t) THEN Raise ELSE BackOffers(n, t) = {} /\ UNCHANGED pc
    /\ work' = Tail(work)
    /\ UNCHANGED <<passVars, scanVars, tiles, keys, fused, fusedTiles, batch, progress, planVars>>

\* The users of the nodes that are in now, node by node.
BeginFront ==
    /\ pc = "back" /\ work = <<>>
    /\ work' = FlattenSeq([i \in DOMAIN fused |-> Users(graph, fused[i])])
    /\ Goto("front")
    /\ UNCHANGED <<passVars, scanVars, tiles, keys, fused, fusedTiles, batch, progress, planVars>>

\* The node itself first, then the getitems a rule answers for.
Infer ==
    /\ pc = "front" /\ work # <<>>
    /\ LET n == Head(work)
           maps == IF MayTake(n) THEN FrontRule(graph, n, tiles) ELSE {}
           Items(m) == LET s == Part(<<n>> \o Users(graph, n), DOMAIN m)
                       IN [i \in DOMAIN s |-> <<s[i], m[s[i]]>>]
       IN IF maps = {} THEN batch' = <<>> ELSE \E m \in maps : batch' = Items(m)
    /\ work' = Tail(work)
    /\ Goto("batch")
    /\ UNCHANGED <<passVars, scanVars, tiles, keys, fused, fusedTiles, progress, planVars>>

FrontOffers(n, t) ==
    {m \in BackRule(graph, n, Only(n, t)) :
        SomeTile(t) /\ ~Ring(n) /\ m # Nobody /\ StaticAround(n, Over(Only(n, t), m))}

FrontError(n, t) ==
    /\ SomeTile(t) /\ ~Ring(n)
    /\ \/ BackRaises(graph, n, Only(n, t))
       \/ \E m \in BackRule(graph, n, Only(n, t)) : m # Nobody /\ ShortTiles(n, Over(Only(n, t), m))
       \/ \E m \in FrontOffers(n, t) : OutOfRange(m)

FrontAsk ==
    /\ pc = "batch" /\ batch # <<>>
    /\ LET n == Head(batch)[1]
           t == Head(batch)[2]
       IN /\ ~FrontError(n, t)
          /\ \E m \in FrontOffers(n, t) :
                Measure(graph, Over(Only(n, t), Over(m, tiles)), Append(fused, n), case.chip)
    /\ Goto("batchMeasured")
    /\ UNCHANGED <<passVars, scanVars, fuseVars>>

\* Tiles of nodes that are in already may be overwritten here ("TODO: check if has
\* conflict tile_dim").
FrontTake ==
    /\ pc = "batchMeasured" /\ Measured
    /\ LET n == Head(batch)[1]
           t == Head(batch)[2]
       IN \E m \in FrontOffers(n, t) :
          IF Affordable(case.chip)
          THEN /\ tiles' = Over(m, Over(Only(n, t), tiles))
               /\ keys' = PutAll(Put(keys, n), Keys(graph, n, m))
               /\ fused' = Put(fused, n)
               /\ fusedTiles' = [x \in {n} \cup DOMAIN fusedTiles |-> IF x = n THEN t ELSE fusedTiles[x]]
               /\ progress' = TRUE
          ELSE UNCHANGED <<tiles, keys, fused, fusedTiles, progress>>
    /\ batch' = Tail(batch)
    /\ Goto("batch")
    /\ UNCHANGED <<passVars, scanVars, work, planVars>>

FrontSkip ==
    /\ pc = "batch" /\ batch # <<>>
    /\ LET n == Head(batch)[1]
           t == Head(batch)[2]
       IN IF FrontError(n, t) THEN Raise ELSE FrontOffers(n, t) = {} /\ UNCHANGED pc
    /\ batch' = Tail(batch)
    /\ UNCHANGED <<passVars, scanVars, tiles, keys, fused, fusedTiles, work, progress, planVars>>

EndBatch ==
    /\ pc = "batch" /\ batch = <<>>
    /\ Goto("front")
    /\ UNCHANGED <<passVars, scanVars, fuseVars, planVars>>

\* A round that took nothing is the last one; its subgraph is measured once more, for
\* the log.
EndRound ==
    /\ pc = "front" /\ work = <<>>
    /\ IF progress THEN Goto("round") /\ UNCHANGED planVars
       ELSE Goto("report") /\ Measure(graph, tiles, fused, case.chip)
    /\ UNCHANGED <<passVars, scanVars, fuseVars>>

\* The estimate, played to its end; its assertions are not caught either.
MeasureStep ==
    /\ pc \in {"backMeasured", "batchMeasured", "report"}
    /\ \/ PlanStep /\ UNCHANGED pc
       \/ PlanFails /\ Raise /\ UNCHANGED planVars
    /\ UNCHANGED <<passVars, scanVars, fuseVars>>

Search ==
    \/ TakeStart \/ TakeDim \/ EndDim \/ EndStart
    \/ BeginBack \/ BackAsk \/ BackTake \/ BackSkip
    \/ BeginFront \/ Infer \/ FrontAsk \/ FrontTake \/ FrontSkip \/ EndBatch \/ EndRound
    \/ MeasureStep
=============================================================================
