----------------------------- MODULE TileDims -----------------------------
(* The operator graph of the automatic fusion pass and the rules by which   *)
(* it follows tile dimensions from a node to its operands (back) and from   *)
(* its operands to a node (front): one processor class per kind of node.    *)
(*                                                                         *)
(* A graph is [order, node]: the nodes in the order of the graph, and for   *)
(* each its op, operands (args), integer arguments (attr) and the shapes of *)
(* its outputs.  Dimensions are counted from 0, as in the code.  A tile map *)
(* gives, for some nodes, one set of tiled dimensions per output.  A rule   *)
(* that refuses (None) returns {}, one that infers the map m returns {m}.   *)
EXTENDS Integers, Sequences, FiniteSets, SequencesExt, FiniteSetsExt, Functions, TLC

CONSTANT Dynamic  \* the sizes that stand for symbols

Ids(G) == ToSet(G.order)
Op(G, n) == G.node[n].op
Args(G, n) == G.node[n].args
Shapes(G, n) == G.node[n].shapes
Shape(G, n) == Shapes(G, n)[1]

Pos(G, n) == CHOOSE i \in DOMAIN G.order : G.order[i] = n
Earlier(G, m, n) == Pos(G, m) < Pos(G, n)

\* The members of s that lie in S, in order.
Part(s, S) ==
    LET part[k \in 0 .. Len(s)] ==
            IF k = 0 THEN <<>> ELSE IF s[k] \in S THEN Append(part[k - 1], s[k]) ELSE part[k - 1]
    IN part[Len(s)]
InGraphOrder(G, S) == Part(G.order, S)
First(G, S) == CHOOSE n \in S : \A m \in S : ~Earlier(G, m, n)

\* New keys go to the end of a dictionary.
Put(s, n) == IF Contains(s, n) THEN s ELSE Append(s, n)
PutAll(s, t) ==
    LET New(k) == t[k] \notin ToSet(s) \cup {t[j] : j \in 1 .. k - 1}
        all[k \in 0 .. Len(t)] ==
            IF k = 0 THEN s ELSE IF New(k) THEN Append(all[k - 1], t[k]) ELSE all[k - 1]
    IN all[Len(t)]

\* Faulty form: an operand is listed as often as it occurs.
EveryArg(G, n) == Args(G, n)

\* all_input_nodes: every operand once.
Inputs(G, n) == PutAll(<<>>, Args(G, n))
InputSet(G, n) == ToSet(Args(G, n))
UserSet(G, n) == {u \in Ids(G) : n \in InputSet(G, u)}
Users(G, n) == InGraphOrder(G, UserSet(G, n))
RealUsers(G, n) == {u \in UserSet(G, n) : Op(G, u) # "output"}

\* get_user: a getitem counts with its siblings.
FamilyUsers(G, n) ==
    IF Op(G, n) = "getitem"
    THEN UNION {UserSet(G, s) : s \in UserSet(G, Args(G, n)[1])}
    ELSE UserSet(G, n)

\* Everything next leads to from S, in as many steps as there are nodes.
Closure(G, next, S) ==
    LET reach[k \in 0 .. Len(G.order)] ==
            IF k = 0 THEN S ELSE UNION {{x} \cup next[x] : x \in reach[k - 1]}
    IN reach[Len(G.order)]

Dim(s, d) == s[(d % Len(s)) + 1]
Product(s) == FoldLeft(LAMBDA x, y : x * y, 1, s)

Registered == {"placeholder", "full", "pointwise", "sum", "max", "var_mean", "cat", "slice",
               "select", "permute", "unsqueeze", "squeeze", "mm", "bmm", "addmm", "repeat",
               "gather", "reshape", "unbind", "getitem"}
AlignRight == {"pointwise"}
Reduce == {"sum", "max", "var_mean", "cat", "slice", "select"}
Permute == {"permute", "unsqueeze", "squeeze"}
Matmul == {"mm", "bmm", "addmm"}
MultiOutput == {"max", "var_mean", "unbind"}

\* The map of one node, and the map that says what g says, unless f says otherwise.
Only(x, v) == [y \in {x} |-> v]
Over(f, g) == [x \in DOMAIN f \cup DOMAIN g |-> IF x \in DOMAIN f THEN f[x] ELSE g[x]]

Nobody == <<>>   \* the empty map
Tiled(T, n) == n \in DOMAIN T
SomeTile(tiles) == \E i \in DOMAIN tiles : tiles[i] # {}

\* The map that tiles every operand x in S whose F(x) is not empty.
OperandTiles(S, F(_)) == [x \in {y \in S : F(y) # {}} |-> <<F(x)>>]

\* The loops over the outputs stop after the first that is tiled.
FirstTiledOutput(tiles) == CHOOSE i \in DOMAIN tiles : tiles[i] # {} /\ \A j \in 1 .. i - 1 : tiles[j] = {}

\* The front rules take the first operand that is tiled.
FirstTiledOperand(G, n, T) ==
    LET ins == SelectSeq(Inputs(G, n), LAMBDA x : Tiled(T, x)) IN
    IF ins = <<>> THEN {} ELSE {ins[1]}

\* The same set for every output.
ForOutputs(G, n, dims) == [x \in {n} |-> [i \in DOMAIN Shapes(G, n) |-> dims]]

-----------------------------------------------------------------------------
(* TileDimAlignRight *)

BackAlignRight(G, n, tiles) ==
    IF ~SomeTile(tiles) THEN {Nobody} ELSE
    LET out == FirstTiledOutput(tiles)
        s == Shapes(G, n)[out]
        Carried(x) == LET gap == Len(s) - Len(Shape(G, x)) IN
            {d - gap : d \in {e \in tiles[out] :
                                 e >= gap /\ Dim(Shape(G, x), e - gap) = Dim(s, e)}}
    IN {OperandTiles(InputSet(G, n), Carried)}

FrontAlignRight(G, n, T) ==
    {ForOutputs(G, n, {Len(Shape(G, n)) - Len(Shape(G, x)) + d : d \in T[x][1]}) :
        x \in FirstTiledOperand(G, n, T)}

-----------------------------------------------------------------------------
(* TileDimReduce *)

Norm(dims, rank) == {d % rank : d \in dims}

\* get_dims: sum and var_mean count from the operand, cat, slice and select from the
\* result, max does not bring negative dimensions into range.
ReduceDims(G, n) ==
    LET dims == ToSet(G.node[n].attr) IN
    CASE Op(G, n) \in {"sum", "var_mean"} -> Norm(dims, Len(Shape(G, Args(G, n)[1])))
      [] Op(G, n) \in {"cat", "slice", "select"} -> Norm(dims, Len(Shape(G, n)))
      [] OTHER -> dims

ReducesAll(G, n) == Op(G, n) \in {"sum", "var_mean"} /\ G.node[n].attr = <<>>

\* Faulty form: a dimension that is gone just before the one looked for is overlooked.
UnreducedShort(d, dims) ==
    FoldLeft(LAMBDA e, r : IF r < e THEN e + 1 ELSE e, d, SetToSortSeq(dims, <))

\* The operand dimension that dimension d of the result comes from once dims are gone.
Unreduced(d, dims) ==
    FoldLeft(LAMBDA e, r : IF r <= e THEN e + 1 ELSE e, d, SetToSortSeq(dims, <))

\* continue_if_tiledim_equal
MayTileReduced(G, n, x, d) == Op(G, n) = "slice" /\ Dim(Shape(G, x), d) = Dim(Shape(G, n), d)

BackReduce(G, n, tiles) ==
    IF ~SomeTile(tiles) THEN {Nobody} ELSE
    LET out == FirstTiledOutput(tiles)
        rank == Len(Shapes(G, n)[out])
        Rank(x) == Len(Shape(G, x))
        Gone(x) == Norm(ReduceDims(G, n), Rank(x))
        Refused(x, d) ==
            IF Rank(x) = rank THEN d \in Gone(x) /\ ~MayTileReduced(G, n, x, d)
            ELSE Cardinality(Gone(x)) + rank = Rank(x) /\ Unreduced(d, Gone(x)) >= Rank(x)
        Carried(x) ==
            IF Rank(x) = rank THEN tiles[out]
            ELSE IF Cardinality(Gone(x)) + rank = Rank(x) THEN {Unreduced(d, Gone(x)) : d \in tiles[out]}
            ELSE {}
    IN IF \E x \in InputSet(G, n) : \E d \in tiles[out] : Refused(x, d) THEN {}
       ELSE {OperandTiles(InputSet(G, n), Carried)}

FrontReduce(G, n, T) ==
    LET rank == Len(Shape(G, n))
        dims == ReduceDims(G, n)
        Same(x) == Len(Shape(G, x)) = rank
        Refused(x, d) == d \in dims /\ ~(Same(x) /\ MayTileReduced(G, n, x, d))
        Carried(x) ==
            IF Same(x) THEN T[x][1]
            ELSE IF Cardinality(dims) + rank = Len(Shape(G, x))
                 THEN {d - Cardinality({r \in dims : r < d}) : d \in T[x][1]}
            ELSE {}
    IN {ForOutputs(G, n, Carried(x)) :
           x \in {y \in FirstTiledOperand(G, n, T) : \A d \in T[y][1] : ~Refused(y, d)}}

-----------------------------------------------------------------------------
(* TileDimPermute: a new dimension is marked -1. *)

Permutation(G, n) ==
    LET x == Args(G, n)[1]
        rank == Len(Shape(G, x))
        axes == [i \in 1 .. rank |-> i - 1]
        dims == G.node[n].attr
    IN CASE Op(G, n) = "permute" -> dims
         [] Op(G, n) = "unsqueeze" -> InsertAt(axes, 1 + (dims[1] % Len(Shape(G, n))), -1)
         [] OTHER -> SelectSeq(axes, LAMBDA d :
                        ~(d \in Norm(ToSet(dims), rank) /\ Dim(Shape(G, x), d) = 1))

BackPermute(G, n, tiles) ==
    LET from == {Permutation(G, n)[d + 1] : d \in tiles[1]} IN
    IF \E d \in from : d < 0 THEN {} ELSE {OperandTiles(InputSet(G, n), LAMBDA x : from)}

FrontPermute(G, n, T) ==
    LET perm == Permutation(G, n)
        To(d) == (CHOOSE i \in DOMAIN perm : perm[i] = d) - 1
    IN {ForOutputs(G, n, {To(d) : d \in T[x][1]}) :
           x \in {y \in FirstTiledOperand(G, n, T) : T[y][1] \subseteq ToSet(perm)}}

-----------------------------------------------------------------------------
(* TileDimMatmul: rows from the input, columns from the filter and the bias. *)

MatInput(G, n) == IF Op(G, n) = "addmm" THEN Args(G, n)[2] ELSE Args(G, n)[1]
Filter(G, n) == IF Op(G, n) = "addmm" THEN Args(G, n)[3] ELSE Args(G, n)[2]
Bias(G, n) == IF Op(G, n) = "addmm" THEN {Args(G, n)[1]} ELSE {}

BackMatmul(G, n, tiles) ==
    LET tile == tiles[1]
        rank == Len(Shape(G, n))
        row == rank - 2
        col == rank - 1
        Named(x) == \/ x = MatInput(G, n) /\ tile \ {col} # {}
                    \/ x = Filter(G, n) /\ tile \ {row} # {}
                    \/ x \in Bias(G, n) /\ (col \in tile \/ (row \in tile /\ Len(Shape(G, x)) = rank))
        Carried(x) ==
            (IF x = MatInput(G, n) THEN tile \ {col} ELSE {})
              \cup (IF x = Filter(G, n) THEN tile \ {row} ELSE {})
              \cup (IF x \in Bias(G, n)
                    THEN LET r == Len(Shape(G, x)) IN
                         {d \in {r - 1} : col \in tile /\ Dim(Shape(G, x), d) > 1}
                           \cup {d \in {r - 2} : row \in tile /\ r = rank /\ Dim(Shape(G, x), d) > 1}
                    ELSE {})
    IN {[x \in {y \in InputSet(G, n) : Named(y)} |-> <<Carried(x)>>]}

FrontMatmul(G, n, T) ==
    LET rank == Len(Shape(G, n))
        Source == SelectSeq(<<MatInput(G, n), Filter(G, n)>> \o SetToSeq(Bias(G, n)),
                            LAMBDA x : Tiled(T, x))
        x == Source[1]
        Kept == IF x = MatInput(G, n) THEN 0 .. rank - 2
                ELSE IF x = Filter(G, n) THEN (0 .. rank - 1) \ {rank - 2}
                ELSE {Len(Shape(G, x)) - 1}
        To(d) == IF x \in Bias(G, n) /\ d = Len(Shape(G, x)) - 1 THEN rank - 1 ELSE d
    IN IF Source = <<>> THEN {Nobody}
       ELSE IF T[x][1] \subseteq Kept \/ (x \in Bias(G, n) /\ Shape(G, x) = Shape(G, n))
            THEN {ForOutputs(G, n, {To(d) : d \in T[x][1]})}
            ELSE {}

-----------------------------------------------------------------------------
(* RepeatProcessor, GatherProcessor, ReshapeProcessor *)

BackRepeat(G, n, tiles) ==
    LET x == Args(G, n)[1]
        new == Len(Shape(G, n)) - Len(Shape(G, x))
    IN IF \A d \in tiles[1] : d >= new /\ Dim(Shape(G, n), d) = Dim(Shape(G, x), d - new)
       THEN {Only(x, <<tiles[1]>>)}
       ELSE {}

FrontRepeat(G, n, T) ==
    LET new(x) == Len(Shape(G, n)) - Len(Shape(G, x)) IN
    {ForOutputs(G, n, {d + new(x) : d \in T[x][1]}) :
        x \in {y \in FirstTiledOperand(G, n, T) :
                 \A d \in T[y][1] : G.node[n].attr[d + new(y) + 1] = 1}}

GatherDim(G, n) == G.node[n].attr[1] % Len(Shape(G, Args(G, n)[1]))

BackGather(G, n, tiles) ==
    IF GatherDim(G, n) \in tiles[1] THEN {} ELSE {[x \in InputSet(G, n) |-> <<tiles[1]>>]}

\* The index is looked at first.
FrontGather(G, n, T) ==
    LET source == Args(G, n)[1]
        index == Args(G, n)[2]
        x == IF Tiled(T, index) THEN index ELSE source
        Differs(d) == x = source /\ Dim(Shape(G, x), d) # Dim(Shape(G, index), d)
    IN IF ~Tiled(T, x) THEN {Nobody}
       ELSE IF \E d \in T[x][1] : d = GatherDim(G, n) \/ Differs(d) THEN {}
       ELSE {ForOutputs(G, n, T[x][1])}

\* The first dimension of t, not in taken, with the place and the size that
\* dimension d has in s.
SamePlace(s, t, d, taken) ==
    LET found == {i \in 0 .. Len(t) - 1 :
                     /\ Product(SubSeq(t, 1, i)) = Product(SubSeq(s, 1, d))
                     /\ t[i + 1] = s[d + 1]
                     /\ i \notin taken}
    IN {i \in found : \A j \in found : i <= j}

\* The tiled dimensions in ascending order, each with the place it is found at.
BackReshape(G, n, tiles) ==
    LET x == Args(G, n)[1]
        Add(found, d) == UNION {{dims \cup {i} : i \in SamePlace(Shape(G, n), Shape(G, x), d, dims)} :
                                   dims \in found}
        upTo[k \in 0 .. Len(Shape(G, n))] ==
            IF k = 0 THEN {{}} ELSE IF k - 1 \in tiles[1] THEN Add(upTo[k - 1], k - 1) ELSE upTo[k - 1]
    IN {Only(x, <<dims>>) : dims \in upTo[Len(Shape(G, n))]}

\* Going forward the dimensions already taken are compared with a list of sets,
\* and so never found in it.
FrontReshape(G, n, T) ==
    LET Place(x, d) == SamePlace(Shape(G, x), Shape(G, n), d, {}) IN
    {ForOutputs(G, n, UNION {Place(x, d) : d \in T[x][1]}) :
        x \in {y \in FirstTiledOperand(G, n, T) : \A d \in T[y][1] : Place(y, d) # {}}}

-----------------------------------------------------------------------------
(* Nodes with several outputs and their getitems *)

BackUnbind(G, n, tiles) ==
    LET Carried(x) == {IF d >= G.node[n].attr[1] THEN d + 1 ELSE d : d \in tiles[1]} IN
    {OperandTiles(InputSet(G, n), Carried)}

\* One entry for every user, whatever the number of outputs.
FrontUnbind(G, n, T) ==
    LET dim == G.node[n].attr[1]
        Carried(x) == {IF d > dim THEN d - 1 ELSE d : d \in T[x][1]}
    IN {Over([y \in UserSet(G, n) |-> <<Carried(x)>>], Only(n, [i \in DOMAIN Users(G, n) |-> Carried(x)])) :
           x \in {y \in FirstTiledOperand(G, n, T) : dim \notin T[y][1]}}

\* infer_sibling_and_self_nodes: from the node to its getitems, or else from the
\* first tiled getitem to the node and the others.
Siblings(G, m, T) ==
    LET tiled == Part(Users(G, m), DOMAIN T)
        family == {m} \cup UserSet(G, m)
    IN IF Tiled(T, m) /\ T[m] # <<>>
       THEN [x \in family |-> IF x = m THEN T[m] ELSE <<T[m][G.node[x].attr[1] + 1]>>]
       ELSE IF tiled = <<>> THEN Nobody
       ELSE [x \in family |-> IF x = m THEN [i \in DOMAIN Shapes(G, m) |-> T[tiled[1]][1]] ELSE T[tiled[1]]]

FrontGetitem(G, n, T) ==
    LET m == Args(G, n)[1] IN
    IF Tiled(T, m) THEN {[x \in {n} |-> <<T[m][G.node[n].attr[1] + 1]>>]} ELSE {Nobody}

-----------------------------------------------------------------------------
\* infer_tiledim_back of a node that is not a getitem.
BackOwn(G, n, T) ==
    IF Op(G, n) \notin Registered \ {"placeholder"} \/ ReducesAll(G, n) THEN {}
    ELSE IF ~Tiled(T, n) \/ Op(G, n) = "full" THEN {Nobody}
    ELSE CASE Op(G, n) \in AlignRight -> BackAlignRight(G, n, T[n])
           [] Op(G, n) \in Reduce -> BackReduce(G, n, T[n])
           [] Op(G, n) \in Permute -> BackPermute(G, n, T[n])
           [] Op(G, n) \in Matmul -> BackMatmul(G, n, T[n])
           [] Op(G, n) = "repeat" -> BackRepeat(G, n, T[n])
           [] Op(G, n) = "gather" -> BackGather(G, n, T[n])
           [] Op(G, n) = "reshape" -> BackReshape(G, n, T[n])
           [] OTHER -> BackUnbind(G, n, T[n])

\* infer_tiledim_back: a getitem answers for the whole family, if its operand is
\* one of a node with several outputs.
BackRule(G, n, T) ==
    IF Op(G, n) # "getitem" THEN BackOwn(G, n, T)
    ELSE LET m == Args(G, n)[1]
             family == Siblings(G, m, T)
         IN IF Op(G, m) \notin MultiOutput THEN {}
            ELSE {Over(up, family) : up \in BackOwn(G, m, Over(family, T))}

\* Where infer_tiledim_back raises instead: a getitem of something that is supported
\* and has one output, a family whose own rule refuses (None is no operand of |), and
\* a repeat without any tiled dimension (a key that is read for the log).
BackRaises(G, n, T) ==
    \/ Op(G, n) = "getitem" /\ Op(G, Args(G, n)[1]) \in Registered /\ BackRule(G, n, T) = {}
    \/ Op(G, n) = "repeat" /\ Tiled(T, n) /\ T[n][1] = {}

\* infer_tiledim_front
FrontRule(G, n, T) ==
    IF Op(G, n) \notin Registered \ {"placeholder"} \/ ReducesAll(G, n) THEN {}
    ELSE CASE Op(G, n) = "full" -> {Nobody}
           [] Op(G, n) \in AlignRight -> FrontAlignRight(G, n, T)
           [] Op(G, n) \in Reduce -> FrontReduce(G, n, T)
           [] Op(G, n) \in Permute -> FrontPermute(G, n, T)
           [] Op(G, n) \in Matmul -> FrontMatmul(G, n, T)
           [] Op(G, n) = "repeat" -> FrontRepeat(G, n, T)
           [] Op(G, n) = "gather" -> FrontGather(G, n, T)
           [] Op(G, n) = "reshape" -> FrontReshape(G, n, T)
           [] Op(G, n) = "unbind" -> FrontUnbind(G, n, T)
           [] OTHER -> FrontGetitem(G, n, T)

\* The new keys of a map, in the order in which the rules add them.
Keys(G, n, m) ==
    LET first == IF Op(G, n) = "getitem" THEN Args(G, n)[1] ELSE n
        family == IF Op(G, first) \in MultiOutput THEN <<first>> \o Users(G, first) ELSE <<n>>
    IN Part(family \o Inputs(G, first), DOMAIN m)

\* infer_tiledim_back_all: every node of nodes, the last one first, must agree with
\* what was inferred before it.
BackAll(G, nodes, T) ==
    LET Merge(S, m) == IF \A x \in DOMAIN m : m[x] # <<>> /\ Tiled(S, x) => S[x] = m[x]
                       THEN {Over(S, Restrict(m, {x \in DOMAIN m : m[x] # <<>>}))}
                       ELSE {}
        Infer(S, n) == IF BackRaises(G, n, S) THEN {} ELSE UNION {Merge(S, m) : m \in BackRule(G, n, S)}
        back[k \in 0 .. Len(nodes)] ==
            IF k = 0 THEN {T} ELSE UNION {Infer(S, nodes[Len(nodes) + 1 - k]) : S \in back[k - 1]}
    IN back[Len(nodes)]
=============================================================================
