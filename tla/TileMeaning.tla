---------------------------- MODULE TileMeaning ----------------------------
(* What the tile rules are about: which elements of its operands an element *)
(* of a node is computed from.  This is the meaning of the operators, not   *)
(* code of the pass: the rules of TileDims are compared with it.            *)
(*                                                                         *)
(* An element is named by its indices, counted from 0, one per dimension.   *)
EXTENDS TileDims

Elements(s) == {o \in [DOMAIN s -> 0 .. Max({0} \cup ToSet(s)) - 1] : \A i \in DOMAIN s : o[i] < s[i]}

\* Elements of shape s that agree with o in the dimensions where f has a place in o.
Agreeing(s, o, f) == {e \in Elements(s) : \A i \in DOMAIN s : f[i] # 0 => e[i] = o[f[i]]}

\* Broadcasting: dimensions are aligned to the right, a single element serves all.
Broadcast(s, o) == {[i \in DOMAIN s |-> IF s[i] = 1 THEN 0 ELSE o[i + Len(o) - Len(s)]]}

\* The place in a result of each operand dimension, 0 for those in gone; the result
\* either keeps them or not.
Places(s, gone, keeps) ==
    [i \in DOMAIN s |-> IF i - 1 \in gone THEN 0
                        ELSE IF keeps THEN i
                        ELSE i - Cardinality({d \in gone : d < i - 1})]

Offset(s, o) == FoldLeft(LAMBDA v, i : v * s[i] + o[i], 0, [i \in DOMAIN s |-> i])

Own(G, n) == Norm(ToSet(G.node[n].attr), Len(Shape(G, Args(G, n)[1])))

\* Where the part of operand number k begins in a concatenation.
Start(G, n, k) ==
    LET d == CHOOSE e \in Own(G, n) : TRUE
    IN FoldLeft(LAMBDA v, i : v + Shape(G, Args(G, n)[i])[d + 1], 0, [i \in 1 .. k - 1 |-> i])

\* Elements of operand number k that element o of an output of n comes from.
ReadsOf(G, n, o, k) ==
    LET x == Args(G, n)[k]
        s == Shape(G, x)
        r == Len(s)
        keeps == Len(o) = r
        Row == [i \in 1 .. r |-> IF i = r THEN 0 ELSE i]
        Column == [i \in 1 .. r |-> IF i = r - 1 THEN 0 ELSE i]
    IN CASE Op(G, n) \in AlignRight \/ x \in Bias(G, n) -> Broadcast(s, o)
         [] Op(G, n) \in {"sum", "max", "var_mean", "select", "unbind"} ->
               Agreeing(s, o, Places(s, IF G.node[n].attr = <<>> THEN 0 .. r - 1 ELSE Own(G, n), keeps))
         [] Op(G, n) = "cat" ->
               {e \in Elements(s) : \A i \in DOMAIN s :
                   o[i] = e[i] + (IF i - 1 \in Own(G, n) THEN Start(G, n, k) ELSE 0)}
         [] Op(G, n) = "slice" -> {o}
         [] Op(G, n) \in Permute ->
               Agreeing(s, o, [i \in DOMAIN s |->
                   LET at == {j \in DOMAIN o : Dim(Permutation(G, n), j - 1) = i - 1}
                   IN IF at = {} THEN 0 ELSE CHOOSE j \in at : TRUE])
         [] Op(G, n) \in Matmul ->
               (IF x = MatInput(G, n) THEN Agreeing(s, o, Row) ELSE {})
                 \cup (IF x = Filter(G, n) THEN Agreeing(s, o, Column) ELSE {})
         [] Op(G, n) = "repeat" -> {[i \in DOMAIN s |-> o[i + Len(o) - r] % s[i]]}
         [] Op(G, n) = "gather" -> Agreeing(s, o, Places(s, IF k = 1 THEN {GatherDim(G, n)} ELSE {}, TRUE))
         [] OTHER -> {e \in Elements(s) : Offset(s, e) = Offset(Shape(G, n), o)}

Reads(G, n, o, x) == UNION {ReadsOf(G, n, o, k) : k \in {i \in DOMAIN Args(G, n) : Args(G, n)[i] = x}}

\* Dimension d of operand x follows one of the dimensions in tile: a block of the
\* result along that dimension is computed from the same block of the operand.
Follows(G, n, tile, x, d) ==
    \E e \in tile : \A o \in Elements(Shape(G, n)) : \A i \in Reads(G, n, o, x) : i[d + 1] = o[e + 1]

\* The back rule tiles an operand only where it follows the result.
RuleSound(G, n, T) ==
    \A m \in BackOwn(G, n, T) : \A x \in DOMAIN m \cap InputSet(G, n) :
        \A d \in m[x][1] : Follows(G, n, T[n][1], x, d)

\* Where the code is known not to: select counts its dimension in the result, which has
\* one less; repeat gives the operand the number of the result's dimension; a product
\* of a matrix with itself needs rows in one place and columns in the other.
Miscounted(G, n) ==
    \/ Op(G, n) \in Matmul /\ MatInput(G, n) = Filter(G, n)
    \/ Op(G, n) = "select" /\ ReduceDims(G, n) # Own(G, n)
    \/ Op(G, n) = "repeat" /\ Len(Shape(G, n)) # Len(Shape(G, Args(G, n)[1]))
=============================================================================
